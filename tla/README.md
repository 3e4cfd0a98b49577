# A TLA+ model of the programs of nixosconfig

`nixosconfig` is the configuration of a small fleet of NixOS hosts, and the
programs that run on it. The most important of these keep the fleet up to date: a
bot that proposes and builds updates every night, a forge that stores them, and an
updater on every host that decides, from signatures alone, what it is willing to
run. The others are services and timers that work unattended over files and other
people's servers. This directory models them, checks the models with TLC and proves
parts of them with TLAPS.

Read `FleetUpdate.tla` first: it is the program the rest exists to protect. Of the
services, `VoiceDiary.tla` is the shortest way in: two runs, a few files, and proofs of
all that is claimed of the files.

## 1. Inventory

### The update path (the core of the repository)

**fleet-update** (`src/modules/nixos/autoupdate/fleet-update.sh`, wired by
`verify.nix` and `update.nix`). Runs as root on every host, nightly from
`nixos-upgrade.service` and by hand as `sudo fleet-update`.

- *State*: the clone `REPO_DIR` with its remote-tracking refs; the files
  `last-verified-rev`, `last-source-contact.json`, `highest-seen-heartbeat`,
  `last-verified-freshness.json`; the running system, whose
  `configurationRevision` is the anchor and whose `/etc` holds the
  `allowed_signers` that every check uses.
- *Operations*: clone, fetch every origin, verify the tips, select a target,
  find the anchor, classify (deploy, noop, skip, TAMPER), record freshness,
  preflight, switch with one retry, record the anchor.
- *Hard*: forges are not trusted; the keys used for checking change when the
  check succeeds; every phase re-reads shared state; there is no lock, so a
  manual run and the nightly one interleave; a run can die between any two
  writes; exit status 4 means "activated, but some unit failed".
- *Correct when*: nothing unvouched is ever run; the host never goes back;
  freshness only advances on the bot's authentic green heartbeats; the anchor
  file never leads the running system; a host that can reach its write root
  catches up.

**Rolling update bot** (`src/scripts/rolling_flake_update.sh`,
`populate_cache.sh`, `modules/nixos/ci/rolling-flake-update.nix`). Nightly on
doc1. State: a temporary clone with a work tree, the base-anchor file, GC-root
links of built closures, the failure streak. Operations: verify the base,
update all groups at once or each in its own transaction, hold and release
broken packages, write the signed heartbeat, push with retries and rebase,
verify the push, record the anchor, push-deploy, notify. Hard: rollback of a
work tree that itself fails, another push landing during a build that takes
hours, SIGTERM between any two steps, side effects (GC roots) that a rollback
does not undo. Correct when: nothing unbuilt or unsigned is pushed, a broken
group holds back only itself, the base anchor only moves forward along master,
a green heartbeat means a green night, and every failed night is reported.

**Push-deploy** (`src/scripts/push_deploy.sh`,
`modules/nixos/autoupdate/push-deploy.nix`). doc1 hands a built store path to
hosts that cannot build. State: the GC root links, the staged path on the host,
`push-activate.service`. Hard: trigger and poll are separate connections; the
staged file can be replaced while the service runs; a closure is activated that
may never reach master. Correct when: doc1 reports success only for a host that
runs the closure it asked for.

**Smart upgrade wrapper** (`update.nix`): AC and SSID gates, the exit code and
timestamp files, reboot on a new kernel, `nixos-upgrade-diagnose`.

**Update alert** (`src/scripts/rolling_flake_update_alert.sh`): failure streak
and staleness pages.

**Forgejo authentication helper** (`src/scripts/forgejo-auth.sh`): validates the
set of URLs of a clone before a token is opened.

They interact only through git commits, files and exit codes: the bot pushes to
the forge; hosts fetch from it and from its mirror; the bot's heartbeat commit
feeds the hosts' freshness files; GC roots written by a build feed push-deploy;
push-deploy changes the running system under fleet-update's feet.

### Applications kept in the same repository

Modelled:

**Magazine archivers and Komga sync** (`src/scripts/gwm-archiver.py`,
`wvj-archive.py`, `komga-sync.py`). State: one directory of PDFs and JSON sidecars,
and the books of a Komga server that watches it. Operations: a weekly, a quarterly
and a one-shot run that fetch issues whole or article by article; a nightly run that
makes Komga index new arrivals and writes their metadata. Hard: "which file exists"
is the only memory between runs; the publisher's archive may return in the middle of
one; the publisher may send a body without its length, and cut it short; Komga scans and
refreshes on its own, and drops connections. Correct when: what is published is whole
as far as its length was told, an issue is announced once and complete, and no complete
one is forgotten but by a kill, an exit status says what was done, metadata stays, and
whatever is served is in Komga in the end.

**yoto-share** (`src/modules/nixos/services/yoto-share/server.py`, `yoto-prep.py`).
State: an audiobook library others change, a listing cache, a probe cache, two
semaphores; the CLI's output directory with a manifest. Operations: search, plan
a book's cards, stream a card as a ZIP; prepare a book in place. Hard: six limits
cut a book at once, a client may leave at any time, the source may change at any time,
and a run may die between tracks. Correct when: a plan fits and plays in order, a ZIP
that opens is whole and each of its files is of the version the link was made for, up to
the last look at that file, slots come back, and only a prepared book is skipped as one.

**Configuration mergers** (`src/scripts/merge-markdown-block.py`,
`merge-toml-settings.py`, `merge-claude-notification-hooks.py`,
`merge-codex-notification-hooks.py`, `remove-codex-compound-engineering.py`, run by
`home/utils/common.nix`). State: files that belong to an agent and its user, and the
managed part of them. Hard: any text may be there, also inside of a value, and look like
structure; two activations and the agent write at once; power cuts. Correct when: the
user's part stays, the managed part is right, and repeating an activation changes nothing.

**ai-retention** (`src/scripts/ai-retention.py`). State: transcripts, a usage
ledger, marks of what is archived, prompt histories. Hard: the agents write and
delete the same files; a run dies between ledger, marks and removal. Correct when:
usage outlives the file it came from, and recent prompts stay.

**Voice diary** (`src/scripts/voice-diary-ingest.py`,
`modules/nixos/services/voice-diary.nix`). State: recordings that a phone mirrors into
a drop directory; pairs of audio and transcript in an inbox. Operations: the timer's
run; a recovery from the inbox's own audio. Hard: files grow, pause and vanish while
whisper takes minutes; a run dies between its two renames; both runs at one stamp.
Correct when: a transcript stands beside the audio it is of and is whole, and every
recording that stays, and that the script can make a text of, is archived.

**rtrfm-nowplaying** (`src/modules/nixos/services/rtrfm-nowplaying/server.py`,
`ha/scripts/rtrfm_nowplaying.py`). State: the track and the show, one list of tracks
for each show, a sensor's cache. Hard: a thread that hears and one that looks shows
up; a disk that is full in the middle of a line; readers that take the lock once per
file. Correct when: a track is listed once, under a show that is not long over, and
nobody is told a show that has ended.

Not modelled, or not yet (section 7):

| part | state and what makes it hard |
|---|---|
| whatsapp-archive (`nix/pkgs/whatsapp-archive/*.go`) | SQLite archive, bounded in-memory media queue, two workers; ack-after-write, redelivery, crash between insert and download, edits and revokes that arrive before their message |
| tailscale subnet priority (`modules/nixos/services/tailscale/subnet-priority.nix`) | route priority under flock |
| lrclib-publish (`scripts/lrclib-publish.py`) | one upload per lyrics file, run by hand |
| kopia, mailarchive, monitoring, crash capture, alert bridge, podman and PostgreSQL modules | declarative service definitions with small scripts |
| audiobook and EPUB tools, usage scripts, Windows scripts, Home Assistant automations, ansible, dashboards, nvim | batch text and media processing or configuration data |

## 2. Modules

| module | models | extends / instantiates |
|---|---|---|
| `SignedHistory` | commits, ancestry and the signature policy of the deploy path | |
| `SignedRatchet` | what the deploy path promises of a host, in two actions | `SignedHistory` |
| `FleetUpdate` | `fleet-update.sh` on one host, with its environment | `SignedHistory`; `Ratchet == INSTANCE SignedRatchet` |
| `FleetUpdateProofs` | its theorems, for any number of invocations and for one at a time, the refinement among them | `FleetUpdate`, `TLAPS` |
| `MCFleetUpdate` | histories, command lines and forge behaviours for TLC | `FleetUpdate` |
| `RollingUpdate` | one bot, its nights, and the forge it pushes to | |
| `RollingUpdateProofs` | its theorems | `RollingUpdate`, `TLAPS` |
| `MCRollingUpdate` | groups, trees that build and other pushers for TLC | `RollingUpdate` |
| `MagazineArchive` | the archivers and their publisher | |
| `Magazines` | the archivers composed with Komga and `komga-sync.py` | `MagazineArchive` |
| `MagazinesProofs` | its theorems | `Magazines`, `TLAPS` |
| `MCMagazines` | two issues in three distributions over the modes | `Magazines` |
| `YotoCards` | how a book is cut and packed, as pure operators | `Sublists` |
| `YotoShare` | the server's threads and the CLI around one book | `YotoCards` |
| `YotoShareProofs` | theorems about the plans, then about the threads and the CLI | `YotoShare`, `SublistProofs`, `TLAPS` |
| `MCYotoShare` | 467 shapes of book, five to change between, and the budgets | `YotoShare` |
| `Sublists` | what a filter keeps of a sequence, without recursion | |
| `SublistProofs` | lemmas about sublists, rows of a sequence, and flattening a sequence of sequences | `Sublists`, `TLAPS` |
| `ManagedMerges` | the merges of Markdown, TOML and hooks, as pure operators | `Sublists` |
| `ManagedFile` | one file, its activations, its agent, kills and power cuts | `ManagedMerges` |
| `AgentRetention` | `ai-retention.py` beside agents that write and delete | |
| `AgentHome` | a home directory: the two side by side | `ManagedFile`, `AgentRetention` |
| `AgentHomeProofs` | its theorems | `AgentHome`, `SublistProofs` |
| `MCAgentHome` | some 6900 first contents and the budgets | `AgentHome` |
| `DiaryText` | how whisper's segments become lines and paragraphs | |
| `VoiceDiary` | drop directory, inbox, the timer's run and a recovery | |
| `VoiceDiaryProofs` | its theorems | `VoiceDiary`, `TLAPS` |
| `MCVoiceDiary` | recordings that grow, clash and vanish, have no words or no text; bounded transcripts | `VoiceDiary`, `DiaryText` |
| `NowPlaying` | the server's two threads, a request, the sensor | `Sublists` |
| `NowPlayingProofs` | its theorems | `NowPlaying`, `SublistProofs` |
| `MCNowPlaying` | two shows back to back whose names share a file | `NowPlaying` |

No state is shared between the update path and the applications, nor between two
applications, so they are composed only where they do interact: archivers and Komga
through a directory, server and CLI through the library, merges of one activation
through a file.

`SignedHistory` has a fixed universe of commits, because a host only ever
chooses among commits others made; `RollingUpdate` makes commits, so there a
history is a sequence that grows and "is an ancestor of" is "is a prefix of".
Master is linear in that module: a merge made by the forge counts as one commit.

## 3. How the modules correspond to the code

### FleetUpdate

State. `objects` and `remote` are the clone in `REPO_DIR`; `lastVerified`,
`contact`, `highestSeen` and `freshness` are the four state files; `running` is
what `/run/current-system` says of itself (a revision, or none when the closure
was built from a dirty tree) with the `allowed_signers` file it installs.
`run[r]` holds the shell variables of invocation `r`, and `pc` the next thing it
does to shared state. `origin` is what every forge serves now. `accepted` and
`everListed` are history variables, read by properties only.

One action per phase, split wherever the code reads or writes something another
invocation can change:

| action | code |
|---|---|
| `Start` | `parse_args` |
| `Clone` | `clone_repo`, `configure_remotes` |
| `FetchOk`, `FetchFails`, `Fetched` | one iteration, then the end, of `fetch_origins` |
| `VerifyTips` | `verify_candidate_tips`, `write_source_contact` |
| `SelectTarget` | `select_candidate_target`, `confirm_write_root_contains_target` |
| `ReadAnchor` | `read_running_revision`, `read_anchor` |
| `Classify` | `classify_target` with the range check |
| `ReadHeartbeat`, `WriteHighestSeen`, `WriteFreshness` | `record_verified_freshness`: the checks, then its two writes |
| `Preflight`, `Switch`, `WriteAnchor` | `run_switch`: probe, up to two rebuilds, `write_success_anchor` |
| `Kill` | SIGTERM, time limit or power loss between any two of these |
| `Publish`, `Mirror` | a forge serves another tip; the mirror service copies the write root |
| `ActivateUnversioned` | `push-activate.service`, break-glass rebuilds |

`Classify` and the select step read everything at one instant. The script takes
seconds for each; what it re-reads inside them (objects, refs) only grows, and
the file it re-reads (`allowed_signers`) changes only at a `Switch` of another
invocation, which the model already lets happen before and after the step.

Not modelled: `--probe-origins` (reads only), the timer stop of the break-glass
path, `CURRENT_REV` overrides used by tests, and torn writes inside one file.

### RollingUpdate

State. `master` is the forge's branch. `anchor`, `roots`, `deployed` and
`streak` survive a run: the base-anchor file (as the history up to the commit it
names), the GC roots (as the tree their closures were built from), the activated
host and the failure streak, which only the alert unit raises and which is
therefore constant but for the reset at a green end. `bot` is the run in
progress: its clone (`base` is `origin/$BRANCH`, `head` is `HEAD`, `work` the
work tree) and the shell's flags. A tree is a set of changes: which groups'
updates, which hold and which changes of others it contains; `Green` is the set
of trees that build on every host. `built`, `bot.red`, `bot.raced` and
`bot.landed` are history.

`bot.next` names the transaction: 0 is the combined pass, `i` the i-th group of
the fallback. A transaction is `Update`, `Build` (again after `AutoHold`),
`CommitGroup`, and `Restore` when any of these fails. Then `WriteHeartbeat`,
`Push` up to three times with `Race` in between, `VerifyPush`, `WriteAnchor`,
`PushDeploy`, `Finish`. Faults (a failing updater, builder, commit, rollback,
fetch, push, lost answer, deploy, the EOL gate, a kill) may strike at each of
these steps and share one budget, `MaxFaults`.

Abstracted: which derivations `auto_hold_failures` picks (it holds the one
package there is, or refuses), how many hosts the GC roots are for, and the wording
of summaries. Left out: the test knobs `ONLY_GROUP`, `NO_COMMIT`,
`SKIP_HEARTBEAT`; notifications and triage.

### Magazines

`disk` is the shared directory, per issue a PDF (its name says whether it was
downloaded, merged from articles, or is a `wvj` staging file), a sidecar, the file that is
staged under a name that is no PDF's, and `unsized`, which remembers that a body without a
length was cut short on its way into one of them. `job` is the archiver run: mode,
phase, what its index listed, its queue, the gaps a backfill holds back, the page of the issue
it is at, what it has printed; `unheard` remembers the announcements that a kill lost.
`sync` is the Komga run with its book cache, and `book`, `series`, `scanning`, `hashed`
are Komga.

An issue goes `TakeIssue` (which fetches its page), `FindFullIssue`, `DownloadFullIssue`,
`RenameStaged`, or else `SynthesiseFromArticles`, `BeginMerge`, `EndMerge`, then
`WriteSidecar`, `ReportIssue`; a kill may come between any two, the last byte of a
download and its rename among them. A request meets a blip, an outage, a body short of its
length, or one without a length that is cut short or off (`Trouble`), and the two programs
answer differently: gwm replays what it can tell from a whole answer, wvj asks once and keeps
what it got. An index page or an issue's page that is cut short lists less (`StartRun`,
`IssuePages`), and so does a walk over article pages (`Gaps`).

The sync goes `StartSync`, `ReadBookIndex`, `RequestScans`, `PollBookIndex`, `LeaveGate`,
then for each sidecar `GetBook`, `PatchBook` and, for the first book of a series,
`LookUpSeries`, the second GET that is to tell its `seriesId`, whose failure or empty answer
is no error; last `FinishSync`. `HttpFails` is what `http()` turns into a status;
`SyncBreaksOff` is what escapes it (a timeout or a dropped connection while an answer is
awaited or read), with what Komga may have done of that request already (`HalfDone`).
Abstracted: the metadata fields of a book are one value with one lock, and a table of
contents is a set of article numbers.

### YotoShare

`library` is the sequence of contents the book has had, each of one or more files; `since`
says of each file which contents it came with, and stands for its stamp (size and time),
since a change may keep some of the files (`ChangeBook`). The bytes of a track are the
version of its file it was cut from. `thread[t]` is the request a thread serves. Planning
and cutting are separate steps from the checks before them, so the book may change in
between: `GetBook` (slot and stamps), `ProbeFile` for each file in any order,
`PlanAndAdmit`, then for each track `CheckSource` (which looks at the stamp of that track's
file and of no other), `CutTrack`, `SendTrack`, and `CloseZip`; `FailDownload` and
`Disconnect` leave by the same `finally`. `BeginScan` and `EndScan` are a search that fills
the listing. The CLI goes `BeginPrep`, `ReadStamp`, `PrepTrack`, `OpenManifest`,
`WriteManifest`, and may break off anywhere. The manifest holds the stamp (`ReadStamp`),
while the tracks are cut at the places of a probe made before it: `out.spoilt` remembers
that the two were of different books, or that a run broke off. `YotoCards` is the planning
both share, in whole units of time and bytes; the code's floating-point division is division
to the unit below. The loops of the code are prefix sums (`Sums`: `cum` of `_split_evenly`)
and one recursive function (`MergeSegments`), and what is skipped (short chapters, empty
cards) is a filter of `Sublists`. Left out: pages, tags, artwork, the CLI's ZIPs and books
of several files in the CLI, the eviction of probe-cache entries, plain file downloads.

### AgentHome

`ManagedMerges` defines what each merge makes of a file: a Markdown file is a sequence of
marks, a TOML file of lines, a hook document of events, groups and handlers. A TOML line is
what the script's patterns take it for (a header, a key, a note, the rest of a value), and
whether it opens or closes a value of several lines. There are so two readings of a file,
and the model has both: the script's, line by line (`Headers`, `KeyLines`, `SetKey`,
`RemoveTables`), and tomllib's (`GoesOn`, `Inside`, `RealHeaders`, `RealKeys`, `Values`,
`Valid`), which differ where a line inside a value looks like structure. Quoted and dotted
keys, inline tables and arrays of tables are left out. In `ManagedFile`, `act[a]` is an
activation, which runs its `jobs` in order; a job is `TakeLock`, `ReadAndMerge`,
`WriteTemporary`, `Compare`, `Replace`, `SyncDirectory`, as `merge_file` does it, or for the
retired block `ReadInPlace`, `Truncate` and a write, without lock and sync. `onDisk` holds
the contents one of which a power cut leaves, and `unsynced` remembers a merge that was
killed between its rename and its sync. The agent writes whenever it likes.

`AgentRetention` counts a transcript's rows, and takes a file's modification time for
its number of rows. `Look`, `ReadRows`, `MarkRows`, `RemoveFile` and their like are the
run; `AgentWritesRow` and `ClaudeCleansUp` are the agents; a kill may leave a line of
the ledger torn. `AgentHome` puts them side by side. They touch different files, so a
behaviour has a budget for one of them only, and their interleavings are not multiplied.

### VoiceDiary

`drop`, `audio`, `md`, `partAudio`, `partMd` are the files; a stamp is a modification
time, as in `stamp_for`. `runs[r]` holds the locals of `main` and `process` for the
timer's run and for a recovery. The steps are those between which the code can be
killed or overtaken: `Pick` up to the request, `Transcribe` (which fails for good on a
recording without words, `Wordless`, and ends the run on one that `tidy` raises an
IndexError on, `Unfoldable`), `OpenMd`, `FillMd`,
`StartCopy`, `FinishCopy`, `RenameAudio`, `RenameMd`. A file that is renamed or deleted
while another run has it open goes on being written under its new name, or none
(`Follow`, `Lose`). `DiaryText` is `is_echo`, `tidy` and the paragraphs, over
lines whose words are counted rather than spelled; `FoldTail` is the fold of a short tail as
the code evaluates it (section 4), and `MCVoiceDiary` takes from it which recordings are
`Unfoldable`.

### NowPlaying

Each method of the server's stores is one step, as each holds its lock. `finger` is the
fingerprint thread (`Match`, `AskShow`, `AppendTrack`, `AppendFails`), `finder` the
discovery thread (`WakeUp`, `FindShow`, `FindNothing`), `reader` a request for a
day's lists, one step for each list, and `sensor` a run of the sensor over its `cache`.
Time is explicit: a nap ends at a moment, and a lookup takes up to `Lookup`. `todo`, one
of `Budgets`, bounds matches, failures, restarts and runs.

## 4. What is checked

The fleet's runs use small histories chosen so that each branch of the code has a
commit that takes it: an unlisted key, a forge merge that is not one, a side branch, a
stale, red, forged or replayed heartbeat. The applications' runs start from every
member of a set of first states (`MCScenarios`, `MCBudgets`, `MCOwners`, ...), one for
each question, so that no run pays for the product of all questions.

| run | instance | shows |
|---|---|---|
| `FleetUpdateTrust` | two invocations, a forge that serves any of five commits (one behind an illegitimate forge commit), unversioned activations, kills | `TypeOK`; `OnlyTrustedHistory`: nothing unvouched is run or recorded |
| `FleetUpdateRatchet` | one invocation at a time, five commits, two hostile origins, re-rooting | `NoRollback`, `SwitchUnderCurrentTrust`; `ImplementsRatchet`: the script refines `SignedRatchet` |
| `FleetUpdateFreshness` | one invocation, a clock of four ticks, every kind of heartbeat, dry runs | `FreshnessAuthentic`, `FreshnessNeverRegresses`, `AnchorFollowsRunning` |
| `FleetUpdateCatchesUp` | fairness, a lagging mirror, a merge history | `CatchesUp` |
| `RollingUpdateNights` | three groups (one needs a hold, one never builds), a hold or none to begin with, two nights, two faults, one other push (a clashing commit or a forge merge) | `TypeOK`, `AnchorOnMaster`, `RedGroupStaysOut`, `LandsWhatItBuilt`, `HeartbeatAdvances` |
| `RollingUpdateHostile` | unsigned pushes, an illegitimate merge, rewrites of master, two of them in two nights | `PushesOnlySigned` |
| `RollingUpdateLands` | fairness, two nights, one fault, one racing push | `GreenGroupsLand` |
| `Magazines` | two issues (an empty full file and a first article without PDF; a whole file) in three distributions over the modes, one fault anywhere (a body or page without a length cut short and a dropped connection among them), fairness | `ArchiveSound`: what gwm publishes is whole, unless a body without a length was cut short; `RecoverySweepsTheRest`; `ReportsTrue`: announcements and exit status; `MetadataStays`; `Catalogued` |
| `YotoShare` | two threads, one slot of each kind; 467 shapes of book to plan, five books to change between while streaming and preparing: two of one length, two of two files that share the second | `PlanRight`, `ServingSound`, `SkipsOnlyPrepared`, `CacheNeverGoesBack`, `SlotsComeBack` (with fairness) |
| `AgentHome` | two activations of two generations, Markdown files of up to three segments, TOML files of up to three stanzas, some with values whose lines look like headers or keys, hook documents of up to two groups; three daily retention runs | `FilesSound`: the user's texts stay; `MarkdownRight`, `MergedRight`: what an activation makes of Markdown, TOML and hooks, and that a second one writes nothing (of TOML: what the values are where no line in a value looks like a table or a managed key, and that the file parses and settles in any case); `UsageKept`, `PowerCutKeepsWhole`, `RecentPromptsStay` |
| `VoiceDiary` | three names, five recordings (one without words, one that cannot be folded), four seconds, two suffixes; kills, deletions, a rebuild, a touched time, a recovery | `TranscriptHasAudio`, `PairSound`, `StampNamesIt`, `EntryReadsWell`, `EveryRecordingArchived` (with fairness) |
| `NowPlaying` | two shows back to back whose names share a file, two tracks, nine moments; restarts, full disks, failed lookups | `ListsSound`, `ShowIsRight`, `AnswerHasThePast` |

Where a property's name is that of a conjunction (`ReportsTrue`, `UsageKept`, ...), its
parts stand above it in the module, each with its own comment.

Why the bounds are enough. `FleetUpdate` has no counter other than the clock:
invocations restart for ever, so its runs are unbounded in length, and the
bounds are those of the history. Two invocations show every race of a pair, and
the shared files hold one value each, so a third could only repeat the second's
part. `NoRollback`, `SwitchUnderCurrentTrust`, the refinement and the freshness
properties fail with two invocations (see below for the first), which is why they are
checked with one at a time.
In `RollingUpdate` two nights let the second start from whatever the first left
in the anchor, the roots and on the forge; two faults allow a failure and a
failure of its handling; one push is enough to race, and `MaxPushes = 2` lets the
hostile forge rewrite twice.

In `Magazines` runs start again without bound; a second issue is what a backfill can hold
back, and one fault is what separates a state on disk from the one its run meant; the bodies
without a length, and the second GET of a series, are among the faults. In `YotoShare` the
limits are small (a track of 6 units and 8 bytes, a card of 12 units, 16 bytes and 3 tracks;
a chapter of one unit is dropped), so that books of up to 26 units meet every limit, alone
and with others; two threads over one slot and one lock meet each wait; a card of two files,
of which one may change and the other stay, is the least on which a check of one file can
miss a change of another. In `AgentHome` two activations meet at one lock, a third would
wait the same way; three stanzas put one before and one after the one being edited, and a
value in any of them may hold a line that looks like a header, retired or not, or like a
key, managed or not; six days and three runs let a file be archived, written again, archived
again and removed. In `VoiceDiary` two names are enough for recordings of one second and for
one that another overtakes, three recordings for one that grows beside another, and three
names for one before and one behind the recording that cannot be folded; each budget (kill,
rebuild, touch, delete, recovery) is one or two in the scenario that asks about it. In
`NowPlaying` the nine moments cover both shows and what follows, with naps of 2 and lookups
of 1.

Fairness. `NightlyFairness` asks that an invocation that can go on does
(weak fairness of its steps) and that of the things that may fail (clone, fetch
of the write root, preflight, rebuild) none fails at every attempt for ever
(strong fairness of their success): `nixos-upgrade.timer` is daily and
`Persistent`, so a failed night is tried again, and a network or a builder that
never comes back is not something the host can outlive. It also asks that the
host is not killed in every run for ever. `KeyDiscipline` states the runbook: a
key signs nothing on master until the host lists it; without it a host ends in
TAMPER until an operator re-roots it, by design. `RollingUpdate` only assumes that
the bot's own steps are taken: `TimeoutStartSec` ends a run that hangs, and the
timer starts the next. `Magazines` assumes the two gwm timers and the sync's go on
starting runs, that a started run goes on, and that a scan Komga has accepted ends;
nothing starts wvj-archive again, so nothing is claimed to happen in the end of its
issues. `YotoShare` assumes that a thread goes on, which for a stream means that the
client reads or goes away; the code has a deadline for one that does neither.
`VoiceDiary` assumes that the timer's runs start and go on, that time passes over a
settled file, and that whisper, asked again and again about a recording of a name, answers
in the end if it makes a text of it (`Transcribe` is not enabled on one without words).

### Where the code and its documentation disagree

Modelling met twelve sentences of the repository that the code does not keep. The first
five can be seen by model-checking the named property alone, under `FleetUpdateRatchet.cfg`
or `RollingUpdateNights.cfg` with the changes named (all have been; the first takes two
minutes, the others seconds); the last six by taking the named exception out of the property
under the run of its module (all have been, too):

| sentence | what happens | to see it |
|---|---|---|
| "target ... is older than current anchor ...; skipping" (`fleet-update.sh`, 618) | nothing excludes two invocations: the slower one switches the host back to an older commit | `NoRollback`, with `Run = {nightly, manual}`, `Moves <- ForwardOnly` |
| "refusing to deploy from fallback alone" | the write root's ref of an earlier run passes for a fetched one, so a deploy rests on the mirror alone | `RefusesFallbackAlone`, with `Origins <- ForgejoAndMirror`, `Moves <- ForwardOnly` |
| "To deploy a signed commit that is not yet on master" | the documented emergency command ends in TAMPER | `BreakGlassDeploysOffMaster`, with `Options <- BreakGlass`, `Branch = {"master", "scratch"}` |
| "remote did not advance" | a push right behind the bot's makes a night that did push fail with this message | `UnadvancedMeansNotPushed`, with `Groups <- CoreFirst`, `Pushes <- OneFix`, `MaxRuns = 1`, `MaxFaults = 0` |
| "the activated rev is already on the remote" | push-deploy activates GC roots of a build that was rolled back | `DeployedIsOnMaster`, with `Groups <- TwoGroups`, `MaxPushes = 0` |
| "`WORDS_PER_PARAGRAPH` ... Currently 70" (`docs/wiki/services/voice-diary.md`, 241-243) | the script has a least and a greatest size of a paragraph instead, 60 and 200 words | compare with `voice-diary-ingest.py`, 189-211 |
| "It never paraphrases, summarises or reorders" (the same page, 123-127) | `paras[-2] = f"{paras[-2]} {paras.pop()}"` (209) pops the tail before it looks up where to put the two: of three paragraphs or more with a short tail one is lost and another is there twice | `FoldTail`; `ParagraphsEven` fails without its exception `~ShortTail(Unfolded(sentences))` |
| "Leave the source alone so the next timer tick retries it" (`voice-diary-ingest.py`, 395) | of two paragraphs with a short tail line 209 raises an IndexError, which is not in the tuple of line 394: this run ends there, and so does every later one, and nothing newer is archived | `EveryRecordingArchived` fails without `~Behind(f)` |
| "Publish only a complete response" (`gwm-archiver.py`, 146) | a body that comes without a Content-Length and is cut short is published (159) | `PublishesWhole` fails without `~disk[i].unsized` |
| "0 success" (`komga-sync.py`, 26) | a second GET that fails, or tells no `seriesId`, leaves its series unset without an error (702-712) | `ExitTellsTheTruth` fails without `Nameless` |
| "Source changed during download; reload the book" (`server.py`, 256) | each track looks at the stamp of its own file (255), so that a file replaced after its last check is not noticed while tracks of other files follow | `CompleteZipIsWhole` fails if only the last track of the ZIP is excepted |
| "Merge managed table keys into a mutable TOML file without rewriting it" (`merge-toml-settings.py`, 2) | lines of a value over several lines that look like a header or a key are taken for one (18, 59-62, 101-104): a managed key is set inside of the user's text, or the text is cut off with a retired table | `TomlRight` fails without `Plain` |

## 5. What is proved

The theorems hold for every value of the constants that the `ASSUME`s of the modules
allow; a hypothesis beyond these is part of the theorem and named below. All are
invariants or action properties proved by induction: an inductive invariant `IInv`
(the name differs where there are several), `Init => IInv`, one lemma per action or
group of actions for `IInv /\ [Next]_vars => IInv'`, and last what the property takes
from `IInv`. The inductive invariants have been checked by TLC on the instances of
section 4 before they were proved.

| module | theorem | states | beyond the assumptions |
|---|---|---|---|
| `FleetUpdateProofs` | `TypeCorrect` | `[]TypeOK` | |
| | `TrustedHistory` | `[]OnlyTrustedHistory` | |
| | `NeverRollsBack` | `NoRollback` | `OneInvocation` |
| | `SwitchTrustsCurrentKeys` | `SwitchUnderCurrentTrust` | `OneInvocation` |
| | `Implementation` | `ImplementsRatchet` | `OneInvocation`, `Bypass = {}` |
| | `AnchorStaysBehind` | `[]AnchorFollowsRunning` | `OneInvocation`, `NoReRoots` |
| | `FreshnessIsAuthentic` | `[]FreshnessAuthentic` | `OneInvocation` |
| | `FreshnessAdvances` | `FreshnessNeverRegresses` | `OneInvocation` |
| `RollingUpdateProofs` | `TypeCorrect` | `[]TypeOK` | |
| | `AnchorStaysOnMaster` | `[]AnchorOnMaster` | (`~Rewrites` is in the property) |
| | `OnlySignedIsPushed` | `PushesOnlySigned` | |
| | `RedGroupsStayOut` | `RedGroupStaysOut` | `~Rewrites` |
| | `OnlyBuiltTreesLand` | `LandsWhatItBuilt` | `~Rewrites` |
| | `HeartbeatsAdvance` | `HeartbeatAdvances` | `~Rewrites` |
| `MagazinesProofs` | `ArchiveStaysSound` | `[]ArchiveSound` | (but for bodies without a length, in the property) |
| | `MetadataIsKept` | `MetadataStays` | |
| | `ReportsAreTrue` | `ReportsTrue` | (but for a line a kill lost and a series without an id, in the property) |
| | `RecoverySweeps` | `RecoverySweepsTheRest` | |
| `YotoShareProofs` | `ServingStaysSound` | `[]ServingSound` | (but for the last track of each file, in the property) |
| | `CacheAdvances` | `CacheNeverGoesBack` | |
| | `OnlyPreparedIsSkipped` | `[]SkipsOnlyPrepared` | |
| | `PlansStayRight` | `[]PlanRight` | every book that may be held is `Plannable` |
| | `EveryTrackIsPlayed` | `[]AllTracksPlayed` | |
| `AgentHomeProofs` | `TypeCorrect` | `[]TypeOK` | |
| | `FilesStaySound` | `[]FilesSound` | |
| | `MarkdownStaysRight` | `[]MarkdownRight` | (files whose markers are in order, in the property) |
| | `MergesStayRight` | `[]MergedRight` | (what values are, of files that are `Plain`, in the property) |
| | `UsageIsKept` | `[]UsageKept` | |
| | `PromptsStay` | `RecentPromptsStay` | |
| | `PowerCutsSpare` | `PowerCutKeepsWhole` | |
| `VoiceDiaryProofs` | `TranscriptsHaveAudio` | `[]TranscriptHasAudio` | |
| | `PairsStaySound` | `[]PairSound` | |
| | `ArchiveRebuilds` | `[]RecordingCanBeRebuilt` | |
| | `StampsStayNames` | `[]StampNamesIt` | `OneTimeEach(todo.deliveries)` |
| `NowPlayingProofs` | `ListsStaySound` | `[]ListsSound` | |
| | `ShowStaysRight` | `[]ShowIsRight` | |
| | `AnswerStaysRight` | `[]AnswerHasThePast` | |

Each hypothesis is met by a run, and each has a reason in the code or its documents:

- `OneInvocation`: nothing in `fleet-update.sh` excludes a second invocation, and with
  two the properties fail (section 4). It is what the nightly timer does by itself.
- `Bypass = {}`: no activation past fleet-update. After a break-glass rebuild from a
  dirty tree the host has no revision, and the ratchet none to step from.
- `NoReRoots`: `--accept-new-root` moves the anchor where the operator says, which need
  not be behind what runs.
- `~Rewrites`: master is never force-pushed (`docs/wiki/services/forgejo.md`, 229-232).
  What is said of signatures needs no such promise.
- `Plannable`: the chapters of a file follow each other, as those of a well-formed audio
  book do (`build_segments` takes overlapping ones as they are, and plays the overlap
  twice); a byte limit is a whole number of units of the file (`WholeRate`), since the
  model cuts at whole units where the code cuts anywhere; and a card has room for one track
  and `Sliver` units more, for what merging leaves in it (a card holds five tracks of
  the largest size and more). TLC evaluates that every book of its run is so (`PlannableBooks`).
- `OneTimeEach`: a recording reaches the drop directory with one modification time; the
  phone's sync preserves it. Delivered with two, it is archived under both.

Two assumptions on constants bear on what the merges are proved of. The first contents
of a file (`ScenariosAssumption`) are any sequence of marks, any sequence of TOML lines,
or a hook document with any number of groups and handlers: what the parsers of the code
can be given, malformed TOML and markers amiss included. And nothing is managed that is
retired as well (`ManagedAssumption`), as `home/utils/common.nix` configures it; with a
section that is both, each activation would remove it and put it back.

### FleetUpdate, any number of invocations

`OnlyTrustedHistory` speaks of the running and the recorded revision only, and is
not inductive: an invocation carries an anchor and a target it has judged in its
locals, and may act on them much later. The inductive invariant `TrustInv` adds

- `LocalsVouched`: from the moment a target is classified as deployable until it
  is recorded, the history the invocation carries is vouched for; the anchor it
  is about to be judged from is, too;
- that the keys listed now have been listed (`running.listed \subseteq everListed`).

The argument has four lemmas. A commit that verified under some keys verifies
under more (`VerifiesMonotone`). The two histories only grow (`HistoryGrows`), so
what was vouched for stays vouched for (`VouchedGrows`); in particular, a key
revoked later does not unvouch what it signed. And a target whose range from
a vouched anchor verifies under keys that are or were listed is vouched for
itself (`RangeVouches`). Each step of one invocation then either leaves what is
carried alone or establishes it from the phase before (`StepCarries`), and
leaves other invocations' locals alone, so interleaving costs nothing.
The proof does not assume that forges are honest, that a run is alone, or that a
state file is fresh.

### FleetUpdate, one invocation at a time

The checks of `classify_target` are about the running system, and are used at the
switch, several phases later. `StandInv` says what remains true in between: an
approved deploy is still `Cleared`, that is, its anchor is the running revision (or a
root the operator named and the running keys admit), the target descends from it, and
the range between verifies under the keys that are installed now. Only a switch can
change what that speaks of, and there is only one invocation to switch; an unversioned
activation takes the running revision away, and then nothing is claimed of it.
`NoRollback` and `SwitchUnderCurrentTrust` follow at the switch (`ReplacedBySwitch`).
For the refinement, `RatchetInv` adds that the revision is known. A switch that
activates, with status 0 or 4, is a step of the ratchet; everything else stutters, a
kill and a failed rebuild included. That the two modules judge commits alike
(`SamePolicy`) is proved, not assumed.

`AnchorInv` adds that the anchor file is behind the anchor a run stands on and the
target it approved; that is why a run killed between activation and `WriteAnchor`
leaves an older anchor and never a newer one. `FreshInv` adds what was checked of the
heartbeat between the checks and the two writes of `record_verified_freshness`: a
replayed heartbeat is stopped by `highest-seen-heartbeat`, which is written first, so
a run killed between the two writes leaves an older marker.

### RollingUpdate

A history is a sequence that grows, so the lemmas are about prefixes and last elements,
and about well-founded search for the point where two histories part. `SignedInv`
says that the clone verifies from the base anchor on, in each phase where it matters;
a rebase puts the bot's commits on a tip that has just been verified. `LinearInv`,
for a master that is not rewritten, keeps the anchor and a head that is about to be
verified on it. `NightInv` is the rest, and says of a night in progress what has been
done to the history it started from (`Careful`, `Tidy`, `Beats`): no commit takes a
group out of the tree; a group that failed by itself is not in it; without a race
every tree in between was built; a work tree differs from the head by the group being
tried; one heartbeat is new at most, it comes last, its epoch is higher, and it is
green only if nothing failed. These must hold of every commit of the night at once, since
a rebase replays them one by one on another tip.

### Magazines

`ArchiveInv` says of each issue what its files are (`FilesRight`), of the run what it
knows of the issue it is at (`CurRight`), that it walks issues of its own and where a
backfill has got to with each of those its index listed (`SweepSound`: complete, absent,
queued, held back, or in hand). That a download is whole is not a property of the final
step: from the body to the rename `CurRight` carries what is staged, whole or not, and
`unsized` goes with it; what is under a PDF's name stays when a run dies before the rename.
The sweep's promise follows when both queues are empty. That no complete issue is
forgotten needs where its announcement is at each moment: sent, printed, about to be printed
(`Unprinted`), or lost to a kill (`unheard`).

`ArchiveKept` sums up what an archiver's step can do to the rest: complete issues
keep their files, no PDF goes. Komga and the sync need no more than that, so
that `KomgaInv` (metadata in a book is the sidecar's, and locked) and `SyncInv` (each
sidecar is to do, failed, or synced and its series asked for: its id is had, is about
to be asked, or was refused) are proved against `ArchiveKept` and not against
each step of the archivers. A request that breaks the run off may have been carried
out by Komga (`HalfDone`), which `KomgaInv` has to survive, and `SyncInv` need not.

### YotoShare

`ServingSound` has the state of each thread (`Sound`). It speaks of each file by itself:
`Was(k, z)` says that file k was as of z once and is not of later contents that have been
replaced since, `Later(k, s, z)` that it was so at s or after. A file is probed as it was
when it was stamped, or later (`FoundSound`, `InfosInv` for what the cache has of it), and
its tracks are cut as it was then or later; once a check of the file is passed, what was
probed and cut of it before the check is of the link's version, since between a stamp and
the same stamp no other version can have come (`StreamSound`). A track followed by another
of its file is therefore of the link's version, and the last track of each file may be of a
later one, in the middle of a ZIP too, which is where an earlier form of this theorem, about
a version of the whole book, was wrong about the code. The slots a thread holds are counted
(`SlotsInv`: free slots and holders add up, by cardinality). `ScanInv` says that no listing
is younger than the scan that holds the lock. `PrepInv` says what a manifest vouches for
(`Vouched`): for some version, each track of that version's plan was cut at the places of
that plan from that version or a later one; and if the manifest is the present file's, no
later one exists.

*Plans.* That a plan is right has nothing to do with threads: it is proved of the operators
of `YotoCards` for any file, and the invariant `PlanInv` only says that the cards of a
request are the plan of files that the book had, not all of them at one time perhaps
(`HadFiles`), and that a CLI run at rest has no plan. The argument follows the code.
Whole-number division is monotone (`DivGrows`), so equal parts have ends that grow, and the
fewest parts that fit are at most `TrackTime` long and at most `bytes` large (`EqualParts`,
`PartsAre`: the fewest parts are those of the longer of two ceilings). The segments of a
file are pieces of its time, in order (`SegmentsAre`). Gluing is climbed one segment after
another, with the set of places at which what is glued so far is in order, ends where the
last segment does, and has in each track at most a gap of less than a usable chapter
(`MergeSegmentsAre`). For packing, the midpoints of segments only grow, so the numbers of
their cards do (`CardsGrow`), and the segments of one card are a row without holes
(`RowsAre`); rows laid end to end are the whole (`RowsJoin`), and leaving out the empty ones
changes nothing. A plan is then one of two: an even split whose cards were all found to fit,
or a card to each track, which fits because a track does (`LimitsAssumption`, `Roomy`).
Last, what is in order in each file, with files in order, is in order altogether
(`FlattenInOrder`). The part that needs neither order nor limits is stated by itself, for
any book at all: `EveryTrackIsPlayed`.

### AgentHome

`FileInv` is about locks and disks, and leaves the merges folded: whoever
is between `TakeLock` and the end holds the lock, what is renamed was synced, and what
stands under the file's name is on the disk but between a rename and its sync.
What the merges do is proved of the operators of `ManagedMerges` first, for files of any
length, and then carried through the interleavings by three more invariants.

*Markdown.* A merge is an edit (`EditOf`, `MergeIsEdit`): the places that go, the places
that are new, and an order-preserving correspondence of the rest. Everything follows from
that and from where the edit is: it takes nothing from other blocks (`OthersKept`), leaves
markers in order (`WellFormedKept`), keeps the user's texts and their order (`TextsKept`),
and is the same file the second time (`MergeSettles`). `MarkInv` says that what an
activation is about to write is the merge of what it read; `KeptInv`, that no text outside
of the blocks is lost by it; `AloneInv`, that an activation nobody wrote beside has done
the first so many of its jobs (`DoneBy`), which is the strengthening that an induction
over steps needs, since a job may disturb what an earlier one did.

*TOML.* The script reads lines and tomllib reads values, and the argument is about where the
two part. Which lines go on is the only function of its kind (`Reads`, `GoingOnly`: lines
that agree with the rule are those that go on), so that it can be computed for an edited
file from the one before. Lines that are moved keep what they are in if they take all of
their values along (`Moved`, `Together`); so, in a file that is `Good` (the two readings
agree, and no value is left open), each step of a merge changes the set of entries that
tomllib reads by removal of the retired tables (`TablesRemoved`) or by one key (`KeySet`).
One step may spoil the file: a managed key over several lines is replaced by one line, and
the rest of its value stays behind (`LeftOver`). Such a file is `Broken`, stays so through
the other keys (`InsertBroken`, `ReplaceBroken`) and does not parse (`BrokenFails`), so that
the merge is refused. The steps are climbed one managed key after another (`Sooner`,
`OneMore`, `AllSet`), and what the merge means is read off the set, since in a valid file a
key has one line (`PlainReads`, `ValuesAre`). That a second merge writes nothing needs no
such agreement: it is about the script's own reading alone, in which a managed key stands in
the first place it can have (`Holds`), and goes on to when others are set (`HoldsInserted`,
`HoldsReplaced`, `AllSame`). `SettingsMerged` puts the two together.

*Hooks.* A filter of groups is a filter of the flat list of their handlers
(`FlatFiltered`), the second time it filters nothing (`FilteredAgain`), and it leaves
nothing of a group that is ours alone (`FilteredNew`); `EventMerged` and `DocumentMerged`
put the events together.

`ParsedInv` does for TOML and hooks what the first three do for Markdown: the file is what its
kind parses, or a link; what is about to be written is the merge of what was read, and
was not refused; and an activation alone, once its first job is done, has left the merge
of what it found.

`RetentionInv` has the phase's file sets, the clock, and the ledger: a mark stands for
rows that are in the ledger (`MarksInv`), what is about to be removed is archived but
for what came since the last look (`RemovalInv`), and a transcript that is old enough
for Claude's own clean-up was archived by the run before (`EarlyInv`; runs are at most
`Ahead` days apart, which is where `RetentionAssumption` is used).

### VoiceDiary

That a transcript has audio is what makes it fit to be the mark of work done: the phone
may delete the recording once it is there. It is not inductive, since a run on its way
to rename a transcript knows of the audio only from an earlier step. `IInv` adds the
types, and of each run (`RunKnows`): at `renamemd` there is
audio of its stamp and suffix; one that has the transcript itself open, because the
other run renamed the partial file under its hands, stands at a stamp with audio; at
`renameaudio` the partial copy is there to be renamed; and a recovery is always at
audio that exists and never copies, because what it works on is the inbox's own audio.
That last part is what keeps a recovery and the timer's run at one stamp from
taking each other's partial audio. The rest of the argument is that nothing removes
audio (`Touch` changes only its time), so that a step of one run cannot undo what the
other knows.

`PairInv` adds the history: everything under a stamp, whole or partial, is of a
recording delivered under that stamp, unless the source of a run changed under it
(`swapped`); a cut transcript is at a stamp where two runs met (`shared`); and two
runs at one stamp are known to have met (`Apart`). `TimesInv` adds that the deliveries
have one time per recording.

### NowPlaying

`FingerInv` says what the thread that hears holds: until the line is written, the
track that plays is the one in its hands; afterwards it ends its list. The lemma under
it (`LineAdded`) is that neither a line appended nor one that runs into a torn end
makes two equal lines adjacent. `ClockInv` bounds the moment of the next look by the
end of the show found last, `SensorInv` ties the cache to the show's own end.

`PastInv` is for a request, which reads the lists one by one while both threads write: what
it has gathered so far is tracks, and holds those that were there when it came from the
lists it has read. The answer is a filter of lines, so the proof speaks of
places and ranks: a track that was the n-th readable line of a list that only grew
is still its n-th (`ReadAtItsPlace`, `ListsGrow`).

### Sublists

A filter is defined by ranks (`Sorted`: the place with n - 1 places before it comes n-th)
and not by recursion, so that it can be reasoned about: what a sublist has
(`SublistHas`), when two sublists of two sequences are the same (`SublistsAlike`: an
order-preserving correspondence of places), how they join (`SublistJoined`, `OnlyJoined`)
and grow at the end (`SublistTail`). Flattening is the library's recursive
function, taken by its defining equation (`FlattenIs`, `FlattenGrows`); what is in order
piece by piece, and in order between the pieces, is in order when flattened
(`FlattenInOrder`).

### What the proofs found

Most attempts confirmed the models; eleven changed them.

- A merge that is killed between its rename and the sync of its directory leaves the new
  text under the file's name and not yet on the disk. The next activation finds its text
  in place and returns without a sync (`merge-markdown-block.py`, 60), so that a power
  cut can undo a merge that returned. No budget of TLC's scenarios had two kills. The model
  has one with two now; `PowerCutKeepsWhole` excepts the case, and says so.
- A book replaced between the probe and the stamp of a yoto-prep run leaves a manifest
  that says the new file over tracks cut by the plan of the old one; where the two plans
  have as many tracks, the book is skipped as prepared (`yoto-prep.py`, 287). TLC had no
  two books with as many tracks. It has now; `SkipsOnlyPrepared` excepts the case.
- For the same proof, a track in the CLI's directory remembers where it was cut, not
  only from which version; the property asks for both.
- `NowPlaying` began each behaviour with a budget fixed inside `Init`, which no theorem
  could be general in; it is a constant set now.
- What a reader's lists are is said by `AnswerHasThePast`, the one property that needs it,
  and no longer by the type invariant.
- `MergeSettings` took a file that does not parse for one to be merged, if only the result
  parsed. The code parses the original too (`merge-toml-settings.py`, 127), and so does the
  model now; no file of TLC's scenarios was valid only after the merge.
- `merge_segments` sums the durations of the chapters it glues (`yoto-prep.py`, 141), and
  allows a gap of less than a second before each, which a dropped chapter leaves. Earlier gaps
  are counted with the track glued so far; the one before the last chapter is not, so
  a glued track may exceed 58 minutes or 95 MiB by what less than a second takes, where the
  docstring says "up to the 58 min / 95 MB track ceiling" (130-131). The track
  limits "carry a safety margin" (30), so it does no harm. TLC's run had a `Sliver` of one
  unit, which leaves no gap; it has two now, and `PlanRight` says what may be over.
- The order of a plan was stated without the number of the file, and so said
  little of books of several files: the second file began again at 0, which the property
  let pass at any place. A segment carries its file now, and the property asks for the files'
  order too.
- Whether a TOML merge that is not refused means what it should had been proved of lines
  that never look like others. Without that, the merge of a file with a managed key of several
  lines can only be right because what is left of the value makes the file not parse; the
  proof had to say so (`Broken`), and showed that no such file slips through.
- With one stamp for each file, that a ZIP's tracks are of the link's version holds of a file
  up to its last check only; the proof gave the exception its exact form (a track followed
  by another of its file).
- That a merge is settled needs that nothing is managed and retired at once, which the
  configuration keeps to and the script does not check: it is an assumption now.

### Only model-checked

- Liveness: `CatchesUp`, `GreenGroupsLand`, `Catalogued`, `SlotsComeBack`,
  `EveryRecordingArchived`. The prover has no `ENABLED`, and so no fairness.
- `EntryReadsWell`: paragraphs of a transcript (those without a short tail), a fold over its
  lines. The library's folds take an operator, over which no installed backend can do an
  induction; it is a property of a module of its own that no theorem speaks of.
- That a plan has the fewest cards that can be had: the code promises the least number for
  which an even split fits, which is how `Packed` is defined.

What the proofs do about loops is worth a word, since an induction schema with an operator
parameter is out of reach. Filters are defined without recursion (`Sublists`). Where a loop
remains, it is a recursive *function* (`SetAll`, `MergeSegments`, `Sums`, `FlattenSeq`),
whose equation can be used, and the induction over its places is done with the set of places
at which the claim holds (`Climbs`: a set that has the first place and with each the next
has them all).

## 6. Hard behaviours

The places where this code is exposed, each with the properties that watch them
(by line: `hazards` in `PROJECT.json`):

- *two invocations on one host*: `OnlyTrustedHistory` holds, the ratchet does not;
- *keys that change under a check*: `SwitchUnderCurrentTrust`, `OnlyTrustedHistory`;
- *exit status 4 and kills around a switch*: `AnchorFollowsRunning`, `ImplementsRatchet`;
- *forges that lag, disagree, rewind or lie*: `ImplementsRatchet`, `PushesOnlySigned`;
- *replayed heartbeats and clocks that stand still*: `FreshnessAuthentic`,
  `HeartbeatAdvances`;
- *a rollback that leaves something behind*: `RedGroupStaysOut`, `LandsWhatItBuilt`;
- *another push, or a lost answer, while pushing*: `AnchorOnMaster`,
  `HeartbeatAdvances`;
- *a run killed between two files that belong together*: `ArchiveSound`, `ReportsTrue`,
  `SkipsOnlyPrepared`, `UsageKept`, `TranscriptHasAudio`, `PairSound`;
- *somebody else's writes between a read and a write*: `FilesSound`, `ServingSound`,
  `PairSound`, `MetadataStays`, `UsageKept`;
- *a disk that is full, a power cut*: `ListsSound`, `AnswerHasThePast`,
  `PowerCutKeepsWhole`;
- *caches and names that outlive what they name*: `CacheNeverGoesBack`, `ShowIsRight`,
  `StampNamesIt`;
- *several limits at one boundary*: `PlanRight`, `EntryReadsWell`;
- *any text in a file that is merged into, and merged into again*: `MarkdownRight`,
  `MergedRight`;
- *limited slots, and every way out of a request*: `SlotsComeBack`;
- *it must happen in the end*: `CatchesUp`, `GreenGroupsLand`, `Catalogued`,
  `EveryRecordingArchived`.

Where a property makes an exception, it is because the code does. The exceptions, each
a hazard that is real and not covered:

- fleet-update records freshness before the switch, so a deploy that then fails leaves
  a host that reports fresh; and all invocations write through the same `.tmp` names;
- the bot pushes a rebased tip without another build;
- a `qpdf` that is killed leaves a merged PDF under its final name, which every later
  run takes for complete (`ArchiveSound` speaks of downloads); a body or page that comes
  without its length and is cut short passes for whole (`unsized`); wvj-archive stages under
  a name that ends in `.pdf`, which Komga may index; an announcement is lost when a run
  is killed after the sidecar and before its line, or the host goes down before the hook
  (`unheard`: `ReportsTrue` says that nothing else loses one);
- komga-sync passes over a series that none of its books gave an id for, and exits 0
  (`Nameless`); a timeout or a dropped connection ends the run with status 1, with
  the rest of the sidecars undone until the next night, of which nothing is claimed;
- a yoto-prep run that breaks off over prepared tracks leaves the old manifest beside
  new tracks (`SkipsOnlyPrepared` excepts it); a change of a file after the check of its
  last track goes unnoticed, in the middle of a ZIP of several files too (`ServingSound`
  excepts the last track of each file);
- a TOML value over several lines whose lines look like headers or managed keys is edited as
  structure (`TomlRight` claims what values are of `Plain` files only; of the others, that the
  result parses and that nothing is written again);
- the removal of a retired Markdown block takes no lock and syncs nothing, and what an
  agent writes in the instant between comparison and replacement is lost, as
  `UsersTextStays` says in detail;
- a row appended after a torn line of the usage ledger is spoilt with it, a row written
  after the last look at its file goes with the file, and a prompt that comes while
  the history is trimmed is lost (`UsageKept`, `RecentPromptsStay`);
- two recordings that end in one second have one stamp, and the second is never
  archived; a recording that changes between request and copy makes a pair of two
  texts; two runs at one stamp share a partial file, and a kill may then leave a
  cut transcript that counts as done (`PairSound` excepts all three); a recording without
  words is never archived, an entry with a short last paragraph is set wrongly, and one of
  two paragraphs ends every run, so that nothing behind it is archived (`EntryReadsWell`,
  `EveryRecordingArchived`); a recording that
  uses the unit's time limit up keeps later ones from being looked at;
- a track whose line could not be written is not tried again, and a lookup that fails
  leaves the old show's name standing (`ListsSound`, `ShowIsRight`).

## 7. Plan

Still to be modelled, in order of weight:

1. `PushDeploy`: trigger, staged path, `push-activate.service` and the poll, against
   the promise that success means the host runs the closure asked for.
2. `UpdateAlert`, composed with `RollingUpdate` over the streak and the heartbeat:
   no outage without a page; "landed" only when the run landed.
3. `WhatsappArchive`: every acknowledged message is stored, media is fetched at most
   once, edits and revokes may come before their message.
4. `PackageHolds`: `auto_hold_failures` as an operator over a build graph, against
   a reference definition of "only broken leaves are held".
5. `SmartUpgrade`, the wrapper around fleet-update; `ForgejoAuth`; `SubnetPriority`.
6. `Fleet`: bot, forge and one host composed, so that heartbeats written by one
   are judged by the other: a green night makes a caught-up host fresh.

Still to be checked: the sentences of section 4 about tidy's fold, the length of a body
and the exit status as runs of their own, which show the disagreement instead of excepting it.

Still to be proved: `EntryReadsWell`, once the paragraphs are built by a recursive
function as the plans are; `FleetUpdate` with two invocations
restricted to steps that do not overlap, which should give `NoRollback` back;
refinements: an abstract bot that only appends signed, built commits, implemented by
`RollingUpdate`, and an abstract archive implemented by `VoiceDiary`.

### Not modelled

Host configurations, service definitions, dashboards and Home Assistant data are
values without behaviour. Batch media tools run by hand (`audiobook-chapter-rebuild.py`,
`marker-to-epub.py`, `audio-silence-audit.py`, `lrclib-publish.py` and others)
read files and write files once; what could be wrong in them is a heuristic about text
or sound, which a specification could only repeat. The programs of others that the
modules configure appear only as the environment of the code that uses them.

Within the modelled programs, left out on purpose: `LIMIT` and `DRY_RUN` of the
archivers (off in the units) and the conversion their pickup hook triggers; sidecars
outside any library root; the yoto CLI's ZIP files and books of several files in it; the
Hermes database and the empty directories of ai-retention; the header, names and
punctuation of a diary entry and filing it away from the inbox; of rtrfm-nowplaying
the capture, what a playlist holds, and requests that read one thing under one lock.
