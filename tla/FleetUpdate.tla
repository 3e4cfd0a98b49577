----------------------------- MODULE FleetUpdate -----------------------------
(***************************************************************************)
(* One host of the fleet running fleet-update.sh, the verify-then-switch   *)
(* deploy path.  Each invocation (the nightly nixos-upgrade.service, an    *)
(* operator's `sudo fleet-update`) is a process of Run; nothing in the     *)
(* script excludes two of them, so they interleave at every read and write *)
(* of what they share: the clone and its remote-tracking refs, the state   *)
(* files, the running system and the allowed_signers file it installs.     *)
(*                                                                         *)
(* The environment is every forge (it may publish any commit that Moves    *)
(* allows, at any time), the clock, the outcome of every fetch and rebuild,*)
(* a kill or power loss between any two steps, and activations that go     *)
(* around fleet-update.                                                    *)
(***************************************************************************)
EXTENDS SignedHistory, Sequences

CONSTANTS
  Origins,       \* ORIGIN_NAMES, a sequence: fetched in this order
  WriteRoot,     \* WRITE_ROOT
  Branch,        \* the branches an origin may publish
  Master,        \* the one fleet-update deploys from by default
  Run,           \* invocations that may be in progress at the same time
  Options,       \* the command lines in use
  Moves,         \* <<o, c, d>>: forge o may move a branch from c to d
  Mirrors,       \* origins that only ever copy the write root
  KeyDiscipline, \* are keys used only once the host is known to list them?
  Installed,     \* commits the host may have been installed from
  Bypass,        \* commits whose closure may be activated another way
  Tolerates,     \* unit failures a switch may leave: TOLERATE_*_UNIT_FAILURE
  MaxAge,        \* FRESHNESS_MAX_AGE_SECONDS
  MaxTime        \* bound on the clock

Origin == {Origins[i] : i \in DOMAIN Origins}
CommitOrNone == Commit \cup {None}

CommandLine ==
  [ rev : CommitOrNone, acceptNewRoot : CommitOrNone, branch : Branch,
    allowNonMaster : BOOLEAN, dryRun : BOOLEAN ]

ASSUME FleetUpdateAssumption ==
  /\ Origins \in Seq(STRING) /\ Origins # <<>>
  /\ WriteRoot \in Origin             \* asserted by verify.nix
  /\ Master \in Branch
  /\ Options \subseteq CommandLine \ {None}
  /\ Mirrors \subseteq Origin \ {WriteRoot}
  /\ KeyDiscipline \in BOOLEAN
  /\ Moves \subseteq Origin \X CommitOrNone \X Commit
  /\ Installed \subseteq Commit /\ Bypass \subseteq Commit
  /\ Tolerates \subseteq {"user", "timer"}
  /\ MaxAge \in Nat /\ MaxTime \in Nat

VARIABLES
  origin,        \* origin[o][b]: the tip forge o serves for branch b
  objects,       \* commits in REPO_DIR's object store; {}: no clone yet
  remote,        \* remote[o][b]: refs/remotes/o/b in REPO_DIR
  running,       \* the running system: its revision and allowed_signers
  lastVerified,  \* LAST_VERIFIED_REV_FILE
  contact,       \* LAST_SOURCE_CONTACT_FILE: its epoch
  highestSeen,   \* HIGHEST_SEEN_HEARTBEAT_FILE
  freshness,     \* LAST_VERIFIED_FRESHNESS_FILE
  now,           \* the clock
  run,           \* run[r]: the local state of invocation r
  accepted,      \* history: commits vouched for outside fleet-update
  everListed     \* history: every key allowed_signers has listed

repo == <<objects, remote>>
files == <<lastVerified, contact, highestSeen, freshness>>
history == <<accepted, everListed>>
vars == <<origin, repo, running, files, now, run, history>>

PC == {"idle", "clone", "fetch", "tips", "select", "anchor", "classify",
       "beat", "highest", "marker", "preflight", "switch", "record"}

NoCandidates == [o \in Origin |-> None]

\* Locals of an invocation that has exited: its exit code, or how.         
Exited(e) ==
  [ pc |-> "idle", exit |-> e, opt |-> None, next |-> 0,
    candidate |-> NoCandidates, target |-> None, anchor |-> None,
    action |-> "none", checked |-> 0, attempt |-> 0 ]

RunState ==
  [ pc : PC, exit : {"0", "1", "tamper", "killed"}, opt : Options \cup {None},
    next : 0..(Len(Origins) + 1),
    candidate : [Origin -> CommitOrNone],
    target : CommitOrNone, anchor : CommitOrNone,
    action : {"none", "deploy", "noop"}, checked : 0..MaxTime,
    attempt : 0..2 ]

Marker == [epoch : Nat, observed : Nat, target : Commit, by : Commit]

TypeOK ==
  /\ origin \in [Origin -> [Branch -> CommitOrNone]]
  /\ objects \subseteq Commit
  /\ remote \in [Origin -> [Branch -> CommitOrNone]]
  /\ running \in [rev : CommitOrNone, listed : SUBSET Key]
  /\ lastVerified \in CommitOrNone
  /\ contact \in 0..MaxTime \cup {None}
  /\ highestSeen \in Nat
  /\ freshness \in Marker \cup {None}
  /\ now \in 0..MaxTime
  /\ run \in [Run -> RunState]
  /\ accepted \subseteq Commit
  /\ everListed \subseteq Key

-----------------------------------------------------------------------------
(* A freshly installed host: nothing cloned, no state file written.        *)
Init ==
  /\ \E c \in Installed :
       /\ running = [rev |-> c, listed |-> Object[c].listed]
       /\ accepted = Reach[c]
       /\ everListed = Object[c].listed
       /\ origin = [o \in Origin |-> [b \in Branch |-> c]]
  /\ objects = {}
  /\ remote = [o \in Origin |-> [b \in Branch |-> None]]
  /\ lastVerified = None /\ contact = None
  /\ highestSeen = 0 /\ freshness = None
  /\ now = 0
  /\ run = [r \in Run |-> Exited("0")]

-----------------------------------------------------------------------------
(* Helpers *)

Goto(r, pc) == run' = [run EXCEPT ![r].pc = pc]
Exit(r, e) == run' = [run EXCEPT ![r] = Exited(e)]

Candidates(r) == {run[r].candidate[o] : o \in Origin} \ {None}

(* target_reachable_from_candidates *)
ReachableFrom(c, tips) == \E t \in tips : IsAncestor(c, t)

(* The tips fetched from the first i origins, and the most advanced of a   *)
(* set of tips: there is none when two of them have diverged.              *)
TipsOfFirst(r, i) == {run[r].candidate[Origins[j]] : j \in 1..i} \ {None}
MostAdvanced(tips) == {t \in tips : \A u \in tips : IsAncestor(u, t)}

(* What select_candidate_target may print: at most one commit.  Without    *)
(* --rev the scan keeps the most advanced tip so far and fails at the      *)
(* first origin whose tip is comparable to it in neither direction.        *)
Selectable(r) ==
  LET opt == run[r].opt IN
  IF opt.rev # None
    THEN {c \in objects \cap {opt.rev} : ReachableFrom(c, Candidates(r))}
    ELSE {t \in MostAdvanced(Candidates(r)) :
            \A i \in 1..Len(Origins) :
              TipsOfFirst(r, i) # {} => MostAdvanced(TipsOfFirst(r, i)) # {}}

(* confirm_write_root_contains_target, as far as the ref is concerned: it  *)
(* is the ref the last successful fetch left, of this run or an older one. *)
WriteRootRef(r) == remote[WriteRoot][run[r].opt.branch]

-----------------------------------------------------------------------------
(* The steps of one invocation r, in program order.                        *)

(* main up to clone_repo.  parse_args refuses another branch than master   *)
(* unless --allow-non-master is given.                                     *)
Start(r) ==
  /\ run[r].pc = "idle"
  /\ \E opt \in Options :
       /\ opt.branch = Master \/ opt.allowNonMaster
       /\ run' = [run EXCEPT ![r] =
                    [Exited("1") EXCEPT !.pc = "clone", !.opt = opt]]
  /\ UNCHANGED <<origin, repo, running, files, now, history>>

(* clone_repo: any origin that serves the branch can initialise REPO_DIR;  *)
(* when none does the run is skipped.  configure_remotes leaves no state.  *)
Clone(r) ==
  LET b == run[r].opt.branch
      Continue == run' = [run EXCEPT ![r].pc = "fetch", ![r].next = 1]
  IN
  /\ run[r].pc = "clone"
  /\ \/ /\ objects # {}
        /\ Continue
        /\ UNCHANGED objects
     \/ /\ objects = {}
        /\ \E o \in Origin :
             /\ origin[o][b] # None
             /\ objects' = Objects(origin[o][b])
        /\ Continue
     \/ /\ objects = {}
        /\ Exit(r, "0")
        /\ UNCHANGED objects
  /\ UNCHANGED <<origin, remote, running, files, now, history>>

(* One iteration of fetch_origins: the fetch of the next origin succeeds,  *)
(* or fails and leaves the ref of an earlier run where it was.             *)
FetchOk(r) ==
  LET o == Origins[run[r].next]
      b == run[r].opt.branch
      tip == origin[o][b]
  IN
  /\ run[r].pc = "fetch" /\ run[r].next <= Len(Origins)
  /\ tip # None
  /\ objects' = objects \cup Objects(tip)
  /\ remote' = [remote EXCEPT ![o][b] = tip]
  /\ run' = [run EXCEPT ![r].candidate[o] = tip, ![r].next = @ + 1]
  /\ UNCHANGED <<origin, running, files, now, history>>

(* A faulty fetch_origins, whose loop steps over the origin after a        *)
(* failed one.                                                             *)
SkipsTwo(r) ==
  /\ run[r].pc = "fetch" /\ run[r].next <= Len(Origins)
  /\ run' = [run EXCEPT ![r].next = @ + 2]
  /\ UNCHANGED <<origin, repo, running, files, now, history>>

FetchFails(r) ==
  /\ run[r].pc = "fetch" /\ run[r].next <= Len(Origins)
  /\ run' = [run EXCEPT ![r].next = @ + 1]
  /\ UNCHANGED <<origin, repo, running, files, now, history>>

(* The end of fetch_origins: skip when no origin was fetchable.            *)
Fetched(r) ==
  /\ run[r].pc = "fetch" /\ run[r].next > Len(Origins)
  /\ IF Candidates(r) = {} THEN Exit(r, "0") ELSE Goto(r, "tips")
  /\ UNCHANGED <<origin, repo, running, files, now, history>>

(* verify_candidate_tips, then write_source_contact.                       *)
VerifyTips(r) ==
  /\ run[r].pc = "tips"
  /\ IF \A t \in Candidates(r) : Verifies(t, running.listed)
       THEN /\ contact' = now
            /\ Goto(r, "select")
       ELSE /\ Exit(r, "tamper")
            /\ UNCHANGED contact
  /\ UNCHANGED <<origin, repo, running, lastVerified, highestSeen, freshness,
                 now, history>>

(* select_candidate_target, then confirm_write_root_contains_target.       *)
SelectTarget(r) ==
  /\ run[r].pc = "select"
  /\ \/ /\ Selectable(r) = {}
        /\ Exit(r, "tamper")
     \/ \E target \in Selectable(r) :
          \/ WriteRootRef(r) = None /\ Exit(r, "0")
          \/ /\ WriteRootRef(r) # None
             /\ IF IsAncestor(target, WriteRootRef(r))
                  THEN run' = [run EXCEPT ![r].pc = "anchor",
                                          ![r].target = target]
                  ELSE Exit(r, "tamper")
  /\ UNCHANGED <<origin, repo, running, files, now, history>>

(* Faulty orders of precedence: the anchor file alone, or the file before  *)
(* the running system.                                                     *)
FileOnly == lastVerified
FileFirst == IF lastVerified # None THEN lastVerified ELSE running.rev

(* The revision read_anchor uses without --accept-new-root: what the       *)
(* running system says of itself, else the last one fleet-update recorded. *)
Anchor == IF running.rev # None THEN running.rev ELSE lastVerified

(* read_anchor: an accepted root must be here and signed by an ordinary    *)
(* key; the operator vouches for everything it reaches.                    *)
ReadAnchor(r) ==
  LET root == run[r].opt.acceptNewRoot
      UseAnchor(c) == run' = [run EXCEPT ![r].pc = "classify", ![r].anchor = c]
  IN
  /\ run[r].pc = "anchor"
  /\ \/ /\ root # None
        /\ IF root \in objects /\ MayBeRoot(root, running.listed)
             THEN /\ UseAnchor(root)
                  /\ accepted' = accepted \cup Reach[root]
             ELSE /\ Exit(r, "tamper")
                  /\ UNCHANGED accepted
     \/ /\ root = None
        /\ IF Anchor # None THEN UseAnchor(Anchor) ELSE Exit(r, "tamper")
        /\ UNCHANGED accepted
  /\ UNCHANGED <<origin, repo, running, files, now, everListed>>

(* classify_target, all of it against the allowed_signers file installed   *)
(* at this moment.  An accepted root never shorts to noop or skip.         *)
Classify(r) ==
  LET a == run[r].anchor
      t == run[r].target
      forced == run[r].opt.acceptNewRoot # None
      keys == running.listed
      sound == {a, t} \subseteq objects /\ Verifies(a, keys)
      noop == t = a /\ ~forced
      older == t # a /\ IsAncestor(t, a) /\ ~forced
      deploy == ~noop /\ ~older /\ IsAncestor(a, t) /\ RangeVerifies(a, t, keys)
      Work(kind) == run' = [run EXCEPT ![r].pc = "beat", ![r].action = kind]
  IN
  /\ run[r].pc = "classify"
  /\ \/ sound /\ noop /\ Work("noop")
     \/ sound /\ older /\ Verifies(t, keys) /\ Exit(r, "0")
     \/ sound /\ deploy /\ Work("deploy")
     \/ /\ ~(sound /\ (noop \/ (older /\ Verifies(t, keys)) \/ deploy))
        /\ Exit(r, "tamper")
  /\ UNCHANGED <<origin, repo, running, files, now, history>>

(* Where an invocation goes when record_verified_freshness returns, which  *)
(* it always does: a noop is finished, a deploy is about to begin.         *)
AfterFreshness(r) ==
  IF run[r].action = "noop" THEN Exit(r, "0") ELSE Goto(r, "preflight")

(* A faulty verify_commit_principal, which forgets the principal.          *)
VerifiesAsAnyone(c, keys, principal) == Verifies(c, keys)

(* verify_commit_principal *)
VerifiesAs(c, keys, principal) ==
  Verifies(c, keys) /\ Object[c].signer = principal

(* The checks of record_verified_freshness that do not depend on what the  *)
(* host has seen before: a green heartbeat, well formed, last touched by a *)
(* commit the bot signed, and not too old at time t.                       *)
FreshAt(c, keys, t) ==
  LET beat == Object[c].heartbeat IN
  /\ beat # None
  /\ VerifiesAs(beat.by, keys, Bot)
  /\ beat.epoch > 0 /\ beat.green
  /\ t <= beat.epoch + MaxAge

(* No anti-replay guard.                                                   *)
Unguarded(c) == TRUE

(* The anti-replay guard, on what read_highest_seen_heartbeat returned.    *)
NotReplayed(c) == Object[c].heartbeat.epoch >= highestSeen

(* record_verified_freshness up to that guard: the files are written later.*)
ReadHeartbeat(r) ==
  LET target == run[r].target
      beat == Object[target].heartbeat
  IN
  /\ run[r].pc = "beat"
  /\ IF FreshAt(target, running.listed, now) /\ NotReplayed(target)
       THEN run' = [run EXCEPT
              ![r].pc = IF beat.epoch > highestSeen THEN "highest"
                                                    ELSE "marker",
              ![r].checked = now]
       ELSE AfterFreshness(r)
  /\ UNCHANGED <<origin, repo, running, files, now, history>>

(* write_highest_seen_heartbeat *)
WriteHighestSeen(r) ==
  /\ run[r].pc = "highest"
  /\ highestSeen' = Object[run[r].target].heartbeat.epoch
  /\ Goto(r, "marker")
  /\ UNCHANGED <<origin, repo, running, lastVerified, contact, freshness, now,
                 history>>

(* write_json_marker of LAST_VERIFIED_FRESHNESS_FILE *)
WriteFreshness(r) ==
  LET beat == Object[run[r].target].heartbeat IN
  /\ run[r].pc = "marker"
  /\ freshness' = [epoch |-> beat.epoch, observed |-> run[r].checked,
                   target |-> run[r].target, by |-> beat.by]
  /\ AfterFreshness(r)
  /\ UNCHANGED <<origin, repo, running, lastVerified, contact, highestSeen, now,
                 history>>

(* The checkout and metadata_preflight of run_switch.  A probe that fails  *)
(* on plumbing is retried once; plumbing twice leaves the host as it is.   *)
Preflight(r) ==
  /\ run[r].pc = "preflight"
  /\ \/ /\ run[r].opt.dryRun
        /\ Exit(r, "0")
     \/ /\ ~run[r].opt.dryRun
        /\ run' = [run EXCEPT ![r].pc = "switch", ![r].attempt = 1]
     \/ \E e \in {"0", "1"} : Exit(r, e)
  /\ UNCHANGED <<origin, repo, running, files, now, history>>

(* What `nixos-rebuild switch` may come back with: its status (1 stands    *)
(* for every other failure), whether the system generation was activated,  *)
(* which kinds of unit failed and whether its log matches                  *)
(* is_plumbing_failure_log.                                                *)
Rebuilds ==
  { o \in [ status : {0, 1, 4}, activated : BOOLEAN,
            units : SUBSET {"user", "timer", "system"}, plumbing : BOOLEAN ] :
      /\ o.status = 0 => o.activated /\ o.units = {} /\ ~o.plumbing
      /\ o.status = 4 => o.activated /\ o.units # {}
      /\ o.status = 1 => o.units = {} }

(* The two tests run_switch applies to exit 4: only user units failed; or  *)
(* only_timer_oneshots_failed, with user units only where those are        *)
(* tolerated too.                                                          *)
Tolerated(units) ==
  \/ units = {"user"} /\ "user" \in Tolerates
  \/ /\ "timer" \in units /\ "timer" \in Tolerates
     /\ units \subseteq {"timer"} \cup (Tolerates \cap {"user"})

(* A faulty run_switch, which takes a plumbing failure for a deploy.       *)
DeploysOnPlumbing(o) == o.status = 0 \/ o.plumbing

(* When run_switch records the target as deployed.                         *)
Deploys(o) == o.status = 0 \/ (o.status = 4 /\ Tolerated(o.units))

(* One attempt of run_switch: an activated generation brings its own       *)
(* allowed_signers, whatever the exit status says of its units.            *)
Switch(r) ==
  LET target == run[r].target
      System == [rev |-> target, listed |-> Object[target].listed]
  IN
  /\ run[r].pc = "switch"
  /\ \E o \in Rebuilds :
       /\ IF o.activated
            THEN /\ running' = System
                 /\ everListed' = everListed \cup System.listed
            ELSE UNCHANGED <<running, everListed>>
       /\ \/ Deploys(o) /\ Goto(r, "record")
          \/ /\ ~Deploys(o) /\ o.plumbing /\ run[r].attempt = 1
             /\ run' = [run EXCEPT ![r].attempt = 2]
          \/ /\ ~Deploys(o) /\ ~(o.plumbing /\ run[r].attempt = 1)
             /\ Exit(r, "1")
  /\ UNCHANGED <<origin, repo, files, now, accepted>>

(* write_success_anchor *)
WriteAnchor(r) ==
  /\ run[r].pc = "record"
  /\ lastVerified' = run[r].target
  /\ Exit(r, "0")
  /\ UNCHANGED <<origin, repo, running, contact, highestSeen, freshness, now,
                 history>>

Step(r) ==
  \/ Clone(r) \/ FetchOk(r) \/ FetchFails(r) \/ Fetched(r)
  \/ VerifyTips(r) \/ SelectTarget(r) \/ ReadAnchor(r) \/ Classify(r)
  \/ ReadHeartbeat(r) \/ WriteHighestSeen(r) \/ WriteFreshness(r)
  \/ Preflight(r) \/ Switch(r) \/ WriteAnchor(r)

-----------------------------------------------------------------------------
(* The environment.                                                        *)

(* TimeoutStartSec, a SIGTERM or a power loss: the files stay as they are, *)
(* each written by a rename.                                               *)
Kill(r) ==
  /\ run[r].pc # "idle"
  /\ Exit(r, "killed")
  /\ UNCHANGED <<origin, repo, running, files, now, history>>

(* The runbook for adding a key: nothing it signed is published before the *)
(* host is seen to list it.                                                *)
KeysPropagated(from, to) ==
  \A d \in (IF from = None THEN Reach[to] ELSE CommitRange(from, to)) :
    Object[d].signer \in running.listed

(* A forge serves another tip.  The hosts trust the history, not the forge.*)
Publish(o, b) ==
  /\ o \notin Mirrors
  /\ \E c \in Commit :
       /\ <<o, origin[o][b], c>> \in Moves
       /\ KeyDiscipline => KeysPropagated(origin[o][b], c)
       /\ origin' = [origin EXCEPT ![o][b] = c]
  /\ UNCHANGED <<repo, running, files, now, run, history>>

(* github-nixosconfig-mirror.service: forced, so it follows a rewind too.  *)
Mirror(o, b) ==
  /\ o \in Mirrors
  /\ origin' = [origin EXCEPT ![o][b] = origin[WriteRoot][b]]
  /\ UNCHANGED <<repo, running, files, now, run, history>>

(* push-activate.service, or a break-glass rebuild from a dirty checkout:  *)
(* the closure was built from a dirty tree, so it carries no revision.     *)
ActivateUnversioned ==
  /\ \E c \in Bypass :
       /\ running' = [rev |-> None, listed |-> Object[c].listed]
       /\ everListed' = everListed \cup Object[c].listed
  /\ UNCHANGED <<origin, repo, files, now, run, accepted>>

Tick ==
  /\ now < MaxTime
  /\ now' = now + 1
  /\ UNCHANGED <<origin, repo, running, files, run, history>>

Environment ==
  \/ \E o \in Origin, b \in Branch : Publish(o, b) \/ Mirror(o, b)
  \/ ActivateUnversioned
  \/ Tick

Next ==
  \/ \E r \in Run : Start(r) \/ Step(r) \/ Kill(r)
  \/ Environment

Spec == Init /\ [][Next]_vars

-----------------------------------------------------------------------------
(* Fairness.  nixos-upgrade.timer starts the nightly run again and again   *)
(* (Persistent makes up for a missed night) and a run that is not killed   *)
(* goes on.  Of what can fail, nothing fails every time it is tried: the   *)
(* clone, the fetch of the write root, the preflight, the rebuild; and the *)
(* host is not killed in the middle of a run for ever.                     *)
FromWriteRoot(r) == FetchOk(r) /\ Origins[run[r].next] = WriteRoot
Reaches(r, pc) == run'[r].pc = pc
NotKilled(r) == run'[r].exit = "killed" => run[r].exit = "killed"

NightlyFairness(r) ==
  /\ WF_vars(Start(r) \/ Step(r))
  /\ SF_vars(Clone(r) /\ Reaches(r, "fetch"))
  /\ SF_vars(FromWriteRoot(r))
  /\ SF_vars(Preflight(r) /\ Reaches(r, "switch"))
  /\ SF_vars(Switch(r) /\ Reaches(r, "record"))
  /\ <>[][NotKilled(r)]_vars

FairSpec == Spec /\ \A r \in Run : NightlyFairness(r)

-----------------------------------------------------------------------------
(* Safety.                                                                 *)

(* Every commit that c brings, other than those vouched for outside        *)
(* fleet-update, passes verify_commit under keys the host has trusted.     *)
Vouched(c) == \A d \in Reach[c] \ accepted : Verifies(d, everListed)

(* "Hosts must not deploy unsigned, untrusted history": whatever the       *)
(* forges serve, and however invocations of fleet-update, kills and other  *)
(* activations interleave, no unvouched commit is reachable from the       *)
(* revision the host runs, nor from the one read_anchor falls back to.     *)
OnlyTrustedHistory ==
  \A c \in {running.rev, lastVerified} \ {None} : Vouched(c)

(* The running revision is replaced by another one.                        *)
Replaced ==
  running.rev # None /\ running'.rev # None /\ running'.rev # running.rev

(* The targets of invocations told to --accept-new-root.                   *)
ForcedTargets ==
  {run[r].target : r \in {s \in Run : /\ run[s].opt # None
                                     /\ run[s].opt.acceptNewRoot # None}}

(* The deployed revision only moves forward in the signed history, unless  *)
(* the operator accepted a new root: a replayed or diverged tip never      *)
(* replaces a newer system (classify_target's skip and TAMPER branches).   *)
NoRollback ==
  [][ Replaced => \/ IsAncestor(running.rev, running'.rev)
                  \/ running'.rev \in ForcedTargets ]_vars

(* "Every deployed commit must be SSH-signed by a key listed in the        *)
(* running host's closure": each commit that a switch adds verifies under  *)
(* the allowed_signers installed at the moment of the switch.              *)
SwitchUnderCurrentTrust ==
  [][ Replaced =>
        \A d \in Reach[running'.rev] \ (Reach[running.rev] \cup accepted) :
          Verifies(d, running.listed) ]_vars

(* The anchor file never gets ahead of the running system, nor onto        *)
(* another line of history: write_success_anchor comes after the switch,   *)
(* so falling back to the file can only widen the range that is verified.  *)
AnchorFollowsRunning ==
  running.rev # None /\ lastVerified # None
    => IsAncestor(lastVerified, running.rev)

(* "A lower heartbeat epoch never refreshes freshness": between the read   *)
(* of highest-seen-heartbeat and the two writes nothing lets the recorded  *)
(* epoch move backward.                                                    *)
FreshnessNeverRegresses ==
  [][ freshness # None /\ freshness' # freshness
        => freshness'.epoch >= freshness.epoch ]_vars

(* What the freshness marker says is true: its epoch is that of a green    *)
(* heartbeat in the target's history that the bot signed under trusted     *)
(* keys, it was in date when observed, and the replay guard covers it.     *)
FreshnessAuthentic ==
  freshness # None =>
    LET beat == Object[freshness.target].heartbeat IN
    /\ beat = [by |-> freshness.by, epoch |-> freshness.epoch, green |-> TRUE]
    /\ Object[beat.by].signer = Bot /\ Bot \in everListed
    /\ freshness.observed <= freshness.epoch + MaxAge
    /\ freshness.epoch <= highestSeen

(* The host catches up: whatever the write root's protected branch serves, *)
(* the host ends up running it or a successor, though the mirror lags,     *)
(* fetches, probes and rebuilds fail and runs are killed.                  *)
CatchesUp ==
  \A c \in Commit :
    origin[WriteRoot][Master] = c
      ~> running.rev # None /\ IsAncestor(c, running.rev)

(* What the deploy path promises: standing on Anchor, trusting what the    *)
(* running system lists, one invocation at a time is a signed ratchet.     *)
Ratchet == INSTANCE SignedRatchet WITH
  anchor <- Anchor, trusted <- running.listed,
  MayReRoot <- \E opt \in Options : opt.acceptNewRoot # None

(* fleet-update implements SignedRatchet: no phase, retry, kill, partial   *)
(* switch or stale file lets the host leave the ratchet.                   *)
ImplementsRatchet == Ratchet!Spec

-----------------------------------------------------------------------------
(* What comments, log lines and runbooks of the repository say, and the    *)
(* code does not do.                                                       *)

(* "refusing to deploy from fallback alone" (confirm_write_root_contains_  *)
(* target): a deploy is only made when this run fetched the write root.    *)
RefusesFallbackAlone ==
  \A r \in Run : run[r].pc = "switch" => run[r].candidate[WriteRoot] # None

(* "To deploy a signed commit that is not yet on master" with --rev and    *)
(* --allow-non-master: such a run, having the commit in its clone and its  *)
(* signature verified, is not refused when it selects its target.          *)
BreakGlassDeploysOffMaster ==
  [][ \A r \in Run :
        /\ run[r].pc = "select" /\ run[r].opt.allowNonMaster
        /\ run[r].opt.rev \in objects
        /\ Verifies(run[r].opt.rev, running.listed)
        => run'[r].exit # "tamper" ]_vars
=============================================================================
