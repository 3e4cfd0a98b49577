----------------------------- MODULE ManagedFile -----------------------------
(***************************************************************************)
(* One file of an agent's home and its writers:                            *)
(*   - activations, one for each generation of the home, which run one     *)
(*     merge after another on it (home/utils/common.nix).  Each merge      *)
(*     takes the file's lock, reads, writes a temporary file, compares,    *)
(*     replaces (merge_file, which all the merge scripts have).            *)
(*     One step is no merge: the removal of a retired block rewrites the   *)
(*     file in place, without the lock;                                    *)
(*   - the agent and its user, who know nothing of the lock;               *)
(*   - kills and power cuts.                                               *)
(***************************************************************************)
EXTENDS ManagedMerges

CONSTANTS
  Activation,  \* the activations; each is the number of its generation
  Symlink,     \* the file is a symbolic link
  Torn,        \* the file after a power cut, when its data was not on disk
  Retirement,  \* the block that is removed in place
  Scenarios,   \* kind of file, first contents, jobs of an activation, budget
  NoOne

ASSUME ActivationAssumption == Activation \subseteq Generation /\ NoOne \notin Activation
ASSUME ScenariosAssumption ==
  \A s \in Scenarios :
    /\ \A order \in s.jobs : order \in Seq(STRING) /\ order # <<>>
    /\ s.left \in [starts : Nat, writes : Nat, kills : Nat]
    /\ s.kind = "markdown" => s.files \subseteq Seq(Marks) \cup {Symlink}
    /\ s.kind = "toml" => s.files \subseteq Seq(TomlLine) \cup {Symlink}
    /\ s.kind \in {"codex", "claude"} => s.files \subseteq Document \cup {Symlink}
    /\ s.kind # "markdown" => \A order \in s.jobs : Retirement \notin Range(order)
ASSUME OtherContentsAssumption ==
  /\ \A other \in {Symlink, Torn, Refused} : other \notin Seq(Marks) \cup Seq(TomlLine) \cup Document
  /\ Torn # Symlink

VARIABLES
  kind,     \* "markdown", "toml", "codex" or "claude"
  jobs,     \* what an activation does to the file, in order
  file,     \* its contents
  onDisk,   \* the contents one of which a power cut leaves
  lock,     \* the activation that has the file locked
  act,      \* the activations
  left,     \* starts, writes of the agent, kills: what may still happen (bound)
  kept,     \* (history) the user's texts that no writer may lose
  unsynced  \* (history) a merge was killed after its rename, nothing was synced since

fileVars == <<kind, jobs, file, onDisk, lock, act, left, kept, unsynced>>

Fresh(found) ==
  [pc |-> "off", job |-> 1, original |-> <<>>, merged |-> <<>>, synced |-> FALSE,
   orphan |-> FALSE, found |-> found, alone |-> TRUE]

(* The user's own texts in a Markdown file: those outside of all blocks;   *)
(* where markers are amiss, those that no two markers have between them.   *)
WellFormed(contents, names) ==
  /\ \A name \in names : Balanced(contents, name) /\ InOrder(contents, name)
  /\ \A m, n \in names : m # n => Covered(contents, m) \cap Covered(contents, n) = {}
Between(contents, name) ==
  {i \in DOMAIN contents : \E b \in Places(contents, Begin(name)) :
     \E e \in Places(contents, End(name)) : i \in b..e}
Own(contents, names) ==
  LET covered == UNION {IF WellFormed(contents, names) THEN Covered(contents, name)
                        ELSE Between(contents, name) : name \in names}
  IN  {i \in DOMAIN contents \ covered : contents[i].at = "text"}
Outside(contents, names) == Sublist(contents, Own(contents, names))
TextsOf(contents) ==
  IF kind = "markdown" /\ contents \notin {Symlink, Torn} THEN Range(Outside(contents, Range(jobs))) ELSE {}

MergeMarkdown(job, gen, contents) ==
  IF job = Retirement THEN RemoveBlock(contents, job) ELSE MergeBlock(contents, job, gen)
Merge(job, gen, contents) ==
  IF contents \in {Symlink, Torn, Refused} THEN Refused ELSE
  CASE kind = "markdown" -> MergeMarkdown(job, gen, contents)
    [] kind = "toml" -> MergeSettings(contents, gen)
    [] kind = "codex" -> MergeCodex(contents, gen)
    [] kind = "claude" -> MergeClaude(contents, gen)

Job(a) == jobs[act[a].job]
InPlace(a) == Job(a) = Retirement
(* What a write does to the other activations: they are not alone, and one *)
(* that has the file open has the old one if the file was replaced.        *)
Disturbed(r, replaced) ==
  [r EXCEPT !.alone = FALSE, !.found = <<>>, !.orphan = @ \/ (replaced /\ r.pc = "rewrite")]
Others(a, replaced) ==
  [b \in Activation |-> IF b = a THEN act[b] ELSE Disturbed(act[b], replaced)]

Start(a) ==
  /\ left.starts > 0
  /\ left' = [left EXCEPT !.starts = @ - 1]
  /\ act[a].pc = "off"
  /\ act' = [act EXCEPT ![a] = [Fresh(file) EXCEPT !.pc = "next",
              !.alone = \A b \in Activation : b # a => act[b].pc \in {"off", "done", "failed"}]]
  /\ UNCHANGED <<kind, jobs, file, onDisk, lock, kept, unsynced>>

(* A job ends: the next one, or the activation is through.                 *)
Through(r) == [Fresh(r.found) EXCEPT !.alone = r.alone, !.job = r.job, !.pc = "done"]
OneTooMany(r) == [Through(r) EXCEPT !.pc = "next", !.job = @ + 1]
NextJob(r) ==
  IF r.job = Len(jobs) THEN Through(r) ELSE [Through(r) EXCEPT !.pc = "next", !.job = @ + 1]
Fails(r) == [Fresh(<<>>) EXCEPT !.alone = FALSE, !.pc = "failed"]

TakeLock(a) ==
  /\ act[a].pc = "next"
  /\ ~InPlace(a)
  /\ lock = NoOne
  /\ lock' = a
  /\ act' = [act EXCEPT ![a].pc = "locked"]
  /\ UNCHANGED <<kind, jobs, file, onDisk, left, kept, unsynced>>

(* merge_file reads and merges.  An exception ends the activation, and     *)
(* contents that are right already end the job; both unlock.               *)
ReadAndMerge(a) ==
  /\ act[a].pc = "locked"
  /\ \E merged \in {Merge(Job(a), a, file)} :
       LET r == [act[a] EXCEPT !.original = file, !.merged = merged] IN
         IF merged \in {Refused, file}
         THEN /\ act' = [act EXCEPT ![a] = IF merged = Refused THEN Fails(r) ELSE NextJob(r)]
              /\ lock' = NoOne
         ELSE /\ act' = [act EXCEPT ![a] = [r EXCEPT !.pc = "write"]]
              /\ lock' = lock
  /\ UNCHANGED <<kind, jobs, file, onDisk, left, kept, unsynced>>

(* The temporary file, and its fsync. *)
NotSynced == FALSE
Synced == TRUE
WriteTemporary(a) ==
  /\ act[a].pc = "write"
  /\ act' = [act EXCEPT ![a].pc = "compare", ![a].synced = Synced]
  /\ UNCHANGED <<kind, jobs, file, onDisk, lock, left, kept, unsynced>>

(* "Refuse to overwrite an unrelated update made after our read."          *)
AnyContents(r) == TRUE
Unchanged(r) == file = r.original
Compare(a) ==
  /\ act[a].pc = "compare"
  /\ IF Unchanged(act[a])
     THEN /\ act' = [act EXCEPT ![a].pc = "replace"]
          /\ lock' = lock
     ELSE /\ act' = [act EXCEPT ![a] = Fails(@)]
          /\ lock' = NoOne
  /\ UNCHANGED <<kind, jobs, file, onDisk, left, kept, unsynced>>

Replace(a) ==
  /\ act[a].pc = "replace"
  /\ file' = act[a].merged
  /\ act' = [Others(a, TRUE) EXCEPT ![a].pc = "sync"]
  /\ UNCHANGED <<kind, jobs, onDisk, lock, left, kept, unsynced>>

(* The directory is synced, and merge_file returns. *)
SyncDirectory(a) ==
  /\ act[a].pc = "sync"
  /\ onDisk' = {file}
  /\ lock' = NoOne
  /\ act' = [act EXCEPT ![a] = NextJob(@)]
  /\ unsynced' = FALSE
  /\ UNCHANGED <<kind, jobs, file, left, kept>>

(* The removal: read, and if there is something to remove, truncate and    *)
(* write, without a sync.  What is in the file then is in nobody's hands   *)
(* but this one's.                                                         *)
ReadInPlace(a) ==
  /\ act[a].pc = "next"
  /\ InPlace(a)
  /\ \E merged \in {Merge(Job(a), a, file)} :
       LET r == [act[a] EXCEPT !.original = file, !.merged = merged] IN
         act' = [act EXCEPT ![a] = IF merged = Refused THEN Fails(r)
                                   ELSE IF merged = file THEN NextJob(r)
                                   ELSE [r EXCEPT !.pc = "truncate"]]
  /\ UNCHANGED <<kind, jobs, file, onDisk, lock, left, kept, unsynced>>
Truncate(a) ==
  /\ act[a].pc = "truncate"
  /\ file' = <<>>
  /\ onDisk' = onDisk \cup {<<>>}
  /\ kept' = {}
  /\ act' = [Others(a, FALSE) EXCEPT ![a].pc = "rewrite"]
  /\ UNCHANGED <<kind, jobs, lock, left, unsynced>>
Rewrite(a) ==
  /\ act[a].pc = "rewrite"
  /\ file' = IF act[a].orphan THEN file ELSE act[a].merged
  /\ onDisk' = IF act[a].orphan THEN onDisk ELSE onDisk \cup {file'}
  /\ act' = [Others(a, FALSE) EXCEPT ![a] = NextJob(act[a])]
  /\ UNCHANGED <<kind, jobs, lock, left, kept, unsynced>>

(* The agent or its user changes the file, as a whole and at any moment.   *)
(* A text written between the last look of a writer and its write is lost. *)
Blind == \E a \in Activation : act[a].pc \in {"replace", "truncate", "rewrite"}
AgentWrites(contents) ==
  /\ left.writes > 0
  /\ left' = [left EXCEPT !.writes = @ - 1]
  /\ file \notin {Symlink, Torn}
  /\ file' = contents
  /\ onDisk' = {contents}
  /\ act' = Others(NoOne, TRUE)
  /\ kept' = IF Blind THEN kept \cap TextsOf(contents) ELSE TextsOf(contents)
  /\ unsynced' = FALSE
  /\ UNCHANGED <<kind, jobs, lock>>

Kill(a) ==
  /\ left.kills > 0
  /\ left' = [left EXCEPT !.kills = @ - 1]
  /\ act[a].pc \notin {"off", "done", "failed"}
  /\ lock' = IF lock = a THEN NoOne ELSE lock
  /\ act' = [act EXCEPT ![a] = Fails(@)]
  /\ unsynced' = (unsynced \/ act[a].pc = "sync")
  /\ UNCHANGED <<kind, jobs, file, onDisk, kept>>

(* A rename that was not synced may be lost, and data that was not synced  *)
(* may be lost behind its name.                                            *)
PowerCut ==
  /\ left.kills > 0
  /\ left' = [left EXCEPT !.kills = @ - 1]
  /\ LET loose == \E a \in Activation : act[a].pc = "sync" /\ ~act[a].synced
     IN  file' \in onDisk \cup {file} \cup (IF loose THEN {Torn} ELSE {})
  /\ onDisk' = {file'}
  /\ lock' = NoOne
  /\ act' = [a \in Activation |->
       IF act[a].pc \in {"off", "done"} THEN Disturbed(act[a], TRUE) ELSE Fails(act[a])]
  /\ unsynced' = FALSE
  /\ UNCHANGED <<kind, jobs, kept>>

(* What the agent may turn the file into: a line more, a line less, a line *)
(* twice.                                                                  *)
Edits ==
  IF kind # "markdown" \/ file \in {Symlink, Torn} THEN {}
  ELSE {Append(file, Text(10 + left.writes))} \cup {file \o file}
       \cup {RemoveAt(file, i) : i \in {n \in DOMAIN file : file[n].at # "text"}}

FileInit ==
  /\ \E s \in Scenarios : kind = s.kind /\ jobs \in s.jobs /\ file \in s.files /\ left = s.left
  /\ onDisk = {file}
  /\ lock = NoOne
  /\ act = [a \in Activation |-> Fresh(<<>>)]
  /\ kept = TextsOf(file)
  /\ unsynced = FALSE

ActivationStep(a) ==
  \/ TakeLock(a) \/ ReadAndMerge(a) \/ WriteTemporary(a) \/ Compare(a) \/ Replace(a)
  \/ SyncDirectory(a) \/ ReadInPlace(a) \/ Truncate(a) \/ Rewrite(a)

FileNext ==
  \/ \E a \in Activation : Start(a) \/ ActivationStep(a) \/ Kill(a)
  \/ \E contents \in Edits : AgentWrites(contents)
  \/ PowerCut
-----------------------------------------------------------------------------
(* Properties. *)

FileTypeOK ==
  /\ lock \in Activation \cup {NoOne}
  /\ \A a \in Activation :
       /\ act[a].pc \in {"off", "next", "locked", "write", "compare", "replace", "sync",
                         "truncate", "rewrite", "done", "failed"}
       /\ act[a].job \in DOMAIN jobs
       /\ act[a].pc \in {"locked", "write", "compare", "replace", "sync"} <=> lock = a

(* What a user or agent writes next to the managed blocks stays, however   *)
(* activations, edits, kills and power cuts interleave - but for a write   *)
(* between a merge's last comparison and its rename (merge_file), and for  *)
(* a file while the removal rewrites it in place.                          *)
UsersTextStays == kept \subseteq TextsOf(file)

Finished(a) == act[a].pc = "done" /\ act[a].alone
(* The next activation of the same generation writes nothing: an agent     *)
(* that watches its files is not disturbed by every boot.                  *)
Settled(a) == \A job \in Range(jobs) : Merge(job, a, file) = file

(* An activation that nobody wrote beside leaves each block once, in its   *)
(* own generation, no retired one, and the user's texts in their order,    *)
(* whatever blocks the file held before, old or many - unless its markers  *)
(* were amiss, which ends the activation or is put right by the next one.  *)
MarkdownRight ==
  \A a \in Activation : (kind = "markdown" /\ Finished(a) /\ WellFormed(act[a].found, Range(jobs))) =>
    /\ \A name \in Range(jobs) \ {Retirement} : \E i \in DOMAIN file :
         /\ Places(file, Begin(name)) = {i}
         /\ Places(file, End(name)) = {i + 2}
         /\ file[i + 1] = Body(name, a)
    /\ Retirement \in Range(jobs) => Places(file, Begin(Retirement)) = {}
    /\ Outside(file, Range(jobs)) = Outside(act[a].found, Range(jobs))
    /\ Settled(a)

(* No line in a value looks like a header, or like a managed key of the    *)
(* table it seems to be in, or like a key while it ends the value.         *)
Plain(lines) ==
  \A i \in Inside(lines) :
    /\ lines[i].at # "table"
    /\ lines[i].at = "key" =>
         ~lines[i].turns /\ <<TableOf(lines, i), lines[i].of>> \notin Range(Managed)

(* The line-by-line edit of a TOML file leaves one that parses, and never  *)
(* makes the next activation write again.  Unless lines in values look     *)
(* like tables and keys, it means what it should: the managed keys have    *)
(* their values, the retired tables and all below them are gone, every     *)
(* other key of every other table is as it was (merge_text).               *)
TomlRight ==
  \A a \in Activation : (kind = "toml" /\ Finished(a)) =>
    LET before == Values(act[a].found)
        retired(name) == \E s \in Range(Retired) : IsPrefix(s, name)
        others == {k \in DOMAIN before : ~retired(k[1])} \ Range(Managed)
    IN  /\ Valid(file)
        /\ \A job \in Range(jobs) : Merge(job, a, file) \in {file, Refused}
        /\ Plain(act[a].found) =>
             /\ Values(file) = [k \in others \cup Range(Managed) |->
                  IF k \in Range(Managed) THEN <<ManagedValue(k[2], a), <<>>>> ELSE before[k]]
             /\ Settled(a)

Flat(groups) ==
  FlattenSeq([k \in DOMAIN groups |->
    [n \in DOMAIN groups[k].hooks |-> <<groups[k].matcher, groups[k].hooks[n]>>]])

(* Every event keeps the handlers that are not ours, under their matchers  *)
(* and in order; ours is there once, in the new generation, where an agent *)
(* waits for an answer; the pings of old are gone (merge_settings,         *)
(* merge_hooks).                                                           *)
HooksRight ==
  \A a \in Activation : (kind \in {"codex", "claude"} /\ Finished(a)) =>
    LET asks == IF kind = "codex" THEN {"PermissionRequest"} ELSE Asking
        ours(e, h) == (e \in asks /\ h[1] = "notify") \/ (kind = "claude" /\ e \in Turns /\ h = LegacyPing)
    IN  /\ \A e \in DOMAIN file.hooks :
             Flat(file.hooks[e]) =
               Keep(Flat(act[a].found.hooks[e]), LAMBDA mh : ~ours(e, mh[2]))
                 \o IF e \in asks THEN <<<<MatcherOf(e), Notify(a)>>>> ELSE <<>>
        /\ Settled(a)

(* What an activation makes of the files that it does not read as text.    *)
MergedRight == TomlRight /\ HooksRight

(* A power cut leaves the file as it was, or as it was before a merge that *)
(* had not returned yet: never half of it, and no finished merge undone    *)
(* (the fsyncs of merge_file).  A merge killed between its rename and the  *)
(* sync of the directory can be undone later too: the next one finds its   *)
(* text in place, and returns without a sync.  The removal in place has    *)
(* none: its file is safe with the next merge.                             *)
PowerCutKeepsWhole ==
  [][ (left'.kills < left.kills /\ file' # file /\ Cardinality(onDisk) = 1) =>
        /\ onDisk = {file'}
        /\ unsynced \/ \E a \in Activation : act[a].pc = "sync" ]_fileVars
=============================================================================
