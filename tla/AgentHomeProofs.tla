--------------------------- MODULE AgentHomeProofs ---------------------------
(***************************************************************************)
(* Theorems about AgentHome, for any activations, jobs, files and budgets. *)
(*                                                                         *)
(* A merge of a Markdown file is an edit: some places of the file go, some *)
(* come in, and the rest keep their elements and their order.  A merge of  *)
(* a file of settings changes what its lines say, an entry after another;  *)
(* one of a file of hooks filters what its groups hold.                    *)
(***************************************************************************)
EXTENDS AgentHome, SublistProofs, SequenceTheorems

Fields == {"pc", "job", "original", "merged", "synced", "orphan", "found", "alone"}
Working == {"locked", "write", "compare", "replace", "sync"}

(* Every activation is well formed, and the lock is held by the one that   *)
(* is at work behind it.                                                   *)
FileForm ==
  /\ FileTypeOK
  /\ act = [a \in Activation |-> act[a]]
  /\ \A a \in Activation : DOMAIN act[a] = Fields
  /\ jobs \in Seq(STRING) /\ jobs # <<>>
  /\ left \in [starts : Nat, writes : Nat, kills : Nat]
  /\ unsynced \in BOOLEAN

(* What is under the file's name is on the disk, but between a rename and  *)
(* the sync of the directory; what a merge renames was synced before.      *)
DiskInv ==
  /\ IsFiniteSet(onDisk)
  /\ \A a \in Activation : act[a].pc \in {"compare", "replace", "sync"} => act[a].synced = TRUE
  /\ file \in onDisk \/ unsynced \/ \E a \in Activation : act[a].pc = "sync"

FileInv == FileForm /\ DiskInv

(* A name's one block, as its generation wants it; no block of one that is *)
(* retired; and what an activation has done of its jobs after n of them,   *)
(* with the user's texts in their order.                                   *)
BlockRight(c, name, gen) ==
  \E i \in DOMAIN c : /\ Places(c, Begin(name)) = {i} /\ Places(c, End(name)) = {i + 2}
                      /\ c[i + 1] = Body(name, gen)
JobDone(c, name, gen) ==
  IF name = Retirement THEN Places(c, Begin(name)) = {} ELSE BlockRight(c, name, gen)
DoneBy(order, gen, found, c, n) ==
  /\ WellFormed(c, Range(order)) /\ Outside(c, Range(order)) = Outside(found, Range(order))
  /\ \A j \in 1..n : JobDone(c, order[j], gen)

(* A Markdown file is one or a link, and what a merge is about to write is *)
(* what it made of what it read.                                           *)
Contents == Seq(Marks) \cup {Symlink}
Making == {"write", "compare", "replace", "truncate", "rewrite"}
MergeOf(order, a, j, c, w) ==
  c \in Seq(Marks) /\ w # Refused /\ w = MergeMarkdown(order[j], a, c)
MarkInv ==
  kind = "markdown" =>
    /\ file \in Contents /\ \A c \in onDisk : c \in Contents
    /\ \A a \in Activation : act[a].pc \in Making =>
         MergeOf(jobs, a, act[a].job, act[a].original, act[a].merged)

(* The user's texts are in the file, in all that a power cut may leave and *)
(* in what is about to be renamed; while the removal rewrites the file in  *)
(* place, none are promised.                                               *)
UserTexts(order, c) ==
  IF c \in {Symlink, Torn} THEN {} ELSE Range(Outside(c, Range(order)))
KeptInv ==
  /\ kind # "markdown" => kept = {}
  /\ kind = "markdown" => \A c \in onDisk \cup {file} : kept \subseteq UserTexts(jobs, c)
  /\ \A a \in Activation :
       kind = "markdown" /\ act[a].pc = "replace" => kept \subseteq UserTexts(jobs, act[a].merged)
  /\ \A a \in Activation : act[a].pc = "rewrite" => kept = {}

(* An activation that nobody wrote beside has done the jobs before the one *)
(* it is at, to the file or to what it read.                               *)
Stand(order, a, r, f) ==
  /\ r.pc \in {"next", "locked"} => DoneBy(order, a, r.found, f, r.job - 1)
  /\ r.pc \in {"write", "compare", "replace", "truncate"} =>
       r.original = f /\ DoneBy(order, a, r.found, f, r.job - 1)
  /\ r.pc = "rewrite" => DoneBy(order, a, r.found, r.original, r.job - 1)
  /\ r.pc = "sync" => f \in Seq(Marks) /\ DoneBy(order, a, r.found, f, r.job)
  /\ r.pc = "done" => f \in Seq(Marks) /\ DoneBy(order, a, r.found, f, Len(order))
AloneInv ==
  kind = "markdown" => \A a \in Activation : act[a].alone =>
    ~act[a].orphan /\ (WellFormed(act[a].found, Range(jobs)) => Stand(jobs, a, act[a], file))

(* The kinds of files with hooks, their events, those at which an agent    *)
(* waits for an answer, and the handlers that are ours.                    *)
Hooked == {"codex", "claude"}
Events == Asking \cup Turns
Asks(k) == IF k = "codex" THEN {"PermissionRequest"} ELSE Asking
Ours(k, e, h) == (e \in Asks(k) /\ h[1] = "notify") \/ (k = "claude" /\ e \in Turns /\ h = LegacyPing)
MergeHooks(k, gen, doc) == IF k = "codex" THEN MergeCodex(doc, gen) ELSE MergeClaude(doc, gen)

(* The files that are parsed, of settings and of hooks: one is what it     *)
(* should be or a link, and no activation rewrites it in place; what a     *)
(* merge is about to write is what it made of what it read; and an         *)
(* activation that nobody wrote beside leaves what the merge makes of what *)
(* it found, however many of its jobs are done.                            *)
Parsed == {"toml"} \cup Hooked
Parses(k) == IF k = "toml" THEN Seq(TomlLine) ELSE Document
MergeParsed(k, gen, c) == IF k = "toml" THEN MergeSettings(c, gen) ELSE MergeHooks(k, gen, c)
Merged(k, a, found, f, n) ==
  IF n = 0 THEN f = found ELSE found \in Parses(k) /\ f = MergeParsed(k, a, found) /\ f # Refused
ParsedStand(k, order, a, r, f) ==
  /\ r.pc \in {"next", "locked"} => Merged(k, a, r.found, f, r.job - 1)
  /\ r.pc \in {"write", "compare", "replace"} =>
       r.original = f /\ Merged(k, a, r.found, f, r.job - 1)
  /\ r.pc = "sync" => Merged(k, a, r.found, f, r.job)
  /\ r.pc = "done" => Merged(k, a, r.found, f, Len(order))
ToWrite(k, a, r) ==
  r.original \in Parses(k) /\ r.merged = MergeParsed(k, a, r.original) /\ r.merged # Refused
ParsedInv ==
  kind \in Parsed =>
    /\ file \in Parses(kind) \cup {Symlink} /\ \A c \in onDisk : c \in Parses(kind) \cup {Symlink}
    /\ Retirement \notin Range(jobs)
    /\ \A a \in Activation :
         /\ act[a].pc \notin {"truncate", "rewrite"}
         /\ act[a].pc \in {"write", "compare", "replace"} => ToWrite(kind, a, act[a])
         /\ act[a].alone => ParsedStand(kind, jobs, a, act[a], file)

Claudes == {"claude", "readclaude", "markclaude"}
Codexes == {"codex", "readcodex", "markcodex", "remove"}
Phase == Claudes \cup {"jobs", "removejob"} \cup Codexes \cup {"off", "trim", "save"}

Run == [pc : Phase, now : Nat, left : SUBSET File, f : File \cup {NoFile}, seen : Nat,
        marks : [File -> Nat], lines : SUBSET (Nat \X Nat)]

RetentionForm ==
  /\ today \in Nat /\ lastRun \in Nat
  /\ there \in SUBSET File
  /\ rows \in [File -> Nat] /\ day \in [File -> Nat] /\ saved \in [File -> Nat]
  /\ ledger \in SUBSET (File \X Nat)
  /\ tornTail \in [{"codex", "claude"} -> BOOLEAN]
  /\ run \in Run
  /\ history \in SUBSET (Nat \X Nat)
  /\ todo \in [days : Nat, writes : Nat, prompts : Nat, runs : Nat, kills : Nat]

(* The run works on files of the kind its phase is about. *)
InPhase ==
  /\ run.pc \in Claudes => run.left \subseteq Transcripts \cup Jobs
  /\ run.pc \in {"jobs", "removejob"} => run.left \subseteq Jobs
  /\ run.pc \in Codexes => run.left \subseteq Rollouts
  /\ run.pc \in {"off", "trim", "save"} => run.left = {}
  /\ run.pc \in {"readclaude", "markclaude"} => run.f \in Transcripts \cup Jobs
  /\ run.pc = "removejob" => run.f \in Jobs
  /\ run.pc \in {"readcodex", "markcodex", "remove"} => run.f \in Rollouts

(* No file was written after today, no run began before the last one, and  *)
(* the last one is Ahead days ago at most.                                 *)
Clock ==
  /\ lastRun <= today /\ today <= lastRun + Ahead
  /\ \A f \in File : day[f] <= today
  /\ run.pc # "off" => lastRun <= run.now /\ run.now <= today

Upto(f, n) == \A k \in 1..n : <<f, k>> \in ledger \cup glued
Archived(f) == Upto(f, rows[f])
Safe(f) == \A k \in 1..rows[f] : <<f, k>> \in ledger \cup late \cup glued

(* A mark, or what may become one, stands for rows in the ledger. *)
MarksInv ==
  /\ \A f \in File : saved[f] <= rows[f] /\ Upto(f, saved[f])
  /\ \A f \in File : run.marks[f] <= rows[f] /\ Upto(f, run.marks[f])
  /\ run.pc \in {"readcodex", "readclaude", "markcodex", "markclaude"} => run.seen <= rows[run.f]
  /\ run.pc \in {"markcodex", "markclaude"} => Upto(run.f, run.seen)

(* What is about to go is archived, but for what came since. *)
RemovalInv ==
  run.pc \in {"markcodex", "remove", "removejob"} => Safe(run.f)

(* What the run found old, once it is through with Claude's files, and     *)
(* what the last run found old, is archived.                               *)
Behind(f) ==
  \/ run.pc \in Claudes /\ f \in run.left
  \/ run.pc = "readclaude" /\ f = run.f
EarlyInv ==
  /\ run.pc # "off" => \A f \in (Transcripts \cup Jobs) \cap there :
       Older(day[f], CutoffEarly, run.now) => Archived(f) \/ Behind(f)
  /\ \A f \in Transcripts \cap there : Older(day[f], CutoffEarly, lastRun) => Archived(f)

Survival == \A f \in File \ there : Safe(f)

LedgerInv == MarksInv /\ RemovalInv /\ EarlyInv /\ Survival
RetentionInv == RetentionForm /\ InPhase /\ Clock /\ LedgerInv
MarkdownInv == MarkInv /\ KeptInv /\ AloneInv
IInv == FileInv /\ MarkdownInv /\ ParsedInv /\ RetentionInv
-----------------------------------------------------------------------------

(* A job that ends leaves its activation well formed, without the lock. *)
LEMMA NextJobForm ==
  ASSUME NEW r, DOMAIN r = Fields, jobs \in Seq(STRING), r.job \in DOMAIN jobs
  PROVE  /\ DOMAIN NextJob(r) = Fields /\ NextJob(r).job \in DOMAIN jobs
         /\ NextJob(r).pc \in {"next", "done"}
<1>1. Len(jobs) \in Nat /\ DOMAIN jobs = 1..Len(jobs)
  OBVIOUS
<1>2. DOMAIN Through(r) = Fields /\ Through(r).job = r.job /\ Through(r).pc = "done"
  BY DEF Through, Fresh, Fields
<1>3. CASE r.job = Len(jobs)
  BY <1>1, <1>2, <1>3 DEF NextJob
<1>4. CASE r.job # Len(jobs)
  <2>1. r.job + 1 \in DOMAIN jobs
    BY <1>1, <1>4
  <2> QED  BY <1>2, <1>4, <2>1 DEF NextJob, Fields
<1> QED  BY <1>3, <1>4

(* So does an exception. *)
LEMMA FailsForm ==
  ASSUME NEW r, jobs \in Seq(STRING), jobs # <<>>
  PROVE  DOMAIN Fails(r) = Fields /\ Fails(r).job \in DOMAIN jobs /\ Fails(r).pc = "failed"
<1>1. 1 \in DOMAIN jobs
  OBVIOUS
<1> QED  BY <1>1 DEF Fails, Fresh, Fields

(* A write beside an activation changes nothing that its place or its lock *)
(* depends on.                                                             *)
LEMMA DisturbedForm ==
  ASSUME NEW r, NEW replaced, DOMAIN r = Fields
  PROVE  /\ DOMAIN Disturbed(r, replaced) = Fields
         /\ Disturbed(r, replaced).pc = r.pc /\ Disturbed(r, replaced).job = r.job
         /\ Disturbed(r, replaced).synced = r.synced
BY DEF Disturbed, Fields

(* The files an activation begins with. *)
LEMMA FileInitInv ==
  ASSUME FileInit
  PROVE  FileInv
<1>1. PICK s \in Scenarios : kind = s.kind /\ jobs \in s.jobs /\ file \in s.files /\ left = s.left
  BY DEF FileInit
<1>2. jobs \in Seq(STRING) /\ jobs # <<>> /\ left \in [starts : Nat, writes : Nat, kills : Nat]
  BY <1>1, ScenariosAssumption
<1>3. 1 \in DOMAIN jobs
  BY <1>2
<1>4. act = [a \in Activation |-> Fresh(<<>>)] /\ lock = NoOne /\ onDisk = {file} /\ unsynced = FALSE
  BY DEF FileInit
<1>5. \A a \in Activation :
        act[a].pc = "off" /\ act[a].job = 1 /\ DOMAIN act[a] = Fields /\ act = [b \in Activation |-> act[b]]
  BY <1>4 DEF Fresh, Fields
<1>6. IsFiniteSet(onDisk)
  BY <1>4, FS_Singleton
<1>7. FileForm
  BY <1>2, <1>3, <1>4, <1>5, ActivationAssumption DEF FileForm, FileTypeOK
<1> QED  BY <1>4, <1>5, <1>6, <1>7 DEF FileInv, DiskInv

Stages == {"off", "next", "locked", "write", "compare", "replace", "sync",
            "truncate", "rewrite", "done", "failed"}
Alike(r, s) == DOMAIN r = DOMAIN s /\ r.pc = s.pc /\ r.job = s.job /\ r.synced = s.synced

(* A step of one activation that leaves the others where they are. *)
LEMMA StepForm ==
  ASSUME FileForm, NEW a \in Activation, jobs' = jobs,
         left' \in [starts : Nat, writes : Nat, kills : Nat], unsynced' \in BOOLEAN,
         act' = [b \in Activation |-> act'[b]],
         \A b \in Activation \ {a} : Alike(act'[b], act[b]),
         DOMAIN act'[a] = Fields, act'[a].pc \in Stages, act'[a].job \in DOMAIN jobs,
         \/ lock' = lock /\ (act'[a].pc \in Working <=> act[a].pc \in Working)
         \/ lock = NoOne /\ lock' = a /\ act'[a].pc \in Working
         \/ lock = a /\ lock' = NoOne /\ act'[a].pc \notin Working
  PROVE  FileForm'
<1> USE ActivationAssumption DEF FileForm, FileTypeOK
<1>1. lock' \in Activation \cup {NoOne}
  OBVIOUS
<1>2. \A b \in Activation :
        DOMAIN act'[b] = Fields /\ act'[b].pc \in Stages /\ act'[b].job \in DOMAIN jobs
  BY DEF Alike, Stages
<1>3. \A b \in Activation : act'[b].pc \in Working <=> lock' = b
  BY DEF Alike, Working
<1> QED  BY <1>1, <1>2, <1>3 DEF Stages, Working

LocksRight(a, r) ==
  \/ lock' = lock /\ (r.pc \in Working <=> act[a].pc \in Working)
  \/ lock = NoOne /\ lock' = a /\ r.pc \in Working
  \/ lock = a /\ lock' = NoOne /\ r.pc \notin Working
RestTyped ==
  /\ jobs' = jobs /\ left' \in [starts : Nat, writes : Nat, kills : Nat] /\ unsynced' \in BOOLEAN

(* Such a step may move nothing of the others, or write the file beside    *)
(* them.                                                                   *)
LEMMA MoveForm ==
  ASSUME FileForm, NEW a \in Activation, NEW r, RestTyped, LocksRight(a, r),
         DOMAIN r = Fields, r.pc \in Stages, r.job \in DOMAIN jobs,
         \/ act' = [act EXCEPT ![a] = r]
         \/ \E replaced : act' = [Others(a, replaced) EXCEPT ![a] = r]
  PROVE  FileForm'
<1>0. act = [b \in Activation |-> act[b]] /\ \A b \in Activation : DOMAIN act[b] = Fields
  BY DEF FileForm
<1>1. CASE act' = [act EXCEPT ![a] = r]
  <2>1. /\ act' = [b \in Activation |-> act'[b]] /\ act'[a] = r
        /\ \A b \in Activation \ {a} : Alike(act'[b], act[b])
    BY <1>0, <1>1 DEF Alike
  <2> QED  BY <2>1, StepForm DEF RestTyped, LocksRight
<1>2. ASSUME NEW replaced, act' = [Others(a, replaced) EXCEPT ![a] = r]
      PROVE  FileForm'
  <2>1. act' = [b \in Activation |-> act'[b]] /\ act'[a] = r
    BY <1>2 DEF Others
  <2>2. ASSUME NEW b \in Activation \ {a}  PROVE Alike(act'[b], act[b])
    <3>1. act'[b] = Disturbed(act[b], replaced)
      BY <1>2 DEF Others
    <3> QED  BY <1>0, <3>1, DisturbedForm DEF Alike
  <2> QED  BY <2>1, <2>2, StepForm DEF RestTyped, LocksRight
<1> QED  BY <1>1, <1>2

(* What one step reads of its activation. *)
LEMMA FormAt ==
  ASSUME FileForm, NEW a \in Activation
  PROVE  /\ DOMAIN act[a] = Fields /\ act[a].job \in DOMAIN jobs /\ act[a].pc \in Stages
         /\ act[a].pc \in Working <=> lock = a
         /\ jobs \in Seq(STRING) /\ jobs # <<>> /\ 1 \in DOMAIN jobs
         /\ left \in [starts : Nat, writes : Nat, kills : Nat] /\ unsynced \in BOOLEAN
         /\ act = [b \in Activation |-> act[b]]
BY DEF FileForm, FileTypeOK, Stages, Working

(* The start and the kill of an activation keep the form. *)
LEMMA StartKillForm ==
  ASSUME FileForm, NEW a \in Activation, Start(a) \/ Kill(a)
  PROVE  FileForm'
<1>1. CASE Start(a)
  <2> DEFINE r == [Fresh(file) EXCEPT !.pc = "next",
                     !.alone = \A b \in Activation : b # a => act[b].pc \in {"off", "done", "failed"}]
  <2>1. act' = [act EXCEPT ![a] = r]
    BY <1>1 DEF Start
  <2>2. r.pc = "next" /\ r.job = 1 /\ DOMAIN r = Fields
    BY DEF Fresh, Fields
  <2>3. RestTyped
    BY SMTT(30), <1>1, FormAt DEF Start, RestTyped
  <2>4. act[a].pc = "off" /\ lock' = lock
    BY <1>1 DEF Start
  <2> HIDE DEF r
  <2>5. LocksRight(a, r) /\ r.pc \in Stages /\ r.job \in DOMAIN jobs
    BY <2>2, <2>4, FormAt DEF LocksRight, Working, Stages
  <2> QED  BY <2>1, <2>2, <2>3, <2>5, MoveForm
<1>2. CASE Kill(a)
  <2> DEFINE r == Fails(act[a])
  <2>1. act' = [act EXCEPT ![a] = r] /\ lock' = IF lock = a THEN NoOne ELSE lock
    BY <1>2 DEF Kill
  <2>2. DOMAIN r = Fields /\ r.job \in DOMAIN jobs /\ r.pc = "failed"
    BY FormAt, FailsForm
  <2>3. RestTyped
    BY SMTT(30), <1>2, FormAt DEF Kill, RestTyped
  <2> HIDE DEF r
  <2>4. LocksRight(a, r) /\ r.pc \in Stages
    BY <2>1, <2>2, FormAt DEF LocksRight, Working, Stages
  <2> QED  BY <2>1, <2>2, <2>3, <2>4, MoveForm
<1> QED  BY <1>1, <1>2

(* So do the steps of a merge. *)
LEMMA MergeForm ==
  ASSUME FileForm, NEW a \in Activation,
         \/ TakeLock(a) \/ ReadAndMerge(a) \/ WriteTemporary(a) \/ Compare(a) \/ Replace(a)
         \/ SyncDirectory(a)
  PROVE  FileForm'
<1>1. CASE TakeLock(a)
  <2> DEFINE r == [act[a] EXCEPT !.pc = "locked"]
  <2>1. act' = [act EXCEPT ![a] = r] /\ lock' = a /\ lock = NoOne
    BY <1>1 DEF TakeLock
  <2>2. r.pc = "locked" /\ r.job = act[a].job /\ DOMAIN r = Fields
    BY FormAt DEF Fields
  <2>3. RestTyped
    BY <1>1, FormAt DEF TakeLock, RestTyped
  <2> HIDE DEF r
  <2>4. LocksRight(a, r) /\ r.pc \in Stages /\ r.job \in DOMAIN jobs
    BY <2>1, <2>2, FormAt DEF LocksRight, Working, Stages
  <2> QED  BY <2>1, <2>2, <2>3, <2>4, MoveForm
<1>2. CASE ReadAndMerge(a)
  <2>1. PICK merged, r : /\ r = [act[a] EXCEPT !.original = file, !.merged = merged]
                         /\ IF merged \in {Refused, file}
                            THEN /\ act' = [act EXCEPT ![a] = IF merged = Refused THEN Fails(r) ELSE NextJob(r)]
                                 /\ lock' = NoOne
                            ELSE /\ act' = [act EXCEPT ![a] = [r EXCEPT !.pc = "write"]]
                                 /\ lock' = lock
    BY <1>2 DEF ReadAndMerge
  <2>2. DOMAIN r = Fields /\ r.job = act[a].job /\ r.job \in DOMAIN jobs
    BY <2>1, FormAt DEF Fields
  <2>3. lock = a /\ act[a].pc \in Working
    BY <1>2, FormAt DEF ReadAndMerge, Working
  <2>4. RestTyped
    BY <1>2, FormAt DEF ReadAndMerge, RestTyped
  <2>5. CASE merged \in {Refused, file}
    <3> DEFINE s == IF merged = Refused THEN Fails(r) ELSE NextJob(r)
    <3>1. act' = [act EXCEPT ![a] = s] /\ lock' = NoOne
      BY <2>1, <2>5
    <3>2. DOMAIN s = Fields /\ s.job \in DOMAIN jobs /\ s.pc \in {"next", "done", "failed"}
      BY <2>2, FormAt, FailsForm, NextJobForm
    <3> HIDE DEF s
    <3>3. LocksRight(a, s) /\ s.pc \in Stages
      BY <2>3, <3>1, <3>2 DEF LocksRight, Working, Stages
    <3> QED  BY <2>4, <3>1, <3>2, <3>3, MoveForm
  <2>6. CASE merged \notin {Refused, file}
    <3> DEFINE s == [r EXCEPT !.pc = "write"]
    <3>1. act' = [act EXCEPT ![a] = s] /\ lock' = lock
      BY <2>1, <2>6
    <3>2. DOMAIN s = Fields /\ s.job \in DOMAIN jobs /\ s.pc = "write"
      BY <2>2 DEF Fields
    <3> HIDE DEF s
    <3>3. LocksRight(a, s) /\ s.pc \in Stages
      BY <2>3, <3>1, <3>2 DEF LocksRight, Working, Stages
    <3> QED  BY <2>4, <3>1, <3>2, <3>3, MoveForm
  <2> QED  BY <2>5, <2>6
<1>3. CASE WriteTemporary(a)
  <2> DEFINE r == [act[a] EXCEPT !.pc = "compare", !.synced = Synced]
  <2>1. act' = [act EXCEPT ![a] = r] /\ lock' = lock /\ act[a].pc = "write"
    BY <1>3 DEF WriteTemporary
  <2>2. r.pc = "compare" /\ r.job = act[a].job /\ DOMAIN r = Fields
    BY FormAt DEF Fields
  <2>3. RestTyped
    BY <1>3, FormAt DEF WriteTemporary, RestTyped
  <2> HIDE DEF r
  <2>4. LocksRight(a, r) /\ r.pc \in Stages /\ r.job \in DOMAIN jobs
    BY <2>1, <2>2, FormAt DEF LocksRight, Working, Stages
  <2> QED  BY <2>1, <2>2, <2>3, <2>4, MoveForm
<1>4. CASE Compare(a)
  <2>0. RestTyped
    BY <1>4, FormAt DEF Compare, RestTyped
  <2>1. act[a].pc = "compare" /\ lock = a
    BY <1>4, FormAt DEF Compare, Working
  <2>2. CASE Unchanged(act[a])
    <3> DEFINE r == [act[a] EXCEPT !.pc = "replace"]
    <3>1. act' = [act EXCEPT ![a] = r] /\ lock' = lock
      BY <1>4, <2>2 DEF Compare
    <3>2. r.pc = "replace" /\ r.job = act[a].job /\ DOMAIN r = Fields
      BY FormAt DEF Fields
    <3> HIDE DEF r
    <3>3. LocksRight(a, r) /\ r.pc \in Stages /\ r.job \in DOMAIN jobs
      BY <2>1, <3>1, <3>2, FormAt DEF LocksRight, Working, Stages
    <3> QED  BY <2>0, <3>1, <3>2, <3>3, MoveForm
  <2>3. CASE ~Unchanged(act[a])
    <3> DEFINE r == Fails(act[a])
    <3>1. act' = [act EXCEPT ![a] = r] /\ lock' = NoOne
      BY <1>4, <2>3 DEF Compare
    <3>2. DOMAIN r = Fields /\ r.job \in DOMAIN jobs /\ r.pc = "failed"
      BY FormAt, FailsForm
    <3> HIDE DEF r
    <3>3. LocksRight(a, r) /\ r.pc \in Stages
      BY <2>1, <3>1, <3>2 DEF LocksRight, Working, Stages
    <3> QED  BY <2>0, <3>1, <3>2, <3>3, MoveForm
  <2> QED  BY <2>2, <2>3
<1>5. CASE Replace(a)
  <2> DEFINE r == [act[a] EXCEPT !.pc = "sync"]
  <2>1. act' = [Others(a, TRUE) EXCEPT ![a] = r] /\ lock' = lock /\ act[a].pc = "replace"
    BY <1>5 DEF Replace, Others
  <2>2. r.pc = "sync" /\ r.job = act[a].job /\ DOMAIN r = Fields
    BY FormAt DEF Fields
  <2>3. RestTyped
    BY <1>5, FormAt DEF Replace, RestTyped
  <2> HIDE DEF r
  <2>4. LocksRight(a, r) /\ r.pc \in Stages /\ r.job \in DOMAIN jobs
    BY <2>1, <2>2, FormAt DEF LocksRight, Working, Stages
  <2> QED  BY <2>1, <2>2, <2>3, <2>4, MoveForm
<1>6. CASE SyncDirectory(a)
  <2> DEFINE r == NextJob(act[a])
  <2>1. act' = [act EXCEPT ![a] = r] /\ lock' = NoOne /\ act[a].pc = "sync"
    BY <1>6 DEF SyncDirectory
  <2>2. DOMAIN r = Fields /\ r.job \in DOMAIN jobs /\ r.pc \in {"next", "done"}
    BY FormAt, NextJobForm
  <2>3. RestTyped
    BY <1>6, FormAt DEF SyncDirectory, RestTyped
  <2> HIDE DEF r
  <2>4. LocksRight(a, r) /\ r.pc \in Stages
    BY <2>1, <2>2, FormAt DEF LocksRight, Working, Stages
  <2> QED  BY <2>1, <2>2, <2>3, <2>4, MoveForm
<1> QED  BY <1>1, <1>2, <1>3, <1>4, <1>5, <1>6

(* And the steps of the removal in place, which has no lock. *)
LEMMA InPlaceForm ==
  ASSUME FileForm, NEW a \in Activation, ReadInPlace(a) \/ Truncate(a) \/ Rewrite(a)
  PROVE  FileForm'
<1>1. CASE ReadInPlace(a)
  <2>1. PICK merged, r : /\ r = [act[a] EXCEPT !.original = file, !.merged = merged]
                         /\ act' = [act EXCEPT ![a] = IF merged = Refused THEN Fails(r)
                                                      ELSE IF merged = file THEN NextJob(r)
                                                      ELSE [r EXCEPT !.pc = "truncate"]]
    BY <1>1 DEF ReadInPlace
  <2>2. DOMAIN r = Fields /\ r.job = act[a].job /\ r.job \in DOMAIN jobs
    BY <2>1, FormAt DEF Fields
  <2>3. lock' = lock /\ act[a].pc = "next"
    BY <1>1 DEF ReadInPlace
  <2>4. RestTyped
    BY <1>1, FormAt DEF ReadInPlace, RestTyped
  <2> DEFINE s == IF merged = Refused THEN Fails(r)
                  ELSE IF merged = file THEN NextJob(r) ELSE [r EXCEPT !.pc = "truncate"]
  <2>5. act' = [act EXCEPT ![a] = s]
    BY <2>1
  <2>6. DOMAIN s = Fields /\ s.job \in DOMAIN jobs /\ s.pc \in {"next", "done", "failed", "truncate"}
    <3>1. CASE merged = Refused
      BY <3>1, FormAt, FailsForm
    <3>2. CASE merged # Refused /\ merged = file
      <4>1. s = NextJob(r)
        BY <3>2
      <4> QED  BY <2>2, <4>1, FormAt, NextJobForm
    <3>3. CASE merged # Refused /\ merged # file
      <4>1. s = [r EXCEPT !.pc = "truncate"]
        BY <3>3
      <4> QED  BY <2>2, <4>1 DEF Fields
    <3> QED  BY <3>1, <3>2, <3>3
  <2> HIDE DEF s
  <2>7. LocksRight(a, s) /\ s.pc \in Stages
    BY <2>3, <2>6 DEF LocksRight, Working, Stages
  <2> QED  BY <2>4, <2>5, <2>6, <2>7, MoveForm
<1>2. CASE Truncate(a)
  <2> DEFINE r == [act[a] EXCEPT !.pc = "rewrite"]
  <2>1. act' = [Others(a, FALSE) EXCEPT ![a] = r] /\ lock' = lock /\ act[a].pc = "truncate"
    BY <1>2 DEF Truncate, Others
  <2>2. r.pc = "rewrite" /\ r.job = act[a].job /\ DOMAIN r = Fields
    BY FormAt DEF Fields
  <2>3. RestTyped
    BY <1>2, FormAt DEF Truncate, RestTyped
  <2> HIDE DEF r
  <2>4. LocksRight(a, r) /\ r.pc \in Stages /\ r.job \in DOMAIN jobs
    BY <2>1, <2>2, FormAt DEF LocksRight, Working, Stages
  <2> QED  BY <2>1, <2>2, <2>3, <2>4, MoveForm
<1>3. CASE Rewrite(a)
  <2> DEFINE r == NextJob(act[a])
  <2>1. act' = [Others(a, FALSE) EXCEPT ![a] = r] /\ lock' = lock /\ act[a].pc = "rewrite"
    BY <1>3 DEF Rewrite
  <2>2. DOMAIN r = Fields /\ r.job \in DOMAIN jobs /\ r.pc \in {"next", "done"}
    BY FormAt, NextJobForm
  <2>3. RestTyped
    BY <1>3, FormAt DEF Rewrite, RestTyped
  <2> HIDE DEF r
  <2>4. LocksRight(a, r) /\ r.pc \in Stages
    BY <2>1, <2>2, FormAt DEF LocksRight, Working, Stages
  <2> QED  BY <2>1, <2>2, <2>3, <2>4, MoveForm
<1> QED  BY <1>1, <1>2, <1>3

(* What an agent writes beside the activations leaves them in place; a     *)
(* power cut ends them.                                                    *)
LEMMA OutsideForm ==
  ASSUME FileForm, (\E contents \in Edits : AgentWrites(contents)) \/ PowerCut
  PROVE  FileForm'
<1>0. \A a \in Activation : DOMAIN act[a] = Fields /\ act[a].job \in DOMAIN jobs /\ act[a].pc \in Stages
  BY FormAt
<1>1. CASE \E contents \in Edits : AgentWrites(contents)
  <2>1. /\ act' = Others(NoOne, TRUE) /\ lock' = lock /\ jobs' = jobs /\ unsynced' = FALSE
        /\ left' \in [starts : Nat, writes : Nat, kills : Nat]
    BY <1>1 DEF AgentWrites, FileForm
  <2>2. act' = [a \in Activation |-> act'[a]]
    BY <2>1 DEF Others
  <2>3. ASSUME NEW a \in Activation  PROVE Alike(act'[a], act[a])
    <3>1. act'[a] = Disturbed(act[a], TRUE)
      BY <2>1, ActivationAssumption DEF Others
    <3> QED  BY <1>0, <3>1 DEF Disturbed, Fields, Alike
  <2> QED  BY <2>1, <2>2, <2>3 DEF FileForm, FileTypeOK, Alike
<1>2. CASE PowerCut
  <2>1. /\ lock' = NoOne /\ jobs' = jobs /\ unsynced' = FALSE
        /\ left' \in [starts : Nat, writes : Nat, kills : Nat]
        /\ act' = [a \in Activation |-> IF act[a].pc \in {"off", "done"} THEN Disturbed(act[a], TRUE)
                                        ELSE Fails(act[a])]
    BY <1>2 DEF PowerCut, FileForm
  <2>2. ASSUME NEW a \in Activation
        PROVE  /\ DOMAIN act'[a] = Fields /\ act'[a].job \in DOMAIN jobs
               /\ act'[a].pc \in {"off", "done", "failed"}
    <3>1. CASE act[a].pc \in {"off", "done"}
      <4>1. act'[a] = Disturbed(act[a], TRUE)
        BY <2>1, <3>1
      <4> QED  BY <1>0, <3>1, <4>1 DEF Disturbed, Fields
    <3>2. CASE act[a].pc \notin {"off", "done"}
      <4>1. act'[a] = Fails(act[a])
        BY <2>1, <3>2
      <4> QED  BY <4>1, FailsForm DEF FileForm
    <3> QED  BY <3>1, <3>2
  <2> QED  BY <2>1, <2>2, ActivationAssumption DEF FileForm, FileTypeOK
<1> QED  BY <1>1, <1>2

(* No step puts an activation into the wrong place. *)
LEMMA FormKept ==
  ASSUME FileForm, [FileNext]_fileVars
  PROVE  FileForm'
<1>1. CASE UNCHANGED fileVars
  BY <1>1 DEF fileVars, FileForm, FileTypeOK
<1>2. CASE FileNext
  BY <1>2, StartKillForm, MergeForm, InPlaceForm, OutsideForm DEF FileNext, ActivationStep
<1> QED  BY <1>1, <1>2
-----------------------------------------------------------------------------

(* The step of one activation leaves the places of the others, and what    *)
(* they synced.                                                            *)
LEMMA OthersStay ==
  ASSUME FileForm, NEW a \in Activation, Start(a) \/ ActivationStep(a) \/ Kill(a),
         NEW b \in Activation, b # a
  PROVE  act'[b].pc = act[b].pc /\ act'[b].synced = act[b].synced
<1>1. act = [c \in Activation |-> act[c]] /\ DOMAIN act[b] = Fields
  BY FormAt
<1>2. CASE Start(a) \/ TakeLock(a) \/ ReadAndMerge(a) \/ WriteTemporary(a) \/ Compare(a)
           \/ SyncDirectory(a) \/ ReadInPlace(a) \/ Kill(a)
  <2>1. act'[b] = act[b]
    BY <1>1, <1>2 DEF Start, TakeLock, ReadAndMerge, WriteTemporary, Compare, SyncDirectory,
                      ReadInPlace, Kill
  <2> QED  BY <2>1
<1>3. CASE Replace(a) \/ Truncate(a) \/ Rewrite(a)
  <2>1. PICK replaced : act'[b] = Disturbed(act[b], replaced)
    BY <1>3 DEF Replace, Truncate, Rewrite, Others
  <2> QED  BY <1>1, <2>1, DisturbedForm
<1> QED  BY <1>2, <1>3 DEF ActivationStep

(* Where a step takes its activation. *)
LEMMA Arrivals ==
  ASSUME FileForm, NEW a \in Activation, Start(a) \/ ActivationStep(a) \/ Kill(a)
  PROVE  \/ act'[a].pc \notin {"compare", "replace", "sync"}
         \/ WriteTemporary(a) /\ act'[a].pc = "compare" /\ act'[a].synced = TRUE
         \/ Compare(a) /\ act'[a].pc = "replace" /\ act'[a].synced = act[a].synced
         \/ Replace(a) /\ act'[a].pc = "sync" /\ act'[a].synced = act[a].synced
<1>0. /\ DOMAIN act[a] = Fields /\ act[a].job \in DOMAIN jobs /\ jobs \in Seq(STRING) /\ jobs # <<>>
      /\ act = [c \in Activation |-> act[c]]
  BY FormAt
<1>1. CASE Start(a)
  <2>1. act'[a].pc = "next"
    BY <1>0, <1>1 DEF Start, Fresh
  <2> QED  BY <2>1
<1>2. CASE TakeLock(a)
  <2>1. act'[a] = [act[a] EXCEPT !.pc = "locked"]
    BY <1>0, <1>2 DEF TakeLock
  <2> QED  BY <1>0, <2>1 DEF Fields
<1>3. CASE ReadAndMerge(a)
  <2>0. PICK merged, r : /\ r = [act[a] EXCEPT !.original = file, !.merged = merged]
                         /\ IF merged \in {Refused, file}
                            THEN act' = [act EXCEPT ![a] = IF merged = Refused THEN Fails(r) ELSE NextJob(r)]
                            ELSE act' = [act EXCEPT ![a] = [r EXCEPT !.pc = "write"]]
    BY <1>3 DEF ReadAndMerge
  <2>1. /\ r = [act[a] EXCEPT !.original = file, !.merged = merged]
        /\ act'[a] = Fails(r) \/ act'[a] = NextJob(r) \/ act'[a] = [r EXCEPT !.pc = "write"]
    BY <1>0, <2>0
  <2>2. DOMAIN r = Fields /\ r.job \in DOMAIN jobs
    BY <1>0, <2>1 DEF Fields
  <2>3. Fails(r).pc = "failed" /\ NextJob(r).pc \in {"next", "done"}
    BY <1>0, <2>2, FailsForm, NextJobForm
  <2>4. [r EXCEPT !.pc = "write"].pc = "write"
    BY <2>2 DEF Fields
  <2> QED  BY <2>1, <2>3, <2>4
<1>4. CASE WriteTemporary(a)
  <2>1. act'[a] = [act[a] EXCEPT !.pc = "compare", !.synced = Synced]
    BY <1>0, <1>4 DEF WriteTemporary
  <2>2. act'[a].pc = "compare" /\ act'[a].synced = Synced
    BY <1>0, <2>1 DEF Fields
  <2> QED  BY <1>4, <2>2 DEF Synced
<1>5. CASE Compare(a)
  <2>1. act'[a] = IF Unchanged(act[a]) THEN [act[a] EXCEPT !.pc = "replace"] ELSE Fails(act[a])
    BY <1>0, <1>5 DEF Compare
  <2>2. Fails(act[a]).pc = "failed"
    BY <1>0, FailsForm
  <2>3. /\ [act[a] EXCEPT !.pc = "replace"].pc = "replace"
        /\ [act[a] EXCEPT !.pc = "replace"].synced = act[a].synced
    BY <1>0 DEF Fields
  <2> QED  BY <1>5, <2>1, <2>2, <2>3
<1>6. CASE Replace(a)
  <2>1. act'[a] = [act[a] EXCEPT !.pc = "sync"]
    BY <1>6 DEF Replace, Others
  <2> QED  BY <1>0, <1>6, <2>1 DEF Fields
<1>7. CASE SyncDirectory(a)
  <2>1. act'[a] = NextJob(act[a])
    BY <1>0, <1>7 DEF SyncDirectory
  <2> QED  BY <1>0, <2>1, NextJobForm
<1>8. CASE ReadInPlace(a)
  <2>1. PICK merged, r : /\ r = [act[a] EXCEPT !.original = file, !.merged = merged]
                         /\ act'[a] = IF merged = Refused THEN Fails(r)
                                      ELSE IF merged = file THEN NextJob(r)
                                      ELSE [r EXCEPT !.pc = "truncate"]
    BY <1>0, <1>8 DEF ReadInPlace
  <2>2. DOMAIN r = Fields /\ r.job \in DOMAIN jobs
    BY <1>0, <2>1 DEF Fields
  <2>3. Fails(r).pc = "failed" /\ NextJob(r).pc \in {"next", "done"}
    BY <1>0, <2>2, FailsForm, NextJobForm
  <2>4. [r EXCEPT !.pc = "truncate"].pc = "truncate"
    BY <2>2 DEF Fields
  <2> QED  BY <2>1, <2>3, <2>4
<1>9. CASE Truncate(a)
  <2>1. act'[a] = [act[a] EXCEPT !.pc = "rewrite"]
    BY <1>9 DEF Truncate, Others
  <2> QED  BY <1>0, <2>1 DEF Fields
<1>10. CASE Rewrite(a)
  <2>1. act'[a] = NextJob(act[a])
    BY <1>10 DEF Rewrite, Others
  <2> QED  BY <1>0, <2>1, NextJobForm
<1>11. CASE Kill(a)
  <2>1. act'[a] = Fails(act[a])
    BY <1>0, <1>11 DEF Kill
  <2> QED  BY <1>0, <2>1, FailsForm
<1> QED  BY <1>1, <1>2, <1>3, <1>4, <1>5, <1>6, <1>7, <1>8, <1>9, <1>10, <1>11 DEF ActivationStep

(* A step leaves the file on the disk, or a merge between its rename and   *)
(* its sync, or one that was killed there.                                 *)
LEMMA DiskKept ==
  ASSUME FileInv, [FileNext]_fileVars
  PROVE  DiskInv'
<1> DEFINE InSync == \E a \in Activation : act[a].pc = "sync"
<1>0. FileForm /\ DiskInv
  BY DEF FileInv
<1>1. CASE UNCHANGED fileVars
  BY <1>0, <1>1 DEF fileVars, DiskInv
<1>2. ASSUME NEW a \in Activation, Start(a) \/ ActivationStep(a) \/ Kill(a)
      PROVE  DiskInv'
  <2>1. IsFiniteSet(onDisk')
    <3>1. onDisk' = onDisk \/ (\E x : onDisk' = {x}) \/ (\E x : onDisk' = onDisk \cup {x})
      BY <1>2 DEF ActivationStep, Start, TakeLock, ReadAndMerge, WriteTemporary, Compare, Replace,
                  SyncDirectory, ReadInPlace, Truncate, Rewrite, Kill
    <3>2. IsFiniteSet(onDisk)
      BY <1>0 DEF DiskInv
    <3>3. CASE \E x : onDisk' = {x}
      BY <3>3, FS_Singleton
    <3>4. CASE \E x : onDisk' = onDisk \cup {x}
      BY <3>2, <3>4, FS_AddElement
    <3> QED  BY <3>1, <3>2, <3>3, <3>4
  <2>2. \A b \in Activation : act'[b].pc \in {"compare", "replace", "sync"} => act'[b].synced = TRUE
    <3>1. act'[a].pc \in {"compare", "replace", "sync"} => act'[a].synced = TRUE
      BY <1>0, <1>2, Arrivals DEF DiskInv, Compare, Replace
    <3>2. \A b \in Activation \ {a} : act'[b].pc \in {"compare", "replace", "sync"} => act'[b].synced = TRUE
      BY <1>0, <1>2, OthersStay DEF DiskInv
    <3> QED  BY <3>1, <3>2
  <2>3. file' \in onDisk' \/ unsynced' \/ InSync'
    <3>1. CASE Replace(a)
      <4>1. act'[a].pc = "sync"
        <5>1. act'[a] = [act[a] EXCEPT !.pc = "sync"]
          BY <3>1 DEF Replace, Others
        <5> QED  BY <1>0, <5>1, FormAt DEF Fields
      <4> QED  BY <4>1
    <3>2. CASE SyncDirectory(a) \/ Truncate(a)
      BY <3>2 DEF SyncDirectory, Truncate
    <3>3. CASE Rewrite(a) /\ ~act[a].orphan
      BY <3>3 DEF Rewrite
    <3>4. CASE \/ Rewrite(a) /\ act[a].orphan
               \/ Start(a) \/ TakeLock(a) \/ ReadAndMerge(a) \/ WriteTemporary(a) \/ Compare(a)
               \/ ReadInPlace(a) \/ Kill(a)
      <4>1. /\ file' = file /\ onDisk' = onDisk
            /\ unsynced => unsynced'
            /\ act[a].pc = "sync" => unsynced'
        BY <1>0, <3>4 DEF FileForm, Rewrite, Start, TakeLock, ReadAndMerge, WriteTemporary, Compare, ReadInPlace, Kill
      <4>2. \A b \in Activation \ {a} : act'[b].pc = act[b].pc
        BY <1>0, <1>2, OthersStay
      <4> QED  BY <1>0, <4>1, <4>2 DEF DiskInv
    <3> QED  BY <1>2, <3>1, <3>2, <3>3, <3>4 DEF ActivationStep
  <2> QED  BY <2>1, <2>2, <2>3 DEF DiskInv
<1>3. ASSUME NEW contents \in Edits, AgentWrites(contents)
      PROVE  DiskInv'
  <2>1. onDisk' = {contents} /\ file' = contents /\ act' = Others(NoOne, TRUE)
    BY <1>3 DEF AgentWrites
  <2>2. ASSUME NEW b \in Activation  PROVE act'[b].pc = act[b].pc /\ act'[b].synced = act[b].synced
    <3>1. act'[b] = Disturbed(act[b], TRUE)
      BY <2>1, ActivationAssumption DEF Others
    <3> QED  BY <1>0, <3>1, FormAt DEF Disturbed, Fields
  <2> QED  BY <1>0, <2>1, <2>2, FS_Singleton DEF DiskInv
<1>4. CASE PowerCut
  <2>1. onDisk' = {file'}
    BY <1>4 DEF PowerCut
  <2>2. ASSUME NEW b \in Activation  PROVE act'[b].pc \in {"off", "done", "failed"}
    <3>1. CASE act[b].pc \in {"off", "done"}
      <4>1. act'[b] = Disturbed(act[b], TRUE)
        BY <1>4, <3>1 DEF PowerCut
      <4> QED  BY <1>0, <3>1, <4>1, FormAt DEF Disturbed, Fields
    <3>2. CASE act[b].pc \notin {"off", "done"}
      <4>1. act'[b] = Fails(act[b])
        BY <1>4, <3>2 DEF PowerCut
      <4> QED  BY <1>0, <4>1, FailsForm DEF FileForm
    <3> QED  BY <3>1, <3>2
  <2> QED  BY <2>1, <2>2, FS_Singleton DEF DiskInv
<1> QED  BY <1>1, <1>2, <1>3, <1>4 DEF FileNext

(* A power cut finds the file on the disk, or what was there before a      *)
(* rename whose sync did not come.                                         *)
LEMMA PowerCutStep ==
  ASSUME FileInv, [FileNext]_fileVars,
         left'.kills < left.kills, file' # file, Cardinality(onDisk) = 1
  PROVE  onDisk = {file'} /\ (unsynced \/ \E a \in Activation : act[a].pc = "sync")
<1>0. FileForm /\ DiskInv /\ left \in [starts : Nat, writes : Nat, kills : Nat]
  BY DEF FileInv, FileForm
<1>1. PowerCut
  <2>1. ~UNCHANGED fileVars
    BY DEF fileVars
  <2>2. \A a \in Activation : ~Kill(a)
    BY DEF Kill
  <2>3. ASSUME NEW a \in Activation, Start(a) \/ ActivationStep(a)  PROVE left'.kills = left.kills
    BY <1>0, <2>3 DEF Start, ActivationStep, TakeLock, ReadAndMerge, WriteTemporary, Compare, Replace,
                      SyncDirectory, ReadInPlace, Truncate, Rewrite
  <2>4. ASSUME NEW contents \in Edits, AgentWrites(contents)  PROVE left'.kills = left.kills
    BY <1>0, <2>4 DEF AgentWrites
  <2>5. left.kills \in Nat
    BY <1>0
  <2> QED  BY <2>1, <2>2, <2>3, <2>4, <2>5 DEF FileNext
<1>2. ~\E a \in Activation : act[a].pc = "sync" /\ ~act[a].synced
  BY <1>0 DEF DiskInv
<1>3. file' \in onDisk
  BY <1>1, <1>2 DEF PowerCut
<1>4. onDisk = {file'}
  <2>1. PICK x : onDisk = {x}
    BY <1>0, FS_Singleton DEF DiskInv
  <2> QED  BY <1>3, <2>1
<1> QED  BY <1>0, <1>4 DEF DiskInv
-----------------------------------------------------------------------------

(* What a merge does to a Markdown file.                                   *)

(* A sequence is another one but for what is gone and what is new: the     *)
(* rest, at the places g, has its elements and its order, and nothing new  *)
(* gets between two places with nothing gone between them.                 *)
EditOf(c, w, gone, new, g) ==
  /\ g \in [DOMAIN c \ gone -> DOMAIN w \ new]
  /\ \A i, j \in DOMAIN c \ gone : i < j => g[i] < g[j]
  /\ \A i \in DOMAIN c \ gone : w[g[i]] = c[i]
  /\ \A k \in DOMAIN w \ new : \E i \in DOMAIN c \ gone : g[i] = k
  /\ \A i, j \in DOMAIN c \ gone : (i..j) \cap gone = {} => (g[i]..g[j]) \cap new = {}

(* The first of some places. *)
LEMMA MinIsFirst ==
  ASSUME NEW len \in Nat, NEW P \in SUBSET (1..len), P # {}
  PROVE  Min(P) \in P /\ \A j \in P : Min(P) <= j
BY FirstPlace DEF Min

(* What is covered is in the file. *)
LEMMA CoveredPlaces ==
  ASSUME NEW c \in Seq(Marks), NEW n
  PROVE  /\ Len(c) \in Nat /\ DOMAIN c = 1..Len(c)
         /\ Covered(c, n) \in SUBSET (1..Len(c)) /\ Covered(c, n) \subseteq Between(c, n)
BY DEF Covered, Between

(* One sequence after another, and the beginning of one. *)
LEMMA Joined ==
  ASSUME NEW S, NEW s \in Seq(S), NEW t \in Seq(S)
  PROVE  /\ s \o t \in Seq(S) /\ Len(s \o t) = Len(s) + Len(t)
         /\ DOMAIN (s \o t) = 1..(Len(s) + Len(t))
         /\ \A i \in 1..Len(s) : (s \o t)[i] = s[i]
         /\ \A i \in 1..Len(t) : (s \o t)[Len(s) + i] = t[i]
<1>1. PICK st : st = s \o t
  OBVIOUS
<1>2. PICK m \in Nat, k \in Nat : m = Len(s) /\ k = Len(t)
  OBVIOUS
<1>3. /\ st \in Seq(S) /\ Len(st) = m + k
      /\ \A i \in 1..m + k : st[i] = IF i <= m THEN s[i] ELSE t[i - m]
  BY <1>1, <1>2, ConcatProperties
<1>4. DOMAIN st = 1..(m + k)
  BY <1>3
<1>5. ASSUME NEW i \in 1..m  PROVE st[i] = s[i]
  <2>1. i \in 1..m + k /\ i <= m
    OBVIOUS
  <2> QED  BY <1>3, <2>1
<1>6. ASSUME NEW i \in 1..k  PROVE st[m + i] = t[i]
  <2>1. m + i \in 1..m + k /\ ~(m + i <= m) /\ m + i - m = i
    OBVIOUS
  <2> QED  BY <1>3, <2>1
<1> QED  BY <1>1, <1>2, <1>3, <1>4, <1>5, <1>6

LEMMA Beginning ==
  ASSUME NEW S, NEW s \in Seq(S), NEW d \in Nat, d <= Len(s)
  PROVE  /\ SubSeq(s, 1, d) \in Seq(S) /\ Len(SubSeq(s, 1, d)) = d
         /\ \A i \in 1..d : SubSeq(s, 1, d)[i] = s[i]
<1>1. \A i \in 1..d : s[i] \in S
  OBVIOUS
<1>2. PICK ss : ss = SubSeq(s, 1, d)
  OBVIOUS
<1>3. /\ ss \in Seq(S) /\ Len(ss) = IF 1 <= d THEN d - 1 + 1 ELSE 0
      /\ \A i \in 1..d - 1 + 1 : ss[i] = s[1 + i - 1]
  BY <1>1, <1>2, SubSeqProperties
<1>4. (IF 1 <= d THEN d - 1 + 1 ELSE 0) = d /\ 1..d - 1 + 1 = 1..d
  OBVIOUS
<1>5. ASSUME NEW i \in 1..d  PROVE ss[i] = s[i]
  <2>1. 1 + i - 1 = i
    OBVIOUS
  <2> QED  BY <1>3, <1>4, <2>1
<1> QED  BY <1>2, <1>3, <1>4, <1>5

(* Cutting places out, the first of which gives its place to something.    *)
Splice(c, gone, first, start, after, w) ==
  /\ start = Min(gone)
  /\ after = {i \in DOMAIN c : i > start /\ i \notin gone}
  /\ w = SubSeq(c, 1, start - 1) \o first \o Sublist(c, after)
StandsAt(first, w, start) ==
  \A i \in 1..Len(first) : start - 1 + i \in DOMAIN w /\ w[start - 1 + i] = first[i]

LEMMA SpliceEdit ==
  ASSUME NEW c \in Seq(Marks), NEW gone \in SUBSET (1..Len(c)), gone # {}, NEW first \in Seq(Marks),
         NEW start, NEW after, NEW w, Splice(c, gone, first, start, after, w)
  PROVE  /\ w \in Seq(Marks) /\ start \in gone /\ StandsAt(first, w, start)
         /\ \E g : EditOf(c, w, gone, start..(start - 1 + Len(first)), g)
<1>1. PICK len \in Nat, f \in Nat :
        /\ len = Len(c) /\ DOMAIN c = 1..len /\ f = Len(first) /\ after \in SUBSET (1..len)
        /\ \A i \in 1..len : i \in after <=> i > start /\ i \notin gone
  <2>1. Len(c) \in Nat /\ DOMAIN c = 1..Len(c) /\ Len(first) \in Nat
    OBVIOUS
  <2>2. after = {i \in DOMAIN c : i > start /\ i \notin gone}
    BY DEF Splice
  <2> QED  BY <2>1, <2>2
<1>2. PICK m \in Nat : m = Cardinality(after)
  BY <1>1, PlacesFinite
<1>3. start \in gone /\ \A j \in gone : start <= j
  BY <1>1, MinIsFirst DEF Splice
<1>4. start \in 1..len
  BY <1>1, <1>3
<1>5. PICK d \in Nat : start = d + 1 /\ start - 1 = d /\ d <= len
  <2>1. start - 1 \in Nat /\ start = start - 1 + 1 /\ start - 1 <= len
    BY <1>4
  <2> QED  BY <2>1
<1>6. \A i \in 1..len : (i < start <=> i \in 1..d) /\ i \in Nat
  BY <1>4, <1>5
<1>9. /\ w \in Seq(Marks) /\ DOMAIN w = 1..(d + f + m)
      /\ \A k \in 1..d : w[k] = c[k] /\ k \in 1..(d + f + m)
      /\ \A k \in 1..f : w[d + k] = first[k] /\ d + k \in 1..(d + f + m)
      /\ \A i \in after : Rank(after, i) \in 1..m /\ w[d + f + Rank(after, i)] = c[i]
  <2>1. PICK a : a = SubSeq(c, 1, d)
    OBVIOUS
  <2>2. a \in Seq(Marks) /\ Len(a) = d /\ \A i \in 1..d : a[i] = c[i]
    BY <1>1, <1>5, <2>1, Beginning
  <2>3. PICK s : s = Sublist(c, after)
    OBVIOUS
  <2>4. s \in Seq(Marks) /\ Len(s) = m /\ \A i \in after : Rank(after, i) \in 1..m /\ s[Rank(after, i)] = c[i]
    <3>1. \A i \in after : c[i] \in Marks
      BY <1>1
    <3>2. s \in Seq(Marks)
      BY <1>1, <2>3, <3>1, SublistHas
    <3>3. Len(s) = m
      BY <1>1, <1>2, <2>3, SublistHas
    <3>4. ASSUME NEW i \in after  PROVE Rank(after, i) \in 1..Cardinality(after) /\ s[Rank(after, i)] = c[i]
      <4>1. after \in SUBSET (1..len)
        BY <1>1
      <4> QED  BY <2>3, <4>1, AtRank
    <3> QED  BY <1>2, <3>2, <3>3, <3>4
  <2>5. PICK b : b = a \o first
    OBVIOUS
  <2>6. /\ b \in Seq(Marks) /\ Len(b) = d + f
        /\ \A i \in 1..d : b[i] = a[i]
        /\ \A i \in 1..f : b[d + i] = first[i]
    <3>1. b \in Seq(Marks) /\ Len(b) = Len(a) + Len(first)
      BY <2>2, <2>5, Joined
    <3>2. \A i \in 1..Len(a) : b[i] = a[i]
      BY <2>2, <2>5, Joined
    <3>3. \A i \in 1..Len(first) : b[Len(a) + i] = first[i]
      BY <2>2, <2>5, Joined
    <3> QED  BY <1>1, <2>2, <3>1, <3>2, <3>3
  <2>7. PICK e \in Nat : e = d + f
    OBVIOUS
  <2>8. w = b \o s
    BY <1>5, <2>1, <2>3, <2>5 DEF Splice
  <2>9. /\ w \in Seq(Marks) /\ Len(w) = e + m /\ DOMAIN w = 1..(e + m)
        /\ \A i \in 1..e : w[i] = b[i]
        /\ \A i \in 1..m : w[e + i] = s[i]
    <3>1. w \in Seq(Marks) /\ Len(w) = Len(b) + Len(s) /\ DOMAIN w = 1..(Len(b) + Len(s))
      BY <2>4, <2>6, <2>8, Joined
    <3>2. \A i \in 1..Len(b) : w[i] = b[i]
      BY <2>4, <2>6, <2>8, Joined
    <3>3. ASSUME NEW i \in 1..Len(s)  PROVE w[Len(b) + i] = s[i]
      BY <2>4, <2>6, <2>8, Joined
    <3> QED  BY <2>4, <2>6, <2>7, <3>1, <3>2, <3>3
  <2>a. (\A k \in 1..d : k \in 1..e) /\ \A k \in 1..f : d + k \in 1..e
    BY <2>7
  <2>b. \A k \in 1..d : w[k] = c[k]
    BY <2>2, <2>6, <2>9, <2>a
  <2>c. \A k \in 1..f : w[d + k] = first[k]
    BY <2>6, <2>9, <2>a
  <2>d. \A i \in after : w[e + Rank(after, i)] = c[i]
    BY <2>4, <2>9
  <2>f. (\A k \in 1..d : k \in 1..(d + f + m)) /\ \A k \in 1..f : d + k \in 1..(d + f + m)
    OBVIOUS
  <2> QED  BY <2>4, <2>7, <2>9, <2>b, <2>c, <2>d, <2>f
<1>b. ASSUME NEW k \in 1..d  PROVE w[k] = c[k] /\ ~(start <= k)
  <2>1. ~(d + 1 <= k)
    OBVIOUS
  <2> QED  BY <1>5, <1>9, <2>1
<1> DEFINE rest == DOMAIN c \ gone
           new == start..(start - 1 + f)
           g == [i \in rest |-> IF i < start THEN i ELSE d + f + Rank(after, i)]
<1>e. new = (d + 1)..(d + f)
  BY <1>5
<1>f. ASSUME NEW i \in rest
      PROVE  /\ i \in 1..len /\ i # start
             /\ i < start => i \in 1..d /\ g[i] = i
             /\ ~(i < start) => i \in after /\ g[i] = d + f + Rank(after, i) /\ Rank(after, i) \in 1..m
  <2>1. i \in 1..len /\ i # start
    BY <1>1, <1>3
  <2>2. ~(i < start) => i > start
    BY <1>4, <2>1
  <2>3. ~(i < start) => i \in after
    BY <1>1, <2>1, <2>2
  <2> QED  BY <1>6, <1>9, <2>1, <2>3
<1> HIDE DEF new
<1>g. g \in [rest -> DOMAIN w \ new]
  <2>1. ASSUME NEW i \in rest  PROVE g[i] \in DOMAIN w \ new
    <3>1. CASE i < start
      <4>1. i \in 1..d /\ g[i] = i
        BY <1>f, <3>1
      <4>2. i \in 1..(d + f + m) /\ i \notin (d + 1)..(d + f)
        BY <4>1
      <4> QED  BY <1>9, <1>e, <4>1, <4>2
    <3>2. CASE ~(i < start)
      <4>1. PICK r \in 1..m : r = Rank(after, i) /\ g[i] = d + f + r
        BY <1>f, <3>2
      <4>2. d + f + r \in 1..(d + f + m) /\ d + f + r \notin (d + 1)..(d + f)
        OBVIOUS
      <4> QED  BY <1>9, <1>e, <4>1, <4>2
    <3> QED  BY <3>1, <3>2
  <2> QED  BY <2>1
<1>h. ASSUME NEW i \in rest, NEW j \in rest, i < j  PROVE g[i] < g[j]
  <2>1. i \in Nat /\ j \in Nat
    BY <1>6, <1>f
  <2>2. CASE j < start
    <3>1. i < start
      BY <1>5, <1>h, <2>1, <2>2
    <3> QED  BY <1>f, <1>h, <2>2, <3>1
  <2>3. CASE ~(j < start) /\ i < start
    <3>1. PICK r \in 1..m : g[j] = d + f + r
      BY <1>f, <2>3
    <3>2. i \in 1..d /\ g[i] = i
      BY <1>f, <2>3
    <3>3. i < d + f + r
      BY <3>2
    <3> QED  BY <3>1, <3>2, <3>3
  <2>4. CASE ~(j < start) /\ ~(i < start)
    <3>1. /\ i \in after /\ j \in after /\ g[i] = d + f + Rank(after, i)
          /\ g[j] = d + f + Rank(after, j) /\ Rank(after, i) \in 1..m /\ Rank(after, j) \in 1..m
      BY <1>f, <2>4
    <3>2. Rank(after, i) < Rank(after, j)
      BY <1>1, <1>h, <3>1, RankGrows
    <3> QED  BY <3>1, <3>2
  <2> QED  BY <2>2, <2>3, <2>4
<1>i. ASSUME NEW i \in rest  PROVE w[g[i]] = c[i]
  <2>1. CASE i < start
    BY <1>b, <1>f, <2>1
  <2>2. CASE ~(i < start)
    BY <1>9, <1>f, <2>2
  <2> QED  BY <2>1, <2>2
<1>j. ASSUME NEW k \in DOMAIN w \ new  PROVE \E i \in rest : g[i] = k
  <2>1. k \in 1..d \/ \E n \in 1..m : k = d + f + n
    <3>1. k \in 1..(d + f + m) /\ k \notin (d + 1)..(d + f)
      BY <1>9, <1>e
    <3>2. k \in 1..d \/ (k - (d + f) \in 1..m /\ k = d + f + (k - (d + f)))
      BY <3>1
    <3> QED  BY <3>2
  <2>2. CASE k \in 1..d
    <3>1. k \in 1..len /\ k < start /\ ~(start <= k)
      BY <1>4, <1>5, <2>2
    <3>2. k \in rest
      BY <1>1, <1>3, <3>1
    <3> QED  BY <3>1, <3>2
  <2>3. CASE \E n \in 1..m : k = d + f + n
    <3>1. PICK n \in 1..m : k = d + f + n
      BY <2>3
    <3>2. PICK i \in after : Rank(after, i) = n
      <4>1. n \in 1..Cardinality(after)
        BY <1>2
      <4> QED  BY <1>1, <4>1, AtPlace
    <3>3. i \in rest /\ i > start /\ i \in 1..len
      BY <1>1
    <3>4. ~(i < start)
      BY <1>4, <3>3
    <3> QED  BY <3>1, <3>2, <3>3, <3>4
  <2> QED  BY <2>1, <2>2, <2>3
<1>k. ASSUME NEW i \in rest, NEW j \in rest, (i..j) \cap gone = {}  PROVE (g[i]..g[j]) \cap new = {}
  <2>1. i \in 1..len /\ j \in 1..len /\ i # start /\ j # start
    BY <1>f
  <2>2. ~(i < start /\ start < j)
    <3>1. i < start /\ start < j => start \in i..j
      BY <1>4, <2>1
    <3> QED  BY <1>3, <1>k, <3>1
  <2>3. CASE j < start
    <3>1. g[j] = j /\ j \in 1..d
      BY <1>f, <2>3
    <3>2. g[i] \in 1..(d + f + m)
      BY <1>9, <1>g
    <3>3. (g[i]..j) \cap ((d + 1)..(d + f)) = {}
      BY <3>1, <3>2
    <3> QED  BY <1>e, <3>1, <3>3
  <2>4. CASE ~(i < start)
    <3>1. PICK r \in 1..m : g[i] = d + f + r
      BY <1>f, <2>4
    <3>2. g[j] \in 1..(d + f + m)
      BY <1>9, <1>g
    <3>3. ((d + f + r)..g[j]) \cap ((d + 1)..(d + f)) = {}
      BY <3>2
    <3> QED  BY <1>e, <3>1, <3>3
  <2>5. j < start \/ ~(i < start)
    BY <1>4, <2>1, <2>2
  <2> QED  BY <2>3, <2>4, <2>5
<1> HIDE DEF g
<1>l. EditOf(c, w, gone, new, g)
  BY <1>g, <1>h, <1>i, <1>j, <1>k DEF EditOf
<1>m. StandsAt(first, w, start)
  BY <1>1, <1>5, <1>9 DEF StandsAt
<1> QED  BY <1>1, <1>3, <1>9, <1>l, <1>m DEF new

(* An edit keeps the order of what it leaves.                              *)
LEMMA EditOrder ==
  ASSUME NEW c \in Seq(Marks), NEW w \in Seq(Marks), NEW gone, NEW new, NEW g, EditOf(c, w, gone, new, g),
         NEW i \in DOMAIN c \ gone, NEW j \in DOMAIN c \ gone
  PROVE  /\ i \in Nat /\ j \in Nat /\ g[i] \in Nat /\ g[j] \in Nat
         /\ i < j <=> g[i] < g[j]
         /\ i <= j <=> g[i] <= g[j]
         /\ i = j <=> g[i] = g[j]
<1>1. PICK l \in Nat, k \in Nat : DOMAIN c = 1..l /\ DOMAIN w = 1..k
  OBVIOUS
<1>2. i \in Nat /\ j \in Nat
  BY <1>1
<1>3. g[i] \in DOMAIN w /\ g[j] \in DOMAIN w
  BY DEF EditOf
<1>4. g[i] \in Nat /\ g[j] \in Nat
  BY <1>1, <1>3
<1>5. (i < j => g[i] < g[j]) /\ (j < i => g[j] < g[i])
  BY DEF EditOf
<1> QED  BY <1>2, <1>4, <1>5

(* Begin and end of a name are told from each other, from other names'     *)
(* and from texts and bodies.                                              *)
LEMMA MarksDiffer ==
  /\ \A m, n : Begin(m) # End(n) /\ (Begin(m) = Begin(n) <=> m = n) /\ (End(m) = End(n) <=> m = n)
  /\ \A m, n, gen : Body(n, gen) # Begin(m) /\ Body(n, gen) # End(m)
  /\ \A n, gen : Begin(n).at # "text" /\ End(n).at # "text" /\ Body(n, gen).at # "text"
  /\ \A n \in STRING : Begin(n) \in Marks /\ End(n) \in Marks /\ \A gen \in Generation : Body(n, gen) \in Marks
BY DEF Begin, End, Body, Marks

(* Where the markers of a name are balanced and in order, all of them      *)
(* belong to blocks.                                                       *)
LEMMA MarkersCovered ==
  ASSUME NEW c \in Seq(Marks), NEW n, Balanced(c, n), InOrder(c, n)
  PROVE  /\ Places(c, Begin(n)) \subseteq Covered(c, n)
         /\ Places(c, End(n)) \subseteq Covered(c, n)
<1> DEFINE B == Places(c, Begin(n))
           E == Places(c, End(n))
           First(b, f) == f \in E /\ b < f /\ \A e \in E : e > b => e >= f
<1>1. PICK len \in Nat : DOMAIN c = 1..len
  OBVIOUS
<1>2. B \in SUBSET (1..len) /\ E \in SUBSET (1..len)
  BY <1>1 DEF Places
<1>3. IsFiniteSet(B) /\ IsFiniteSet(E) /\ Cardinality(B) = Cardinality(E)
  BY <1>2, PlacesFinite DEF Balanced
<1>4. \A b \in B : \E e \in E : b < e /\ \A o \in B : o \in b..e => o = b
  BY DEF InOrder
<1>c. Covered(c, n) = {i \in DOMAIN c : \E b \in B : \E e \in E :
                         i \in b..e /\ \A f \in E : f > b => f >= e}
  BY DEF Covered
<1> HIDE DEF B, E
<1>5. ASSUME NEW b \in B  PROVE \E f : First(b, f)
  <2>1. PICK e \in E : b < e
    BY <1>4
  <2> DEFINE later == {e2 \in E : b < e2}
  <2>2. later \in SUBSET (1..len) /\ later # {}
    BY <1>2, <2>1
  <2>3. PICK f \in later : \A e2 \in later : f <= e2
    BY <2>2, FirstPlace
  <2>4. b \in Nat /\ f \in Nat /\ \A e2 \in E : e2 \in Nat
    BY <1>2, <2>2
  <2>5. \A e2 \in E : e2 > b => e2 >= f
    BY <2>3, <2>4
  <2> QED  BY <2>3, <2>5
<1> DEFINE h == [b \in B |-> CHOOSE f : First(b, f)]
<1>6. \A b \in B : First(b, h[b])
  BY <1>5
<1> HIDE DEF h
<1>d. (\A b \in B : b \in 1..len /\ b \in Nat) /\ \A e \in E : e \in 1..len /\ e \in Nat
  BY <1>2
<1>e. \A b \in B : h[b] \in E /\ h[b] \in 1..len /\ h[b] \in Nat /\ b < h[b]
  BY <1>6, <1>d
<1>7. ASSUME NEW b \in B, NEW o \in B, b < o, h[b] = h[o]  PROVE FALSE
  <2>1. PICK e \in E : b < e /\ \A p \in B : p \in b..e => p = b
    BY <1>4
  <2>2. h[b] <= e /\ o < h[o]
    <3>1. e \in Nat /\ b \in Nat /\ h[b] \in E /\ h[b] \in Nat
      BY <1>d, <1>e
    <3>2. e > b => e >= h[b]
      BY <1>6
    <3> QED  BY <1>6, <2>1, <3>1, <3>2
  <2>3. b \in Nat /\ o \in Nat /\ e \in Nat /\ h[o] \in Nat
    BY <1>d, <1>e
  <2>4. o \in b..e
    BY <1>7, <2>2, <2>3
  <2> QED  BY <1>7, <2>1, <2>3, <2>4
<1>8. h \in [B -> E] /\ \A b, o \in B : h[b] = h[o] => b = o
  <2>1. \A b \in B : b \in Nat
    BY <1>2
  <2>2. h \in [B -> E]
    BY <1>6 DEF h
  <2>3. ASSUME NEW b \in B, NEW o \in B, h[b] = h[o]  PROVE b = o
    <3>1. b < o \/ o < b \/ b = o
      BY <2>1
    <3>2. ~(b < o) /\ ~(o < b)
      BY <1>7, <2>3
    <3> QED  BY <3>1, <3>2
  <2> QED  BY <2>2, <2>3
<1>9. h \in Surjection(B, E)
  <2>1. h \in Injection(B, E)
    BY <1>8 DEF Injection, IsInjective
  <2> QED  BY <1>3, <2>1, FS_Injection
<1>10. \A e \in E : \E b \in B : h[b] = e
  BY <1>9 DEF Surjection
<1>11. ASSUME NEW b \in B  PROVE b \in Covered(c, n) /\ h[b] \in Covered(c, n)
  <2>1. b \in Nat /\ h[b] \in Nat /\ b < h[b] /\ b \in DOMAIN c /\ h[b] \in DOMAIN c /\ h[b] \in E
    BY <1>1, <1>d, <1>e
  <2>2. b \in b..h[b] /\ h[b] \in b..h[b]
    BY <2>1
  <2>3. \A f \in E : f > b => f >= h[b]
    BY <1>6
  <2> QED  BY <1>c, <2>1, <2>2, <2>3
<1> QED  BY <1>10, <1>11 DEF B, E

(* A merge is an edit that takes the covered places out, and puts in       *)
(* nothing or the block.                                                   *)
BlockAt(w, n, gen, new) ==
  \E s \in Nat : /\ new = s..(s + 2) /\ new \subseteq DOMAIN w
                 /\ w[s] = Begin(n) /\ w[s + 1] = Body(n, gen) /\ w[s + 2] = End(n)

LEMMA BlockIs ==
  ASSUME NEW n \in STRING, NEW gen \in Generation
  PROVE  /\ Block(n, gen) \in Seq(Marks) /\ Len(Block(n, gen)) = 3
         /\ Block(n, gen)[1] = Begin(n) /\ Block(n, gen)[2] = Body(n, gen) /\ Block(n, gen)[3] = End(n)
<1>1. PICK b \in Marks, o \in Marks, e \in Marks : b = Begin(n) /\ o = Body(n, gen) /\ e = End(n)
  BY MarksDiffer
<1>2. Block(n, gen) = <<b, o, e>>
  BY <1>1 DEF Block
<1>3. /\ <<b, o, e>> \in Seq(Marks) /\ Len(<<b, o, e>>) = 3
      /\ <<b, o, e>>[1] = b /\ <<b, o, e>>[2] = o /\ <<b, o, e>>[3] = e
  OBVIOUS
<1> QED  BY <1>1, <1>2, <1>3

(* Nothing is edited.                                                      *)
LEMMA Unedited ==
  ASSUME NEW c \in Seq(Marks)
  PROVE  \E g : EditOf(c, c, {}, {}, g)
<1>1. EditOf(c, c, {}, {}, [i \in DOMAIN c |-> i])
  BY DEF EditOf
<1> QED  BY <1>1

(* The block goes to the end.                                              *)
LEMMA AppendEdit ==
  ASSUME NEW c \in Seq(Marks), NEW n \in STRING, NEW gen \in Generation, NEW w, w = c \o Block(n, gen)
  PROVE  w \in Seq(Marks) /\ \E new, g : EditOf(c, w, {}, new, g) /\ BlockAt(w, n, gen, new)
<1>1. PICK l \in Nat : l = Len(c) /\ DOMAIN c = 1..l
  OBVIOUS
<1>2. PICK blk : /\ blk = Block(n, gen) /\ blk \in Seq(Marks) /\ Len(blk) = 3
                 /\ blk[1] = Begin(n) /\ blk[2] = Body(n, gen) /\ blk[3] = End(n)
  BY BlockIs
<1>3. w \in Seq(Marks) /\ DOMAIN w = 1..(l + 3)
  <2>0. w = c \o blk /\ blk \in Seq(Marks)
    BY <1>2
  <2>1. w \in Seq(Marks) /\ DOMAIN w = 1..(Len(c) + Len(blk))
    BY <2>0, Joined
  <2> QED  BY <1>1, <1>2, <2>1
<1>4. \A i \in 1..l : w[i] = c[i]
  <2>0. w = c \o blk /\ blk \in Seq(Marks)
    BY <1>2
  <2>1. ASSUME NEW i \in 1..Len(c)  PROVE w[i] = c[i]
    BY <2>0, Joined
  <2> QED  BY <1>1, <2>1
<1>5. \A i \in 1..3 : w[l + i] = blk[i]
  <2>0. w = c \o blk /\ blk \in Seq(Marks)
    BY <1>2
  <2>1. ASSUME NEW i \in 1..Len(blk)  PROVE w[Len(c) + i] = blk[i]
    BY <2>0, Joined
  <2> QED  BY <1>1, <1>2, <2>1
<1> DEFINE new == (l + 1)..(l + 3)
           g == [i \in DOMAIN c |-> i]
<1>6. EditOf(c, w, {}, new, g)
  <2>1. g \in [DOMAIN c \ {} -> DOMAIN w \ new]
    BY <1>1, <1>3
  <2>2. \A k \in DOMAIN w \ new : k \in DOMAIN c
    BY <1>1, <1>3
  <2>3. \A i, j \in DOMAIN c : (i..j) \cap new = {}
    BY <1>1
  <2>4. \A i \in DOMAIN c \ {} : i \in DOMAIN c /\ g[i] = i /\ w[g[i]] = c[i]
    BY <1>1, <1>4
  <2> HIDE DEF g, new
  <2> QED  BY <2>1, <2>2, <2>3, <2>4 DEF EditOf
<1>7. BlockAt(w, n, gen, new)
  <2>1. l + 1 + 2 = l + 3 /\ l + 1 + 1 = l + 2 /\ l + 1 \in Nat /\ new \subseteq DOMAIN w
    BY <1>3
  <2>2. w[l + 1] = Begin(n) /\ w[l + 2] = Body(n, gen) /\ w[l + 3] = End(n)
    <3>1. 1 \in 1..3 /\ 2 \in 1..3 /\ 3 \in 1..3
      OBVIOUS
    <3> QED  BY <1>2, <1>5, <3>1
  <2> QED  BY <2>1, <2>2 DEF BlockAt
<1> QED  BY <1>3, <1>6, <1>7

(* Without takes the covered places out.                                   *)
LEMMA WithoutEdit ==
  ASSUME NEW c \in Seq(Marks), NEW n, NEW first \in Seq(Marks), Covered(c, n) # {},
         NEW w, w = Without(c, n, first)
  PROVE  /\ w \in Seq(Marks)
         /\ \E start \in Nat : \E g :
              /\ EditOf(c, w, Covered(c, n), start..(start - 1 + Len(first)), g)
              /\ StandsAt(first, w, start)
<1> DEFINE gone == Covered(c, n)
<1>1. PICK start, after : Splice(c, gone, first, start, after, w)
  BY DEF Without, Splice
<1>2. gone \in SUBSET (1..Len(c)) /\ gone # {}
  BY CoveredPlaces
<1> HIDE DEF gone
<1>3. w \in Seq(Marks) /\ start \in gone
  BY <1>1, <1>2, SpliceEdit
<1>4. StandsAt(first, w, start)
  BY <1>1, <1>2, SpliceEdit
<1>5. \E g : EditOf(c, w, gone, start..(start - 1 + Len(first)), g)
  BY <1>1, <1>2, SpliceEdit
<1>6. start \in Nat
  BY <1>2, <1>3
<1> QED  BY <1>3, <1>4, <1>5, <1>6 DEF gone

(* What the merge of a Markdown block does, when it does not refuse.       *)
LEMMA BlockEdit ==
  ASSUME NEW c \in Seq(Marks), NEW n \in STRING, NEW gen \in Generation,
         NEW w, w = MergeBlock(c, n, gen), w # Refused
  PROVE  /\ w \in Seq(Marks) /\ Balanced(c, n) /\ InOrder(c, n)
         /\ \E new, g : EditOf(c, w, Covered(c, n), new, g) /\ BlockAt(w, n, gen, new)
<1>1. Balanced(c, n) /\ InOrder(c, n)
  BY DEF MergeBlock
<1>2. CASE Places(c, Begin(n)) = {}
  <2>1. w = c \o Block(n, gen)
    BY <1>1, <1>2 DEF MergeBlock
  <2>2. Covered(c, n) = {}
    BY <1>2 DEF Covered
  <2> QED  BY <1>1, <2>1, <2>2, AppendEdit
<1>3. CASE Places(c, Begin(n)) # {}
  <2>1. w = Without(c, n, Block(n, gen))
    BY <1>1, <1>3 DEF MergeBlock
  <2>2. Covered(c, n) # {}
    BY <1>1, <1>3, MarkersCovered
  <2>3. PICK blk : /\ blk = Block(n, gen) /\ blk \in Seq(Marks) /\ Len(blk) = 3
                   /\ blk[1] = Begin(n) /\ blk[2] = Body(n, gen) /\ blk[3] = End(n)
    BY BlockIs
  <2>a. w = Without(c, n, blk) /\ blk \in Seq(Marks)
    BY <2>1, <2>3
  <2>4. w \in Seq(Marks)
    BY <2>2, <2>a, WithoutEdit
  <2>b. PICK start \in Nat : \E g : /\ EditOf(c, w, Covered(c, n), start..(start - 1 + Len(blk)), g)
                                    /\ StandsAt(blk, w, start)
    BY <2>2, <2>a, WithoutEdit
  <2>5. PICK g : /\ EditOf(c, w, Covered(c, n), start..(start - 1 + Len(blk)), g)
                 /\ StandsAt(blk, w, start)
    BY <2>b
  <2>6. \A i \in 1..3 : start - 1 + i \in DOMAIN w /\ w[start - 1 + i] = blk[i]
    BY <2>3, <2>5 DEF StandsAt
  <2>7. start - 1 + 1 = start /\ start - 1 + 2 = start + 1 /\ start - 1 + 3 = start + 2
    OBVIOUS
  <2>8. start..(start - 1 + Len(blk)) = start..(start + 2)
    BY <2>3, <2>7
  <2>9. /\ start \in DOMAIN w /\ start + 1 \in DOMAIN w /\ start + 2 \in DOMAIN w
        /\ w[start] = Begin(n) /\ w[start + 1] = Body(n, gen) /\ w[start + 2] = End(n)
    <3>1. 1 \in 1..3 /\ 2 \in 1..3 /\ 3 \in 1..3
      OBVIOUS
    <3> QED  BY <2>3, <2>6, <2>7, <3>1
  <2>10. \A k \in start..(start + 2) : k = start \/ k = start + 1 \/ k = start + 2
    OBVIOUS
  <2>11. BlockAt(w, n, gen, start..(start + 2))
    BY <2>9, <2>10 DEF BlockAt
  <2> QED  BY <1>1, <2>4, <2>5, <2>8, <2>11
<1> QED  BY <1>2, <1>3

(* What the removal does, when it does not refuse.                         *)
LEMMA RemovalEdit ==
  ASSUME NEW c \in Seq(Marks), NEW n, NEW w, w = RemoveBlock(c, n), w # Refused
  PROVE  w \in Seq(Marks) /\ Balanced(c, n) /\ \E g : EditOf(c, w, Covered(c, n), {}, g)
<1>1. Balanced(c, n) /\ w = Without(c, n, <<>>)
  BY DEF RemoveBlock
<1>2. CASE Covered(c, n) = {}
  <2>1. w = c
    BY <1>1, <1>2 DEF Without
  <2> QED  BY <1>1, <1>2, <2>1, Unedited
<1>3. CASE Covered(c, n) # {}
  <2>1. <<>> \in Seq(Marks) /\ Len(<<>>) = 0
    OBVIOUS
  <2>2. w \in Seq(Marks)
    BY <1>1, <1>3, <2>1, WithoutEdit
  <2>a. PICK start \in Nat : \E g : EditOf(c, w, Covered(c, n), start..(start - 1 + Len(<<>>)), g)
    BY <1>1, <1>3, <2>1, WithoutEdit
  <2>3. PICK g : EditOf(c, w, Covered(c, n), start..(start - 1 + Len(<<>>)), g)
    BY <2>a
  <2>4. start..(start - 1 + Len(<<>>)) = {}
    BY <2>1
  <2> QED  BY <1>1, <2>2, <2>3, <2>4
<1> QED  BY <1>2, <1>3

-----------------------------------------------------------------------------
(* What an edit of one name's blocks does to the markers and texts of all. *)
MergeEdit(c, w, n, gen, new, g) ==
  /\ EditOf(c, w, Covered(c, n), new, g)
  /\ new = {} \/ (BlockAt(w, n, gen, new) /\ Balanced(c, n) /\ InOrder(c, n))

(* What stays of a mark is found again, and nothing else but the block's.  *)
LEMMA MarkTo ==
  ASSUME NEW c \in Seq(Marks), NEW w \in Seq(Marks), NEW gone, NEW new, NEW g, EditOf(c, w, gone, new, g),
         NEW x, NEW i \in Places(c, x), i \notin gone
  PROVE  i \in DOMAIN c \ gone /\ c[i] = x /\ g[i] \in Places(w, x) /\ g[i] \in DOMAIN w \ new
<1>1. i \in DOMAIN c \ gone /\ c[i] = x
  BY DEF Places
<1>2. g[i] \in DOMAIN w \ new /\ w[g[i]] = x
  BY <1>1 DEF EditOf
<1> QED  BY <1>1, <1>2 DEF Places

LEMMA MarkFrom ==
  ASSUME NEW c \in Seq(Marks), NEW w \in Seq(Marks), NEW n, NEW gen, NEW new, NEW g,
         MergeEdit(c, w, n, gen, new, g), NEW m, NEW x \in {Begin(m), End(m)}, NEW k \in Places(w, x)
  PROVE  \/ \E i \in Places(c, x) \ Covered(c, n) : g[i] = k
         \/ m = n /\ k \in new
<1>1. k \in DOMAIN w /\ w[k] = x
  BY DEF Places
<1>2. CASE k \notin new
  <2>1. PICK i \in DOMAIN c \ Covered(c, n) : g[i] = k /\ w[g[i]] = c[i]
    BY <1>1, <1>2 DEF MergeEdit, EditOf
  <2>2. i \in Places(c, x)
    BY <1>1, <2>1 DEF Places
  <2> QED  BY <2>1, <2>2
<1>3. CASE k \in new
  <2>1. PICK s \in Nat : /\ new = s..(s + 2)
                         /\ w[s] = Begin(n) /\ w[s + 1] = Body(n, gen) /\ w[s + 2] = End(n)
    BY <1>3 DEF MergeEdit, BlockAt
  <2>2. k = s \/ k = s + 1 \/ k = s + 2
    BY <1>3, <2>1
  <2>3. w[k] \in {Begin(n), Body(n, gen), End(n)}
    BY <2>1, <2>2
  <2>4. m = n
    BY <1>1, <2>3, MarksDiffer
  <2> QED  BY <1>3, <2>4
<1> QED  BY <1>2, <1>3

(* What was between no two markers is not between two now.                 *)
LEMMA NotBetween ==
  ASSUME NEW c \in Seq(Marks), NEW w \in Seq(Marks), NEW n, NEW gen, NEW new, NEW g,
         MergeEdit(c, w, n, gen, new, g), NEW m, NEW i \in DOMAIN c \ Covered(c, n), i \notin Between(c, m)
  PROVE  g[i] \notin Between(w, m)
<1> SUFFICES ASSUME g[i] \in Between(w, m)  PROVE FALSE
  OBVIOUS
<1>1. PICK k \in Places(w, Begin(m)), l \in Places(w, End(m)) : g[i] \in k..l
  BY DEF Between
<1>2. EditOf(c, w, Covered(c, n), new, g)
  BY DEF MergeEdit
<1>3. \/ \E b \in Places(c, Begin(m)) \ Covered(c, n) : g[b] = k
      \/ m = n /\ k \in new
  BY MarkFrom
<1>4. \/ \E e \in Places(c, End(m)) \ Covered(c, n) : g[e] = l
      \/ m = n /\ l \in new
  BY MarkFrom
<1>5. CASE \E b \in Places(c, Begin(m)) \ Covered(c, n) : \E e \in Places(c, End(m)) \ Covered(c, n) :
             g[b] = k /\ g[e] = l
  <2>1. PICK b \in Places(c, Begin(m)) \ Covered(c, n), e \in Places(c, End(m)) \ Covered(c, n) :
          g[b] = k /\ g[e] = l
    BY <1>5
  <2>2. b \in DOMAIN c \ Covered(c, n) /\ e \in DOMAIN c \ Covered(c, n)
    BY DEF Places
  <2>3. b <= i /\ i <= e /\ b \in Nat /\ e \in Nat /\ i \in Nat
    <3>1. g[i] \in Nat /\ k \in Nat /\ l \in Nat /\ b \in Nat /\ e \in Nat /\ i \in Nat
      BY <1>2, <2>1, <2>2, EditOrder
    <3>2. k <= g[i] /\ g[i] <= l
      BY <1>1, <3>1
    <3>3. (b <= i <=> g[b] <= g[i]) /\ (i <= e <=> g[i] <= g[e])
      BY <1>2, <2>2, EditOrder
    <3> QED  BY <2>1, <3>1, <3>2, <3>3
  <2>4. i \in b..e
    BY <2>3
  <2> QED  BY <2>4 DEF Between
<1>6. CASE m = n /\ new # {}
  <2>1. /\ Places(c, Begin(n)) \subseteq Covered(c, n) /\ Places(c, End(n)) \subseteq Covered(c, n)
    BY <1>6, MarkersCovered DEF MergeEdit
  <2>2. k \in new /\ l \in new
    BY <1>3, <1>4, <1>6, <2>1
  <2>3. PICK s \in Nat : new = s..(s + 2)
    BY <1>6 DEF MergeEdit, BlockAt
  <2>4. g[i] \in new
    BY <1>1, <2>2, <2>3
  <2> QED  BY <1>2, <2>4 DEF EditOf
<1> QED  BY <1>3, <1>4, <1>5, <1>6

(* The blocks of another name stay as they are.                            *)
LEMMA OthersKept ==
  ASSUME NEW c \in Seq(Marks), NEW w \in Seq(Marks), NEW n, NEW gen, NEW new, NEW g,
         MergeEdit(c, w, n, gen, new, g), NEW m, m # n, Balanced(c, m), InOrder(c, m),
         Covered(c, m) \cap Covered(c, n) = {}
  PROVE  /\ \A x \in {Begin(m), End(m)} :
              /\ \A i \in Places(c, x) : i \in DOMAIN c \ Covered(c, n) /\ g[i] \in Places(w, x)
              /\ \A k \in Places(w, x) : \E i \in Places(c, x) : g[i] = k
         /\ InOrder(w, m)
         /\ \A i \in Covered(c, m) : i \in DOMAIN c \ Covered(c, n) /\ g[i] \in Covered(w, m)
         /\ \A k \in Covered(w, m) : \E i \in Covered(c, m) : g[i] = k
<1> DEFINE gone == Covered(c, n)
           rest == DOMAIN c \ gone
<1>1. EditOf(c, w, gone, new, g)
  BY DEF MergeEdit
<1>2. \A x \in {Begin(m), End(m)} : \A i \in Places(c, x) : i \in rest /\ g[i] \in Places(w, x)
  <2> SUFFICES ASSUME NEW x \in {Begin(m), End(m)}, NEW i \in Places(c, x)
               PROVE  i \in rest /\ g[i] \in Places(w, x)
    OBVIOUS
  <2>1. i \in Covered(c, m)
    BY MarkersCovered
  <2>2. i \notin gone
    BY <2>1
  <2> QED  BY <1>1, <2>2, MarkTo
<1>3. \A x \in {Begin(m), End(m)} : \A k \in Places(w, x) : \E i \in Places(c, x) : g[i] = k
  BY MarkFrom
<1>4. ASSUME NEW i \in Covered(c, m)  PROVE i \in rest
  BY DEF Covered
<1>o. ASSUME NEW i \in rest, NEW j \in rest
      PROVE  /\ i \in Nat /\ j \in Nat /\ g[i] \in Nat /\ g[j] \in Nat
             /\ (i < j <=> g[i] < g[j]) /\ (i <= j <=> g[i] <= g[j]) /\ (i = j <=> g[i] = g[j])
  BY <1>1, EditOrder
<1>e. EditOf(c, w, gone, new, g) => /\ g \in [rest -> DOMAIN w \ new]
                                    /\ \A k \in DOMAIN w \ new : \E i \in rest : g[i] = k
                                    /\ \A i, j \in rest : (i..j) \cap gone = {} => (g[i]..g[j]) \cap new = {}
  BY DEF EditOf
<1> HIDE DEF rest, gone
<1>5. InOrder(w, m)
  <2> SUFFICES ASSUME NEW k \in Places(w, Begin(m))
               PROVE  \E l \in Places(w, End(m)) : k < l /\ \A o \in Places(w, Begin(m)) : o \in k..l => o = k
    BY DEF InOrder
  <2>1. PICK i \in Places(c, Begin(m)) : g[i] = k
    BY <1>3
  <2>2. PICK e \in Places(c, End(m)) : i < e /\ \A o \in Places(c, Begin(m)) : o \in i..e => o = i
    BY DEF InOrder
  <2>3. g[e] \in Places(w, End(m)) /\ i \in rest /\ e \in rest
    BY <1>2
  <2>4. k < g[e]
    BY <1>o, <2>1, <2>2, <2>3
  <2>5. ASSUME NEW o \in Places(w, Begin(m)), o \in k..g[e]  PROVE o = k
    <3>1. PICK j \in Places(c, Begin(m)) : g[j] = o
      BY <1>3
    <3>2. j \in rest
      BY <1>2
    <3>3. k \in Nat /\ g[e] \in Nat /\ o \in Nat
      BY <1>o, <2>1, <2>3, <3>1, <3>2
    <3>4. g[i] <= g[j] /\ g[j] <= g[e]
      BY <2>1, <2>5, <3>1, <3>3
    <3>5. i <= j /\ j <= e /\ i \in Nat /\ j \in Nat /\ e \in Nat
      BY <1>o, <2>3, <3>2, <3>4
    <3>6. j = i
      BY <2>2, <3>5
    <3> QED  BY <2>1, <3>1, <3>6
  <2> QED  BY <2>3, <2>4, <2>5
<1>6. ASSUME NEW i \in Covered(c, m)  PROVE i \in rest /\ g[i] \in Covered(w, m)
  <2>1. PICK b \in Places(c, Begin(m)), e \in Places(c, End(m)) :
          i \in b..e /\ \A f \in Places(c, End(m)) : f > b => f >= e
    BY DEF Covered
  <2>2. b \in rest /\ e \in rest /\ i \in rest /\ g[b] \in Places(w, Begin(m)) /\ g[e] \in Places(w, End(m))
    BY <1>2, <1>4
  <2>3. g[i] \in g[b]..g[e]
    <3>1. b \in Nat /\ e \in Nat /\ i \in Nat /\ g[i] \in Nat /\ g[b] \in Nat /\ g[e] \in Nat
      BY <1>o, <2>2
    <3>2. b <= i /\ i <= e
      BY <2>1, <3>1
    <3>3. g[b] <= g[i] /\ g[i] <= g[e]
      BY <1>o, <2>2, <3>2
    <3> QED  BY <3>1, <3>3
  <2>4. ASSUME NEW k \in Places(w, End(m)), k > g[b]  PROVE k >= g[e]
    <3>1. PICK f \in Places(c, End(m)) : g[f] = k
      BY <1>3
    <3>2. f \in rest
      BY <1>2
    <3>3. f > b
      BY <1>o, <2>2, <2>4, <3>1, <3>2
    <3>4. f >= e
      BY <2>1, <3>3
    <3>5. g[e] <= g[f]
      BY <1>o, <2>2, <3>2, <3>4
    <3> QED  BY <1>o, <2>2, <3>1, <3>2, <3>5
  <2>5. g[i] \in DOMAIN w
    BY <1>1, <1>e, <2>2
  <2> QED  BY <2>2, <2>3, <2>4, <2>5 DEF Covered
<1>7. ASSUME NEW k \in Covered(w, m)  PROVE \E i \in Covered(c, m) : g[i] = k
  <2>1. PICK bw \in Places(w, Begin(m)), ew \in Places(w, End(m)) :
          k \in DOMAIN w /\ k \in bw..ew /\ \A f \in Places(w, End(m)) : f > bw => f >= ew
    BY DEF Covered
  <2>2. PICK b \in Places(c, Begin(m)) : g[b] = bw
    BY <1>3
  <2>3. PICK e \in Places(c, End(m)) : g[e] = ew
    BY <1>3
  <2>4. b \in rest /\ e \in rest
    BY <1>2
  <2>5. ASSUME NEW f \in Places(c, End(m)), f > b  PROVE f >= e
    <3>1. f \in rest /\ g[f] \in Places(w, End(m))
      BY <1>2
    <3>2. g[f] > bw
      BY <1>o, <2>2, <2>4, <2>5, <3>1
    <3>3. g[f] >= ew
      BY <2>1, <3>1, <3>2
    <3> QED  BY <1>o, <2>3, <2>4, <3>1, <3>3
  <2>6. ASSUME NEW i \in b..e  PROVE i \in Covered(c, m)
    <3>1. i \in DOMAIN c
      <4>1. b \in DOMAIN c /\ e \in DOMAIN c
        BY DEF Places
      <4> QED  BY <4>1
    <3> QED  BY <2>5, <3>1 DEF Covered
  <2>7. (bw..ew) \cap new = {}
    <3>1. (b..e) \cap gone = {}
      BY <1>4, <2>6 DEF rest
    <3> QED  BY <1>1, <1>e, <2>2, <2>3, <2>4, <3>1
  <2>8. PICK i \in rest : g[i] = k
    BY <1>1, <1>e, <2>1, <2>7
  <2>9. i \in b..e
    <3>1. b \in Nat /\ e \in Nat /\ i \in Nat /\ k \in Nat /\ bw \in Nat /\ ew \in Nat
      BY <1>o, <2>2, <2>3, <2>4, <2>8
    <3>2. bw <= k /\ k <= ew
      BY <2>1, <3>1
    <3>3. b <= i /\ i <= e
      BY <1>o, <2>2, <2>3, <2>4, <2>8, <3>2
    <3> QED  BY <3>1, <3>3
  <2> QED  BY <2>6, <2>8, <2>9
<1> QED  BY <1>2, <1>3, <1>5, <1>6, <1>7 DEF rest, gone

(* Of the edited name there is the new block, or nothing.                  *)
NewBlock(w, n, gen, new) ==
  \/ new = {} /\ Places(w, Begin(n)) = {}
  \/ \E s \in Nat : /\ Places(w, Begin(n)) = {s} /\ Places(w, End(n)) = {s + 2}
                    /\ w[s + 1] = Body(n, gen) /\ new = s..(s + 2)

LEMMA OwnBlocks ==
  ASSUME NEW c \in Seq(Marks), NEW w \in Seq(Marks), NEW n, NEW gen, NEW new, NEW g,
         MergeEdit(c, w, n, gen, new, g), Balanced(c, n), InOrder(c, n)
  PROVE  /\ Balanced(w, n) /\ InOrder(w, n) /\ Covered(w, n) = new
         /\ NewBlock(w, n, gen, new)
<1>1. /\ Places(c, Begin(n)) \subseteq Covered(c, n) /\ Places(c, End(n)) \subseteq Covered(c, n)
  BY MarkersCovered
<1>2. ASSUME NEW x \in {Begin(n), End(n)}  PROVE Places(w, x) \subseteq new
  <2> SUFFICES ASSUME NEW k \in Places(w, x)  PROVE k \in new
    OBVIOUS
  <2>1. ~ \E i \in Places(c, x) \ Covered(c, n) : g[i] = k
    BY <1>1
  <2> QED  BY <2>1, MarkFrom
<1>3. CASE new = {}
  <2>1. Places(w, Begin(n)) = {} /\ Places(w, End(n)) = {}
    BY <1>2, <1>3
  <2> QED  BY <1>3, <2>1 DEF Balanced, InOrder, Covered, NewBlock
<1>4. CASE new # {}
  <2>1. PICK s \in Nat : /\ new = s..(s + 2) /\ new \subseteq DOMAIN w
                         /\ w[s] = Begin(n) /\ w[s + 1] = Body(n, gen) /\ w[s + 2] = End(n)
    BY <1>4 DEF MergeEdit, BlockAt
  <2>2. /\ s \in new /\ s + 1 \in new /\ s + 2 \in new /\ s < s + 2
        /\ \A k \in new : k = s \/ k = s + 1 \/ k = s + 2
    BY <2>1
  <2>3. Places(w, Begin(n)) = {s}
    <3>1. s \in Places(w, Begin(n))
      BY <2>1, <2>2 DEF Places
    <3>2. \A k \in Places(w, Begin(n)) : k \in new /\ w[k] = Begin(n)
      BY <1>2 DEF Places
    <3>3. \A k \in Places(w, Begin(n)) : k = s
      BY <2>1, <2>2, <3>2, MarksDiffer
    <3> QED  BY <3>1, <3>3
  <2>4. Places(w, End(n)) = {s + 2}
    <3>1. s + 2 \in Places(w, End(n))
      BY <2>1, <2>2 DEF Places
    <3>2. \A k \in Places(w, End(n)) : k \in new /\ w[k] = End(n)
      BY <1>2 DEF Places
    <3>3. \A k \in Places(w, End(n)) : k = s + 2
      BY <2>1, <2>2, <3>2, MarksDiffer
    <3> QED  BY <3>1, <3>3
  <2>5. Balanced(w, n)
    BY <2>3, <2>4, FS_Singleton DEF Balanced
  <2>6. InOrder(w, n)
    BY <2>2, <2>3, <2>4 DEF InOrder
  <2>7. Covered(w, n) = new
    <3>1. s + 2 > s /\ s + 2 >= s + 2
      OBVIOUS
    <3>2. Covered(w, n) = {i \in DOMAIN w : i \in s..(s + 2)}
      BY <2>3, <2>4, <3>1 DEF Covered
    <3> QED  BY <2>1, <3>2
  <2> QED  BY <2>1, <2>3, <2>4, <2>5, <2>6, <2>7 DEF NewBlock
<1> QED  BY <1>3, <1>4

(* Another name's markers stay balanced.                                   *)
LEMMA BalanceKept ==
  ASSUME NEW c \in Seq(Marks), NEW w \in Seq(Marks), NEW n, NEW gen, NEW new, NEW g,
         MergeEdit(c, w, n, gen, new, g), NEW m, m # n, Balanced(c, m), InOrder(c, m),
         Covered(c, m) \cap Covered(c, n) = {}
  PROVE  Balanced(w, m)
<1>1. PICK l \in Nat, k \in Nat : DOMAIN c = 1..l /\ DOMAIN w = 1..k
  OBVIOUS
<1>2. ASSUME NEW x \in {Begin(m), End(m)}  PROVE Cardinality(Places(c, x)) = Cardinality(Places(w, x))
  <2> DEFINE P == Places(c, x)
             Q == Places(w, x)
             h == [i \in P |-> g[i]]
  <2>1. P \in SUBSET (1..l) /\ Q \in SUBSET (1..k)
    BY <1>1 DEF Places
  <2>2. \A i \in P : i \in DOMAIN c \ Covered(c, n) /\ g[i] \in Q
    BY OthersKept
  <2>3. \A q \in Q : \E i \in P : g[i] = q
    BY OthersKept
  <2>4. \A i \in P : c[i] = x /\ w[g[i]] = x
    BY <2>2 DEF Places
  <2>5. \A i, j \in P : i < j => g[i] < g[j]
    BY <2>2, EditOrder DEF MergeEdit
  <2> HIDE DEF P, Q
  <2>6. Correspond(P, c, Q, w, h)
    BY <2>1, <2>2, <2>3, <2>4, <2>5 DEF Correspond
  <2> HIDE DEF h
  <2>7. Cardinality(P) = Cardinality(Q)
    BY <2>6, SublistsAlike
  <2> QED  BY <2>7 DEF P, Q
<1> QED  BY <1>2 DEF Balanced

(* A well-formed file stays well-formed, with the texts it had.            *)
LEMMA WellFormedKept ==
  ASSUME NEW c \in Seq(Marks), NEW w \in Seq(Marks), NEW names, NEW n \in names, NEW gen, NEW new, NEW g,
         MergeEdit(c, w, n, gen, new, g), WellFormed(c, names)
  PROVE  /\ WellFormed(w, names)
         /\ \A i \in Own(c, names) : i \in DOMAIN c \ Covered(c, n) /\ g[i] \in Own(w, names)
         /\ \A k \in Own(w, names) : \E i \in Own(c, names) : g[i] = k
<1>1. \A m \in names : Balanced(c, m) /\ InOrder(c, m)
  BY DEF WellFormed
<1>2. \A m, o \in names : m # o => Covered(c, m) \cap Covered(c, o) = {}
  BY DEF WellFormed
<1>3. EditOf(c, w, Covered(c, n), new, g)
  BY DEF MergeEdit
<1>4. Balanced(w, n) /\ InOrder(w, n) /\ Covered(w, n) = new
  BY <1>1, OwnBlocks
<1>5. ASSUME NEW m \in names, m # n
      PROVE  /\ Balanced(w, m) /\ InOrder(w, m)
             /\ \A i \in Covered(c, m) : i \in DOMAIN c \ Covered(c, n) /\ g[i] \in Covered(w, m)
             /\ \A k \in Covered(w, m) : \E i \in Covered(c, m) : g[i] = k
  <2>1. Balanced(c, m) /\ InOrder(c, m) /\ Covered(c, m) \cap Covered(c, n) = {}
    BY <1>1, <1>2, <1>5
  <2>2. Balanced(w, m)
    BY <1>5, <2>1, BalanceKept
  <2>3. InOrder(w, m)
    BY <1>5, <2>1, OthersKept
  <2>4. \A i \in Covered(c, m) : i \in DOMAIN c \ Covered(c, n) /\ g[i] \in Covered(w, m)
    BY <1>5, <2>1, OthersKept
  <2>5. \A k \in Covered(w, m) : \E i \in Covered(c, m) : g[i] = k
    BY <1>5, <2>1, OthersKept
  <2> QED  BY <2>2, <2>3, <2>4, <2>5
<1>6. \A i \in DOMAIN c \ Covered(c, n) : g[i] \in DOMAIN w \ new /\ w[g[i]] = c[i]
  BY <1>3 DEF EditOf
<1>7. \A i, j \in DOMAIN c \ Covered(c, n) : g[i] = g[j] => i = j
  BY <1>3, EditOrder
<1>8. ASSUME NEW m \in names, NEW o \in names, m # o  PROVE Covered(w, m) \cap Covered(w, o) = {}
  <2> SUFFICES ASSUME NEW k, k \in Covered(w, m), k \in Covered(w, o)  PROVE FALSE
    OBVIOUS
  <2>1. CASE m # n /\ o # n
    <3>1. PICK i \in Covered(c, m) : g[i] = k /\ i \in DOMAIN c \ Covered(c, n)
      BY <1>5, <2>1
    <3>2. PICK j \in Covered(c, o) : g[j] = k /\ j \in DOMAIN c \ Covered(c, n)
      BY <1>5, <2>1
    <3> QED  BY <1>2, <1>7, <1>8, <3>1, <3>2
  <2>2. CASE m = n
    <3>1. PICK j \in Covered(c, o) : g[j] = k /\ j \in DOMAIN c \ Covered(c, n)
      BY <1>5, <1>8, <2>2
    <3> QED  BY <1>4, <1>6, <2>2, <3>1
  <2>3. CASE o = n
    <3>1. PICK j \in Covered(c, m) : g[j] = k /\ j \in DOMAIN c \ Covered(c, n)
      BY <1>5, <1>8, <2>3
    <3> QED  BY <1>4, <1>6, <2>3, <3>1
  <2> QED  BY <2>1, <2>2, <2>3
<1>9. WellFormed(w, names)
  BY <1>4, <1>5, <1>8 DEF WellFormed
<1>a. ASSUME NEW x \in {c, w}
      PROVE Own(x, names) = {i \in DOMAIN x : x[i].at = "text" /\ \A m \in names : i \notin Covered(x, m)}
  BY <1>9 DEF Own
<1>b. ASSUME NEW i \in Own(c, names)  PROVE i \in DOMAIN c \ Covered(c, n) /\ g[i] \in Own(w, names)
  <2>1. /\ i \in DOMAIN c /\ c[i].at = "text" /\ \A m \in names : i \notin Covered(c, m)
    BY <1>a
  <2>2. i \in DOMAIN c \ Covered(c, n)
    BY <2>1
  <2>3. g[i] \in DOMAIN w \ new /\ w[g[i]].at = "text"
    BY <1>6, <2>1, <2>2
  <2>4. ASSUME NEW m \in names  PROVE g[i] \notin Covered(w, m)
    <3>1. CASE m = n
      BY <1>4, <2>3, <3>1
    <3>2. CASE m # n
      <4> SUFFICES ASSUME g[i] \in Covered(w, m)  PROVE FALSE
        OBVIOUS
      <4>1. PICK j \in Covered(c, m) : g[j] = g[i] /\ j \in DOMAIN c \ Covered(c, n)
        BY <1>5, <3>2
      <4> QED  BY <1>7, <2>1, <2>2, <4>1
    <3> QED  BY <3>1, <3>2
  <2> QED  BY <1>a, <2>2, <2>3, <2>4
<1>c. ASSUME NEW k \in Own(w, names)  PROVE \E i \in Own(c, names) : g[i] = k
  <2>1. /\ k \in DOMAIN w /\ w[k].at = "text" /\ \A m \in names : k \notin Covered(w, m)
    BY <1>a
  <2>2. k \notin new
    BY <1>4, <2>1
  <2>3. PICK i \in DOMAIN c \ Covered(c, n) : g[i] = k
    BY <1>3, <2>1, <2>2 DEF EditOf
  <2>4. c[i].at = "text"
    BY <1>6, <2>1, <2>3
  <2>5. ASSUME NEW m \in names  PROVE i \notin Covered(c, m)
    <3>1. CASE m = n
      BY <2>3, <3>1
    <3>2. CASE m # n
      BY <1>5, <2>1, <2>3, <3>2
    <3> QED  BY <3>1, <3>2
  <2> QED  BY <1>a, <2>3, <2>4, <2>5
<1> QED  BY <1>9, <1>b, <1>c

(* The texts that are somebody's own, in a file of any form, stay so.      *)
LEMMA OwnKept ==
  ASSUME NEW c \in Seq(Marks), NEW w \in Seq(Marks), NEW names, NEW n \in names, NEW gen, NEW new, NEW g,
         MergeEdit(c, w, n, gen, new, g), NEW i \in Own(c, names)
  PROVE  g[i] \in Own(w, names) /\ w[g[i]] = c[i]
<1>1. EditOf(c, w, Covered(c, n), new, g)
  BY DEF MergeEdit
<1>2. CASE WellFormed(c, names)
  <2>1. i \in DOMAIN c \ Covered(c, n) /\ g[i] \in Own(w, names)
    BY <1>2, WellFormedKept
  <2> QED  BY <1>1, <2>1 DEF EditOf
<1>3. CASE ~WellFormed(c, names)
  <2>1. i \in DOMAIN c /\ c[i].at = "text" /\ \A m \in names : i \notin Between(c, m)
    BY <1>3 DEF Own
  <2>2. i \in DOMAIN c \ Covered(c, n)
    BY <2>1, CoveredPlaces
  <2>3. g[i] \in DOMAIN w /\ w[g[i]] = c[i]
    BY <1>1, <2>2 DEF EditOf
  <2>4. ASSUME NEW m \in names  PROVE g[i] \notin Between(w, m)
    BY <2>1, <2>2, NotBetween
  <2>5. \A m \in names : g[i] \notin Covered(w, m)
    BY <2>4, CoveredPlaces
  <2> QED  BY <2>1, <2>3, <2>4, <2>5 DEF Own
<1> QED  BY <1>2, <1>3

(* The texts of a file are what stands at their places.                    *)
LEMMA TextsAt ==
  ASSUME NEW c \in Seq(Marks), NEW names
  PROVE  Own(c, names) \in SUBSET (1..Len(c)) /\ Range(Outside(c, names)) = {c[i] : i \in Own(c, names)}
<1>1. PICK len \in Nat : len = Len(c) /\ DOMAIN c = 1..len
  OBVIOUS
<1>2. Own(c, names) \in SUBSET (1..len)
  BY <1>1 DEF Own
<1>3. DOMAIN Sublist(c, Own(c, names)) = 1..Cardinality(Own(c, names))
  BY <1>2, SublistHas
<1>4. ASSUME NEW i \in Own(c, names)  PROVE c[i] \in Range(Outside(c, names))
  <2>1. Rank(Own(c, names), i) \in 1..Cardinality(Own(c, names)) /\ Sublist(c, Own(c, names))[Rank(Own(c, names), i)] = c[i]
    BY <1>2, AtRank
  <2> QED  BY <1>3, <2>1 DEF Outside, Range
<1>5. ASSUME NEW k \in 1..Cardinality(Own(c, names))  PROVE \E i \in Own(c, names) : Outside(c, names)[k] = c[i]
  <2>1. PICK i \in Own(c, names) : Rank(Own(c, names), i) = k
    BY <1>2, AtPlace
  <2>2. Sublist(c, Own(c, names))[Rank(Own(c, names), i)] = c[i]
    BY <1>2, AtRank
  <2> QED  BY <2>1, <2>2 DEF Outside
<1>6. \A t \in Range(Outside(c, names)) : \E i \in Own(c, names) : t = c[i]
  BY <1>3, <1>5 DEF Outside, Range
<1> QED  BY <1>1, <1>2, <1>4, <1>6

(* No merge loses a text, and one into a well-formed file keeps them all   *)
(* in their order.                                                         *)
LEMMA TextsKept ==
  ASSUME NEW c \in Seq(Marks), NEW w \in Seq(Marks), NEW names, NEW n \in names, NEW gen, NEW new, NEW g,
         MergeEdit(c, w, n, gen, new, g)
  PROVE  /\ Range(Outside(c, names)) \subseteq Range(Outside(w, names))
         /\ WellFormed(c, names) => Outside(w, names) = Outside(c, names)
<1>1. Range(Outside(c, names)) \subseteq Range(Outside(w, names))
  BY OwnKept, TextsAt
<1>2. ASSUME WellFormed(c, names)  PROVE Outside(w, names) = Outside(c, names)
  <2>0. PICK P, Q : P = Own(c, names) /\ Q = Own(w, names)
    OBVIOUS
  <2>1. PICK l \in Nat, k \in Nat : l = Len(c) /\ k = Len(w)
    OBVIOUS
  <2>2. P \in SUBSET (1..l) /\ Q \in SUBSET (1..k)
    BY <2>0, <2>1, TextsAt
  <2>3. \A i \in P : i \in DOMAIN c \ Covered(c, n) /\ g[i] \in Q
    BY <1>2, <2>0, WellFormedKept
  <2>4. \A q \in Q : \E i \in P : g[i] = q
    BY <1>2, <2>0, WellFormedKept
  <2>5. \A i \in P : w[g[i]] = c[i]
    BY <2>0, OwnKept
  <2>6. \A i, j \in P : i < j => g[i] < g[j]
    BY <2>3, EditOrder DEF MergeEdit
  <2>7. PICK h : Correspond(P, c, Q, w, h)
    <3>1. Correspond(P, c, Q, w, [i \in P |-> g[i]])
      BY <2>2, <2>3, <2>4, <2>5, <2>6 DEF Correspond
    <3> QED  BY <3>1
  <2>8. Sublist(c, P) = Sublist(w, Q)
    BY <2>7, SublistsAlike
  <2> QED  BY <2>0, <2>8 DEF Outside
<1> QED  BY <1>1, <1>2

-----------------------------------------------------------------------------
(* A merge of a Markdown file, other than a refusal, is such an edit.      *)
LEMMA MergeIsEdit ==
  ASSUME NEW n \in STRING, NEW gen \in Generation, NEW c \in Seq(Marks),
         NEW w, w = MergeMarkdown(n, gen, c), w # Refused
  PROVE  /\ w \in Seq(Marks)
         /\ \E new, g : /\ MergeEdit(c, w, n, gen, new, g)
                        /\ new = {} <=> n = Retirement
<1>1. CASE n = Retirement
  <2>1. w = RemoveBlock(c, n)
    BY <1>1 DEF MergeMarkdown
  <2>2. w \in Seq(Marks) /\ \E g : EditOf(c, w, Covered(c, n), {}, g)
    BY <2>1, RemovalEdit
  <2> QED  BY <1>1, <2>2 DEF MergeEdit
<1>2. CASE n # Retirement
  <2>1. w = MergeBlock(c, n, gen)
    BY <1>2 DEF MergeMarkdown
  <2>2. /\ w \in Seq(Marks) /\ Balanced(c, n) /\ InOrder(c, n)
        /\ \E new, g : EditOf(c, w, Covered(c, n), new, g) /\ BlockAt(w, n, gen, new)
    BY <2>1, BlockEdit
  <2>3. PICK new, g : EditOf(c, w, Covered(c, n), new, g) /\ BlockAt(w, n, gen, new)
    BY <2>2
  <2>4. new # {}
    <3>1. PICK s \in Nat : new = s..(s + 2)
      BY <2>3 DEF BlockAt
    <3>2. s \in new
      BY <3>1
    <3> QED  BY <3>2
  <2> QED  BY <1>2, <2>2, <2>3, <2>4 DEF MergeEdit
<1> QED  BY <1>1, <1>2

(* A merge leaves the blocks of the other names as they are.               *)
LEMMA BlockKept ==
  ASSUME NEW c \in Seq(Marks), NEW w \in Seq(Marks), NEW n, NEW gen, NEW new, NEW g,
         MergeEdit(c, w, n, gen, new, g), NEW m, m # n, Balanced(c, m), InOrder(c, m),
         Covered(c, m) \cap Covered(c, n) = {}, NEW old, BlockRight(c, m, old)
  PROVE  BlockRight(w, m, old)
<1> DEFINE gone == Covered(c, n)
           rest == DOMAIN c \ gone
<1>1. PICK i \in DOMAIN c : /\ Places(c, Begin(m)) = {i} /\ Places(c, End(m)) = {i + 2}
                            /\ c[i + 1] = Body(m, old)
  BY DEF BlockRight
<1>2. PICK l \in Nat : DOMAIN c = 1..l
  OBVIOUS
<1>3. i \in 1..l /\ i + 2 \in 1..l /\ i + 1 \in 1..l /\ i \in Nat
  <2>1. i + 2 \in DOMAIN c
    BY <1>1 DEF Places
  <2> QED  BY <1>2, <2>1
<1>4. \A k \in i..(i + 2) : k \in Covered(c, m)
  <2>1. \A k \in i..(i + 2) : k \in DOMAIN c
    BY <1>2, <1>3
  <2>2. \A f \in {i + 2} : f > i => f >= i + 2
    BY <1>3
  <2> QED  BY <1>1, <2>1, <2>2 DEF Covered
<1>5. i \in rest /\ i + 1 \in rest /\ i + 2 \in rest /\ (i..(i + 2)) \cap gone = {}
  <2>1. i \in i..(i + 2) /\ i + 1 \in i..(i + 2) /\ i + 2 \in i..(i + 2)
    BY <1>3
  <2> QED  BY <1>2, <1>3, <1>4, <2>1
<1>6. EditOf(c, w, gone, new, g)
  BY DEF MergeEdit
<1>7. /\ (g[i]..g[i + 2]) \cap new = {}
      /\ \A k \in DOMAIN w \ new : \E j \in rest : g[j] = k
      /\ \A j \in rest : g[j] \in DOMAIN w \ new /\ w[g[j]] = c[j]
  BY <1>5, <1>6 DEF EditOf
<1>o. ASSUME NEW j \in rest, NEW k \in rest
      PROVE  /\ j \in Nat /\ k \in Nat /\ g[j] \in Nat /\ g[k] \in Nat
             /\ (j < k <=> g[j] < g[k]) /\ (j <= k <=> g[j] <= g[k]) /\ (j = k <=> g[j] = g[k])
  BY <1>6, EditOrder
<1> HIDE DEF rest, gone
<1>8. PICK p \in Nat, q \in Nat, r \in Nat : p = g[i] /\ q = g[i + 1] /\ r = g[i + 2] /\ p < q /\ q < r
  <2>1. i < i + 1 /\ i + 1 < i + 2
    BY <1>3
  <2> QED  BY <1>5, <1>o, <2>1
<1>9. PICK lw \in Nat : DOMAIN w = 1..lw
  OBVIOUS
<1>10. p \in 1..lw /\ r \in 1..lw
  BY <1>5, <1>7, <1>8, <1>9
<1>11. ASSUME NEW k \in Nat, p < k, k < r  PROVE k = q
  <2>1. k \in DOMAIN w \ new
    <3>1. k \in p..r /\ k \in 1..lw
      BY <1>10, <1>11
    <3> QED  BY <1>7, <1>8, <1>9, <3>1
  <2>2. PICK j \in rest : g[j] = k
    BY <1>7, <2>1
  <2>3. i < j /\ j < i + 2 /\ j \in Nat
    BY <1>5, <1>8, <1>11, <1>o, <2>2
  <2>4. j = i + 1
    BY <1>3, <2>3
  <2> QED  BY <1>8, <2>2, <2>4
<1>12. q = p + 1 /\ r = p + 2
  <2>1. p + 1 < r
    BY <1>8
  <2>2. q = p + 1
    BY <1>11, <2>1
  <2>3. ~(q + 1 < r)
    <3>1. q + 1 < r => q + 1 = q
      BY <1>8, <1>11
    <3> QED  BY <3>1
  <2> QED  BY SMTT(30), <1>8, <2>2, <2>3
<1>13. \A k : k \in Places(w, Begin(m)) <=> k = p
  <2>1. p \in Places(w, Begin(m))
    BY <1>1, <1>8, OthersKept
  <2>2. \A k \in Places(w, Begin(m)) : \E j \in Places(c, Begin(m)) : g[j] = k
    BY OthersKept
  <2> QED  BY <1>1, <1>8, <2>1, <2>2
<1>14. \A k : k \in Places(w, End(m)) <=> k = r
  <2>1. r \in Places(w, End(m))
    BY SMTT(30), <1>1, <1>8, OthersKept
  <2>2. \A k \in Places(w, End(m)) : \E j \in Places(c, End(m)) : g[j] = k
    BY OthersKept
  <2> QED  BY <1>1, <1>8, <2>1, <2>2
<1>15. w[p + 1] = Body(m, old)
  <2>1. w[g[i + 1]] = c[i + 1]
    BY <1>5, <1>7
  <2> QED  BY <1>1, <1>8, <1>12, <2>1
<1>16. p \in DOMAIN w /\ Places(w, Begin(m)) = {p} /\ Places(w, End(m)) = {p + 2}
  BY <1>9, <1>10, <1>12, <1>13, <1>14
<1> QED  BY <1>15, <1>16 DEF BlockRight

(* A merge does the next job, and undoes none.                             *)
LEMMA NextDone ==
  ASSUME NEW order \in Seq(STRING), NEW gen \in Generation, NEW found, NEW c \in Seq(Marks),
         NEW n \in Nat, n + 1 \in DOMAIN order, DoneBy(order, gen, found, c, n),
         NEW w, w = MergeMarkdown(order[n + 1], gen, c), w # Refused
  PROVE  DoneBy(order, gen, found, w, n + 1)
<1>0. PICK names : names = Range(order) /\ names \subseteq STRING
  <2>1. \A i \in DOMAIN order : order[i] \in STRING
    OBVIOUS
  <2>2. Range(order) \subseteq STRING
    BY <2>1 DEF Range
  <2> QED  BY <2>2
<1>1. PICK name \in names : name = order[n + 1] /\ name \in STRING
  BY <1>0 DEF Range
<1>2. w \in Seq(Marks)
  BY <1>1, MergeIsEdit
<1>3. PICK new, g : MergeEdit(c, w, name, gen, new, g) /\ (new = {} <=> name = Retirement)
  BY <1>1, MergeIsEdit
<1>4. /\ WellFormed(c, names) /\ Outside(c, names) = Outside(found, names)
      /\ \A j \in 1..n : JobDone(c, order[j], gen)
  BY <1>0 DEF DoneBy
<1>5. WellFormed(w, names)
  BY <1>2, <1>3, <1>4, WellFormedKept
<1>6. Outside(w, names) = Outside(found, names)
  BY <1>2, <1>3, <1>4, TextsKept
<1>7. Balanced(c, name) /\ InOrder(c, name)
  BY <1>4 DEF WellFormed
<1>8. JobDone(w, name, gen)
  <2>1. NewBlock(w, name, gen, new)
    BY <1>2, <1>3, <1>7, OwnBlocks
  <2>2. CASE name = Retirement
    <3>1. new = {}
      BY <1>3, <2>2
    <3>2. \A s \in Nat : s \in s..(s + 2)
      OBVIOUS
    <3>3. Places(w, Begin(name)) = {}
      BY <2>1, <3>1, <3>2 DEF NewBlock
    <3> QED  BY <2>2, <3>3 DEF JobDone
  <2>3. CASE name # Retirement
    <3>1. PICK s \in Nat : /\ Places(w, Begin(name)) = {s} /\ Places(w, End(name)) = {s + 2}
                           /\ w[s + 1] = Body(name, gen)
      BY <1>3, <2>1, <2>3 DEF NewBlock
    <3>2. s \in DOMAIN w
      BY <3>1 DEF Places
    <3> QED  BY <2>3, <3>1, <3>2 DEF JobDone, BlockRight
  <2> QED  BY <2>2, <2>3
<1>9. ASSUME NEW j \in 1..n  PROVE JobDone(w, order[j], gen)
  <2>1. PICK m \in names : m = order[j]
    <3>1. j \in DOMAIN order
      <4>1. DOMAIN order = 1..Len(order) /\ Len(order) \in Nat
        OBVIOUS
      <4> QED  BY <4>1
    <3> QED  BY <1>0, <3>1 DEF Range
  <2>2. JobDone(c, m, gen)
    BY <1>4, <2>1
  <2>3. CASE m = name
    BY <1>8, <2>1, <2>3
  <2>4. CASE m # name
    <3>1. Balanced(c, m) /\ InOrder(c, m) /\ Covered(c, m) \cap Covered(c, name) = {}
      BY <1>4, <2>4 DEF WellFormed
    <3>2. CASE m = Retirement
      <4>1. Places(c, Begin(m)) = {}
        BY <2>2, <3>2 DEF JobDone
      <4>2. \A k \in Places(w, Begin(m)) : \E i \in Places(c, Begin(m)) : g[i] = k
        BY <1>2, <1>3, <2>4, <3>1, OthersKept
      <4>3. Places(w, Begin(m)) = {}
        BY <4>1, <4>2
      <4> QED  BY <2>1, <3>2, <4>3 DEF JobDone
    <3>3. CASE m # Retirement
      <4>1. BlockRight(c, m, gen)
        BY <2>2, <3>3 DEF JobDone
      <4>2. BlockRight(w, m, gen)
        BY <1>2, <1>3, <2>4, <3>1, <4>1, BlockKept
      <4> QED  BY <2>1, <3>3, <4>2 DEF JobDone
    <3> QED  BY <3>2, <3>3
  <2> QED  BY <2>3, <2>4
<1>10. \A j \in 1..(n + 1) : j \in 1..n \/ j = n + 1
  OBVIOUS
<1> QED  BY <1>0, <1>1, <1>5, <1>6, <1>8, <1>9, <1>10 DEF DoneBy

(* What a merge has put into place, another of its generation leaves. *)
LEMMA MergeSettles ==
  ASSUME NEW n \in STRING, NEW gen \in Generation, NEW c \in Seq(Marks),
         Balanced(c, n), InOrder(c, n), JobDone(c, n, gen)
  PROVE  MergeMarkdown(n, gen, c) = c
<1>1. CASE n = Retirement
  <2>1. Covered(c, n) = {}
    BY <1>1 DEF JobDone, Covered
  <2> QED  BY <1>1, <2>1 DEF MergeMarkdown, RemoveBlock, Without
<1>2. CASE n # Retirement
  <2>1. PICK s \in DOMAIN c : /\ Places(c, Begin(n)) = {s} /\ Places(c, End(n)) = {s + 2}
                              /\ c[s + 1] = Body(n, gen)
    BY <1>2 DEF JobDone, BlockRight
  <2>2. PICK l \in Nat : l = Len(c) /\ DOMAIN c = 1..l
    OBVIOUS
  <2>3. s \in Nat /\ s >= 1 /\ s + 2 <= l /\ c[s] = Begin(n) /\ c[s + 2] = End(n)
    <3>1. s \in Places(c, Begin(n)) /\ s + 2 \in Places(c, End(n))
      BY <2>1
    <3>2. s + 2 \in 1..l
      BY <2>2, <3>1 DEF Places
    <3>3. c[s] = Begin(n) /\ c[s + 2] = End(n)
      BY <3>1 DEF Places
    <3>4. s \in 1..l
      BY <2>2
    <3> QED  BY <3>2, <3>3, <3>4
  <2>4. Covered(c, n) = s..(s + 2)
    <3>1. \A i \in s..(s + 2) : i \in DOMAIN c
      BY <2>2, <2>3
    <3>2. \A f \in {s + 2} : f > s => f >= s + 2
      BY <2>3
    <3> QED  BY <2>1, <3>1, <3>2 DEF Covered
  <2>5. PICK d \in Nat : s = d + 1 /\ s - 1 = d /\ d + 3 <= l
    <3>1. s - 1 \in Nat /\ s = s - 1 + 1 /\ s - 1 + 3 <= l
      BY <2>3
    <3> QED  BY <3>1
  <2>6. Min(s..(s + 2)) = s
    <3>1. s..(s + 2) \in SUBSET (1..l) /\ s \in s..(s + 2)
      BY <2>3
    <3>2. Min(s..(s + 2)) \in s..(s + 2) /\ \A j \in s..(s + 2) : Min(s..(s + 2)) <= j
      BY <3>1, MinIsFirst
    <3>3. PICK m \in s..(s + 2) : m = Min(s..(s + 2)) /\ m <= s
      BY <3>1, <3>2
    <3> QED  BY <2>3, <3>3
  <2>7. {i \in DOMAIN c : i > s /\ i \notin s..(s + 2)} = (d + 3 + 1)..l
    BY <2>2, <2>3, <2>5
  <2>8. PICK blk : /\ blk = Block(n, gen) /\ blk \in Seq(Marks) /\ Len(blk) = 3
                   /\ blk[1] = c[d + 1] /\ blk[2] = c[d + 2] /\ blk[3] = c[d + 3]
    <3>1. c[d + 1] = Begin(n) /\ c[d + 2] = Body(n, gen) /\ c[d + 3] = End(n)
      <4>1. d + 1 = s /\ d + 2 = s + 1 /\ d + 3 = s + 2
        BY <2>5
      <4> QED  BY <2>1, <2>3, <4>1
    <3> QED  BY <3>1, BlockIs
  <2>9. PICK a, b, t :
          a = SubSeq(c, 1, d) /\ b = a \o blk /\ t = Sublist(c, (d + 3 + 1)..l)
    OBVIOUS
  <2>10. MergeMarkdown(n, gen, c) = b \o t
    <3>1. Places(c, Begin(n)) # {} /\ Covered(c, n) # {}
      <4>1. s \in s..(s + 2)
        BY <2>3
      <4> QED  BY <2>1, <2>4, <4>1
    <3>2. MergeMarkdown(n, gen, c) = Without(c, n, blk)
      BY <1>2, <2>8, <3>1 DEF MergeMarkdown, MergeBlock
    <3> QED  BY <2>4, <2>5, <2>6, <2>7, <2>9, <3>1, <3>2 DEF Without
  <2>11. a \in Seq(Marks) /\ Len(a) = d /\ \A i \in 1..d : a[i] = c[i]
    <3>1. d <= Len(c)
      BY <2>2, <2>5
    <3> QED  BY <2>9, <3>1, Beginning
  <2>12. b \in Seq(Marks) /\ Len(b) = d + 3 /\ \A i \in 1..(d + 3) : b[i] = c[i]
    <3>0. a \in Seq(Marks) /\ blk \in Seq(Marks) /\ b = a \o blk
      BY <2>8, <2>9, <2>11
    <3>1. b \in Seq(Marks) /\ Len(b) = Len(a) + Len(blk)
      BY <3>0, Joined
    <3>2. \A i \in 1..Len(a) : b[i] = a[i]
      BY <3>0, Joined
    <3>3. \A i \in 1..Len(blk) : b[Len(a) + i] = blk[i]
      BY <3>0, Joined
    <3>4. ASSUME NEW i \in 1..(d + 3)  PROVE b[i] = c[i]
      <4>1. i \in 1..d \/ i = d + 1 \/ i = d + 2 \/ i = d + 3
        OBVIOUS
      <4>2. 1 \in 1..3 /\ 2 \in 1..3 /\ 3 \in 1..3
        OBVIOUS
      <4>3. b[d + 1] = blk[1] /\ b[d + 2] = blk[2] /\ b[d + 3] = blk[3]
        BY <2>8, <2>11, <3>3, <4>2
      <4> QED  BY <2>8, <2>11, <3>2, <4>1, <4>3
    <3> QED  BY <2>8, <2>11, <3>1, <3>4
  <2>13. t \in Seq(Marks) /\ Len(t) = l - (d + 3) /\ \A i \in (d + 3 + 1)..l : t[i - (d + 3)] = c[i]
    <3>1. PICK m \in Nat : m = d + 3 /\ m <= l
      BY <2>5
    <3>2. Cardinality((m + 1)..l) = l - m
      BY <3>1, SublistTail
    <3>3. \A i \in (m + 1)..l : Sublist(c, (m + 1)..l)[i - m] = c[i]
      <4>1. m <= l
        BY <3>1
      <4> QED  BY <4>1, SublistTail
    <3>4. (m + 1)..l \in SUBSET (1..l)
      OBVIOUS
    <3>5. Len(Sublist(c, (m + 1)..l)) = l - m
      BY <3>2, <3>4, SublistHas
    <3>6. Sublist(c, (m + 1)..l) \in Seq(Marks)
      <4>1. \A i \in (m + 1)..l : c[i] \in Marks
        BY <2>2
      <4> QED  BY <3>4, <4>1, SublistHas
    <3> QED  BY <2>9, <3>1, <3>3, <3>5, <3>6
  <2>14. PICK w : w = b \o t
    OBVIOUS
  <2>15. /\ w \in Seq(Marks) /\ Len(w) = l
         /\ \A i \in 1..(d + 3) : w[i] = b[i]
         /\ \A i \in 1..(l - (d + 3)) : w[d + 3 + i] = t[i]
    <3>1. w \in Seq(Marks) /\ Len(w) = Len(b) + Len(t)
      BY <2>12, <2>13, <2>14, Joined
    <3>2. \A i \in 1..Len(b) : w[i] = b[i]
      BY <2>12, <2>13, <2>14, Joined
    <3>3. \A i \in 1..Len(t) : w[Len(b) + i] = t[i]
      BY SMTT(30), <2>12, <2>13, <2>14, Joined
    <3>4. d + 3 + (l - (d + 3)) = l
      BY <2>5
    <3> QED  BY <2>12, <2>13, <3>1, <3>2, <3>3, <3>4
  <2>16. ASSUME NEW i \in 1..l  PROVE w[i] = c[i]
    <3>1. CASE i \in 1..(d + 3)
      BY <2>12, <2>15, <3>1
    <3>2. CASE i \notin 1..(d + 3)
      <4>1. /\ i \in (d + 3 + 1)..l /\ i - (d + 3) \in 1..(l - (d + 3)) /\ d + 3 + (i - (d + 3)) = i
        BY <2>5, <3>2
      <4> QED  BY <2>13, <2>15, <4>1
    <3> QED  BY <3>1, <3>2
  <2>17. w = c
    BY <2>2, <2>15, <2>16
  <2> QED  BY <2>10, <2>14, <2>17
<1> QED  BY <1>1, <1>2
-----------------------------------------------------------------------------
(* A group without some handlers, and groups without those left empty.     *)
Less(g, R) == [g EXCEPT !.hooks = Only(@, Handler \ R)]
LessAll(gs, R) == [k \in DOMAIN gs |-> Less(gs[k], R)]
Some == {g \in Group : g.hooks # <<>>}
Filtered(gs, R) == Only(LessAll(gs, R), Some)
Pairs(g) == [n \in DOMAIN g.hooks |-> <<g.matcher, g.hooks[n]>>]
Pair == Matcher \X Handler
NotOf(R) == {p \in Pair : p[2] \notin R}

LEMMA LessIs ==
  ASSUME NEW g \in Group, NEW R
  PROVE  /\ Less(g, R) \in Group /\ Less(g, R).matcher = g.matcher
         /\ \A n \in DOMAIN Less(g, R).hooks : Less(g, R).hooks[n] \notin R
         /\ (\A n \in DOMAIN g.hooks : g.hooks[n] \notin R) => Less(g, R) = g
<1>1. g.matcher \in Matcher /\ g.hooks \in Seq(Handler) /\ DOMAIN g = {"matcher", "hooks"}
  BY DEF Group
<1>2. PICK h : h = Only(g.hooks, Handler \ R)
  OBVIOUS
<1>3. h \in Seq(Handler) /\ \A n \in DOMAIN h : h[n] \in Handler \ R
  BY <1>1, <1>2, OnlyHas
<1>4. Less(g, R) = [g EXCEPT !.hooks = h]
  BY <1>2 DEF Less
<1>5. Less(g, R) \in Group /\ Less(g, R).matcher = g.matcher /\ Less(g, R).hooks = h
  BY <1>1, <1>3, <1>4 DEF Group
<1>6. ASSUME \A n \in DOMAIN g.hooks : g.hooks[n] \notin R  PROVE Less(g, R) = g
  <2>1. \A n \in DOMAIN g.hooks : g.hooks[n] \in Handler \ R
    BY <1>1, <1>6, LenProperties
  <2>2. h = g.hooks
    BY <1>1, <1>2, <2>1, OnlyHas
  <2> QED  BY <1>4, <2>2 DEF Group
<1> QED  BY <1>3, <1>5, <1>6

LEMMA PairsOf ==
  ASSUME NEW g \in Group
  PROVE  Pairs(g) \in Seq(Pair) /\ DOMAIN Pairs(g) = DOMAIN g.hooks
<1>1. g.matcher \in Matcher /\ g.hooks \in Seq(Handler)
  BY DEF Group
<1>2. PICK n \in Nat : n = Len(g.hooks) /\ DOMAIN g.hooks = 1..n /\ \A i \in 1..n : g.hooks[i] \in Handler
  BY <1>1, LenProperties
<1>3. Pairs(g) = [i \in 1..n |-> <<g.matcher, g.hooks[i]>>] /\ \A i \in 1..n : <<g.matcher, g.hooks[i]>> \in Pair
  BY <1>1, <1>2 DEF Pairs, Pair
<1>4. PICK f \in [1..n -> Pair] : f = Pairs(g)
  BY <1>3
<1>5. f \in Seq(Pair) /\ DOMAIN f = 1..n
  OBVIOUS
<1> QED  BY <1>2, <1>4, <1>5

(* A group's pairs go with its handlers.                                   *)
LEMMA PairsLess ==
  ASSUME NEW g \in Group, NEW R
  PROVE  Pairs(Less(g, R)) = Only(Pairs(g), NotOf(R))
<1>1. g.matcher \in Matcher /\ g.hooks \in Seq(Handler)
  BY DEF Group
<1>2. PICK len \in Nat : DOMAIN g.hooks = 1..len /\ \A i \in 1..len : g.hooks[i] \in Handler
  BY <1>1, LenProperties
<1>3. PICK P \in SUBSET (1..len) : P = Where(g.hooks, Handler \ R)
  BY <1>2 DEF Where
<1>4. P = Where(Pairs(g), NotOf(R))
  BY <1>1, <1>2, <1>3 DEF Where, Pairs, NotOf, Pair
<1>5. PICK h : h = Sublist(g.hooks, P)
  OBVIOUS
<1>6. Less(g, R).hooks = h /\ Less(g, R).matcher = g.matcher
  BY <1>3, <1>5 DEF Less, Group, Only
<1>7. DOMAIN h = 1..Cardinality(P) /\ \A n \in 1..Cardinality(P) : Sorted(P)[n] \in P /\ h[n] = g.hooks[Sorted(P)[n]]
  BY <1>5, SublistAt
<1>8. PICK q : q = Sublist(Pairs(g), P)
  OBVIOUS
<1>9. DOMAIN q = 1..Cardinality(P) /\ \A n \in 1..Cardinality(P) : q[n] = Pairs(g)[Sorted(P)[n]]
  BY <1>8, SublistAt
<1>10. ASSUME NEW n \in 1..Cardinality(P)  PROVE q[n] = <<g.matcher, h[n]>>
  <2>1. Sorted(P)[n] \in P /\ h[n] = g.hooks[Sorted(P)[n]] /\ q[n] = Pairs(g)[Sorted(P)[n]]
    BY <1>7, <1>9
  <2> QED  BY <1>2, <2>1 DEF Pairs
<1>11. q = [n \in 1..Cardinality(P) |-> q[n]]
  BY <1>8, <1>9 DEF Sublist
<1>12. Pairs(Less(g, R)) = [n \in 1..Cardinality(P) |-> <<g.matcher, h[n]>>]
  BY <1>6, <1>7 DEF Pairs
<1>13. q = Pairs(Less(g, R))
  BY <1>10, <1>11, <1>12
<1> QED  BY <1>4, <1>8, <1>13 DEF Only

LEMMA LessAllIs ==
  ASSUME NEW gs \in Seq(Group), NEW R
  PROVE  /\ LessAll(gs, R) \in Seq(Group) /\ DOMAIN LessAll(gs, R) = DOMAIN gs
         /\ \A g \in Group : LessAll(Append(gs, g), R) = LessAll(gs, R) \o <<Less(g, R)>>
<1>1. PICK n \in Nat : n = Len(gs) /\ DOMAIN gs = 1..n /\ \A i \in 1..n : gs[i] \in Group
  BY LenProperties
<1>2. LessAll(gs, R) \in Seq(Group) /\ DOMAIN LessAll(gs, R) = 1..n /\ Len(LessAll(gs, R)) = n
  <2>1. \A i \in 1..n : Less(gs[i], R) \in Group
    BY <1>1, LessIs
  <2> QED  BY <1>1, <2>1 DEF LessAll
<1>3. ASSUME NEW g \in Group  PROVE LessAll(Append(gs, g), R) = LessAll(gs, R) \o <<Less(g, R)>>
  <2>1. PICK hs \in Seq(Group) : hs = Append(gs, g)
    BY AppendProperties
  <2>2. Len(hs) = n + 1 /\ DOMAIN hs = 1..(n + 1) /\ hs[n + 1] = g /\ \A i \in 1..n : hs[i] = gs[i]
    BY <1>1, <2>1, AppendProperties, LenProperties
  <2>3. PICK l : l = LessAll(gs, R) /\ l \in Seq(Group) /\ DOMAIN l = 1..n /\ Len(l) = n
    BY <1>2
  <2>4. PICK w : w = Append(l, Less(g, R))
    OBVIOUS
  <2>5. /\ w \in Seq(Group) /\ Len(w) = n + 1 /\ DOMAIN w = 1..(n + 1)
        /\ w[n + 1] = Less(g, R) /\ \A i \in 1..n : w[i] = l[i]
    BY <2>3, <2>4, LessIs, AppendProperties, LenProperties
  <2>6. ASSUME NEW i \in 1..(n + 1)  PROVE w[i] = Less(hs[i], R)
    <3>1. CASE i \in 1..n
      BY <1>1, <2>2, <2>3, <2>5, <3>1 DEF LessAll
    <3>2. CASE i = n + 1
      BY <2>2, <2>5, <3>2
    <3> QED  BY <3>1, <3>2
  <2>7. w = [i \in 1..(n + 1) |-> w[i]]
    BY <2>5
  <2>8. LessAll(hs, R) = w
    BY <2>2, <2>6, <2>7 DEF LessAll
  <2>9. w = l \o <<Less(g, R)>>
    BY <2>3, <2>4, LessIs, AppendIsConcat
  <2> QED  BY <2>1, <2>3, <2>8, <2>9
<1> QED  BY <1>1, <1>2, <1>3

(* One group more is filtered by itself.                                   *)
LEMMA FilterGrows ==
  ASSUME NEW gs \in Seq(Group), NEW g \in Group, NEW R
  PROVE  /\ Filtered(gs, R) \in Seq(Group) /\ Filtered(<<>>, R) = <<>>
         /\ Filtered(Append(gs, g), R) =
              Filtered(gs, R) \o IF Less(g, R).hooks = <<>> THEN <<>> ELSE <<Less(g, R)>>
<1>1. LessAll(gs, R) \in Seq(Group) /\ LessAll(Append(gs, g), R) = LessAll(gs, R) \o <<Less(g, R)>>
  BY LessAllIs
<1>2. Less(g, R) \in Group /\ <<Less(g, R)>> \in Seq(Group)
  BY LessIs
<1>3. Filtered(Append(gs, g), R) = Filtered(gs, R) \o Only(<<Less(g, R)>>, Some)
  <2>1. PICK l \in Seq(Group), w \in Seq(Group) : l = LessAll(gs, R) /\ w = <<Less(g, R)>>
    BY <1>1, <1>2
  <2>2. Only(l \o w, Some) = Only(l, Some) \o Only(w, Some)
    BY OnlyJoined
  <2> QED  BY <1>1, <2>1, <2>2 DEF Filtered
<1>4. Filtered(<<>>, R) = <<>>
  <2>1. LessAll(<<>>, R) = <<>>
    BY DEF LessAll
  <2> QED  BY <1>1, <2>1, OnlyHas DEF Filtered
<1>5. CASE Less(g, R).hooks = <<>>
  <2>1. Where(<<Less(g, R)>>, Some) = Where(<<>>, Some)
    BY <1>5 DEF Where, Some
  <2>2. Only(<<Less(g, R)>>, Some) = Only(<<>>, Some)
    <3>1. Sublist(<<Less(g, R)>>, {}) = Sublist(<<>>, {})
      <4>1. {} \in SUBSET (1..0) /\ Cardinality({}) = 0
        BY FS_EmptySet
      <4>2. DOMAIN Sorted({}) = 1..0
        BY <4>1, SortedPlaces
      <4> QED  BY <4>2 DEF Sublist
    <3>2. Where(<<>>, Some) = {}
      BY DEF Where
    <3> QED  BY <2>1, <3>1, <3>2 DEF Only
  <2>3. Only(<<>>, Some) = <<>>
    BY <1>1, OnlyHas
  <2> QED  BY <1>1, <1>3, <1>4, <1>5, <2>2, <2>3, OnlyHas DEF Filtered
<1>6. CASE Less(g, R).hooks # <<>>
  <2>1. \A i \in DOMAIN <<Less(g, R)>> : <<Less(g, R)>>[i] \in Some
    BY <1>2, <1>6 DEF Some
  <2>2. Only(<<Less(g, R)>>, Some) = <<Less(g, R)>>
    BY <1>2, <2>1, OnlyHas
  <2> QED  BY <1>1, <1>3, <1>4, <1>6, <2>2, OnlyHas DEF Filtered
<1> QED  BY <1>5, <1>6

(* The flat list of a file's groups grows with each group.                 *)
LEMMA FlatGrows ==
  ASSUME NEW gs \in Seq(Group), NEW g \in Group
  PROVE  /\ Flat(gs) \in Seq(Pair) /\ Flat(<<>>) = <<>>
         /\ Flat(Append(gs, g)) = Flat(gs) \o Pairs(g)
<1> DEFINE each(hs) == [k \in DOMAIN hs |-> Pairs(hs[k])]
<1>0. \A hs : Flat(hs) = FlattenSeq(each(hs))
  BY DEF Flat, Pairs
<1>1. PICK n \in Nat : n = Len(gs) /\ DOMAIN gs = 1..n /\ \A i \in 1..n : gs[i] \in Group
  BY LenProperties
<1>2. \A i \in 1..n : Pairs(gs[i]) \in Seq(Pair)
  BY <1>1, PairsOf
<1>3. PICK ss \in Seq(Seq(Pair)) : ss = each(gs) /\ Len(ss) = n /\ DOMAIN ss = 1..n
  <2>1. PICK T : T = Seq(Pair)
    OBVIOUS
  <2>2. PICK ss : ss = [i \in 1..n |-> Pairs(gs[i])]
    OBVIOUS
  <2>3. ss \in [1..n -> T]
    BY <1>2, <2>1, <2>2
  <2>4. ss \in Seq(T) /\ Len(ss) = n /\ DOMAIN ss = 1..n
    BY <2>3
  <2> QED  BY <1>1, <2>1, <2>2, <2>4
<1>4. PICK s \in Seq(Pair) : s = Pairs(g)
  BY PairsOf
<1>5. PICK hs \in Seq(Group) : hs = Append(gs, g)
  BY AppendProperties
<1>6. Len(hs) = n + 1 /\ DOMAIN hs = 1..(n + 1) /\ hs[n + 1] = g /\ \A i \in 1..n : hs[i] = gs[i]
  BY <1>1, <1>5, AppendProperties, LenProperties
<1>7. PICK w \in Seq(Seq(Pair)) : w = Append(ss, s)
  BY AppendProperties
<1>8. Len(w) = n + 1 /\ DOMAIN w = 1..(n + 1) /\ w[n + 1] = s /\ \A i \in 1..n : w[i] = ss[i]
  BY <1>3, <1>7, AppendProperties, LenProperties
<1>9. \A i \in 1..(n + 1) : w[i] = Pairs(hs[i])
  <2>1. ASSUME NEW i \in 1..(n + 1)  PROVE w[i] = Pairs(hs[i])
    <3>1. CASE i \in 1..n
      BY <1>1, <1>3, <1>6, <1>8, <3>1
    <3>2. CASE i = n + 1
      BY <1>4, <1>6, <1>8, <3>2
    <3> QED  BY <3>1, <3>2
  <2> QED  BY <2>1
<1>10. each(hs) = w
  <2>1. w = [i \in 1..(n + 1) |-> w[i]]
    BY <1>8
  <2> QED  BY <1>6, <1>9, <2>1
<1>11. each(<<>>) = <<>>
  OBVIOUS
<1>12. FlattenSeq(ss) \in Seq(Pair) /\ FlattenSeq(w) = FlattenSeq(ss) \o s /\ FlattenSeq(<<>>) = <<>>
  BY <1>7, FlattenGrows
<1> HIDE DEF each
<1> QED  BY <1>0, <1>3, <1>4, <1>5, <1>10, <1>11, <1>12

LEMMA FilterNone ==
  ASSUME NEW R
  PROVE  Filtered(<<>>, R) = <<>> /\ Flat(<<>>) = <<>>
<1>1. LessAll(<<>>, R) = <<>>
  BY DEF LessAll
<1>2. <<>> \in Seq(Group)
  OBVIOUS
<1>3. Only(<<>>, Some) = <<>>
  BY <1>2, OnlyHas
<1>4. Flat(<<>>) = FlattenSeq(<<>>)
  BY DEF Flat
<1>5. FlattenSeq(<<>>) = <<>>
  BY DEF FlattenSeq
<1> QED  BY <1>1, <1>3, <1>4, <1>5 DEF Filtered

(* A filter takes just those handlers out of it.                           *)
LEMMA FlatFiltered ==
  ASSUME NEW gs \in Seq(Group), NEW R
  PROVE  Flat(Filtered(gs, R)) = Only(Flat(gs), NotOf(R))
<1>1. PICK N \in Nat : N = Len(gs) /\ DOMAIN gs = 1..N /\ \A i \in 1..N : gs[i] \in Group
  BY LenProperties
<1> DEFINE front(n) == SubSeq(gs, 1, n)
<1>2. front(0) = <<>> /\ front(N) = gs
  BY <1>1, SubSeqProperties
<1>a. ASSUME NEW n \in 0..N, n < N
      PROVE  \E f \in Seq(Group), g \in Group : f = front(n) /\ g = gs[n + 1] /\ front(n + 1) = Append(f, g)
  <2>1. front(n) \in Seq(Group) /\ gs[n + 1] \in Group /\ n + 1 \in 0..N
    BY <1>1, <1>a, SubSeqProperties
  <2>2. front(n + 1) = Append(front(n), gs[n + 1])
    BY <1>1, <1>a
  <2> QED  BY <2>1, <2>2
<1> HIDE DEF front
<1> DEFINE S == {n \in 0..N : Flat(Filtered(front(n), R)) = Only(Flat(front(n)), NotOf(R))}
<1>3. 0 \in S
  <2>1. <<>> \in Seq(Group) /\ <<>> \in Seq(Pair)
    OBVIOUS
  <2>3. Filtered(<<>>, R) = <<>> /\ Flat(<<>>) = <<>>
    BY FilterNone
  <2>4. Only(<<>>, NotOf(R)) = <<>>
    BY <2>1, OnlyHas
  <2>5. Flat(Filtered(front(0), R)) = Only(Flat(front(0)), NotOf(R))
    BY <1>2, <2>3, <2>4
  <2> QED  BY <2>5
<1>4. ASSUME NEW n \in 0..N, n \in S, n < N  PROVE n + 1 \in S
  <2>1. PICK f \in Seq(Group), g \in Group : f = front(n) /\ g = gs[n + 1] /\ front(n + 1) = Append(f, g)
    BY <1>4, <1>a
  <2>2. Flat(Filtered(f, R)) = Only(Flat(f), NotOf(R))
    BY <1>4, <2>1
  <2>3. PICK l \in Group : l = Less(g, R) /\ Pairs(l) = Only(Pairs(g), NotOf(R))
    BY LessIs, PairsLess
  <2>4. PICK F \in Seq(Group) : F = Filtered(f, R)
    BY FilterGrows
  <2>5. Filtered(Append(f, g), R) = F \o IF l.hooks = <<>> THEN <<>> ELSE <<l>>
    BY <2>3, <2>4, FilterGrows
  <2>6. Flat(F) \in Seq(Pair) /\ Flat(f) \in Seq(Pair) /\ Pairs(l) \in Seq(Pair) /\ Pairs(g) \in Seq(Pair)
    BY FlatGrows, PairsOf
  <2>7. Flat(Filtered(Append(f, g), R)) = Flat(F) \o Pairs(l)
    <3>1. CASE l.hooks = <<>>
      <4>1. Filtered(Append(f, g), R) = F
        BY <2>5, <3>1, ConcatEmptySeq
      <4>2. Pairs(l) = <<>>
        <5>1. Pairs(l) \in Seq(Pair) /\ DOMAIN Pairs(l) = DOMAIN <<>>
          BY <3>1, PairsOf
        <5> QED  BY <5>1
      <4>3. Flat(F) \o <<>> = Flat(F)
        BY <2>6, ConcatEmptySeq
      <4> QED  BY <4>1, <4>2, <4>3
    <3>2. CASE l.hooks # <<>>
      <4>1. Filtered(Append(f, g), R) = Append(F, l)
        BY <2>5, <3>2, AppendIsConcat
      <4> QED  BY <4>1, FlatGrows
    <3> QED  BY <3>1, <3>2
  <2>8. Only(Flat(f) \o Pairs(g), NotOf(R)) = Only(Flat(f), NotOf(R)) \o Only(Pairs(g), NotOf(R))
    <3>1. PICK a \in Seq(Pair), b \in Seq(Pair) : a = Flat(f) /\ b = Pairs(g)
      BY <2>6
    <3>2. Only(a \o b, NotOf(R)) = Only(a, NotOf(R)) \o Only(b, NotOf(R))
      BY OnlyJoined
    <3> QED  BY <3>1, <3>2
  <2>9. Flat(Append(f, g)) = Flat(f) \o Pairs(g)
    BY FlatGrows
  <2>10. n + 1 \in 0..N
    BY <1>4
  <2>11. Flat(Filtered(front(n + 1), R)) = Only(Flat(front(n + 1)), NotOf(R))
    BY <2>1, <2>2, <2>3, <2>4, <2>7, <2>8, <2>9
  <2> QED  BY <2>10, <2>11
<1>5. N \in S
  <2>1. \A n \in 0..N : n \in S /\ n < N => n + 1 \in S
    BY <1>4
  <2> HIDE DEF S
  <2>2. 0..N \subseteq S
    BY <1>3, <2>1, Climbs
  <2> QED  BY <2>2
<1> QED  BY <1>2, <1>5

(* What was filtered once stays as it is.                                  *)
LEMMA FilteredAgain ==
  ASSUME NEW gs \in Seq(Group), NEW R
  PROVE  Filtered(Filtered(gs, R), R) = Filtered(gs, R)
<1> DEFINE T == {g \in Group : \A n \in DOMAIN g.hooks : g.hooks[n] \notin R}
<1>1. LessAll(gs, R) \in Seq(Group) /\ DOMAIN LessAll(gs, R) = DOMAIN gs
  BY LessAllIs
<1>2. PICK n \in Nat : n = Len(gs) /\ DOMAIN gs = 1..n /\ \A i \in 1..n : gs[i] \in Group
  BY LenProperties
<1>3. \A i \in 1..n : Less(gs[i], R) \in T
  BY <1>2, LessIs
<1>4. PICK l \in Seq(T) : l = LessAll(gs, R)
  <2> HIDE DEF T
  <2>1. PICK l : l = [i \in 1..n |-> Less(gs[i], R)]
    OBVIOUS
  <2>2. l \in Seq(T)
    BY <1>3, <2>1
  <2> QED  BY <1>2, <2>1, <2>2 DEF LessAll
<1>5. PICK f \in Seq(T) : f = Filtered(gs, R) /\ \A k \in DOMAIN f : f[k] \in Some
  BY <1>4, OnlyHas DEF Filtered
<1>6. PICK m \in Nat : m = Len(f) /\ DOMAIN f = 1..m /\ \A i \in 1..m : f[i] \in T
  BY LenProperties
<1>7. LessAll(f, R) = f
  <2>1. \A i \in 1..m : Less(f[i], R) = f[i]
    BY <1>6, LessIs
  <2>2. f = [i \in 1..m |-> f[i]]
    BY <1>6
  <2> QED  BY <1>6, <2>1, <2>2 DEF LessAll
<1>8. Only(f, Some) = f
  BY <1>5, OnlyHas
<1> QED  BY <1>5, <1>7, <1>8 DEF Filtered

(* A group of nothing else goes.                                           *)
LEMMA FilteredNew ==
  ASSUME NEW gs \in Seq(Group), NEW R, NEW g \in Group, NEW h \in R, g.hooks = <<h>>
  PROVE  Filtered(Append(Filtered(gs, R), g), R) = Filtered(gs, R)
<1>1. PICK f \in Seq(Group) : f = Filtered(gs, R) /\ Filtered(f, R) = f
  BY FilterGrows, FilteredAgain
<1>2. Less(g, R).hooks = <<>>
  <2>1. Less(g, R) \in Group /\ Less(g, R).hooks = Only(<<h>>, Handler \ R)
    BY LessIs DEF Less, Group
  <2>2. Where(<<h>>, Handler \ R) = {}
    BY DEF Where
  <2>3. Only(<<h>>, Handler \ R) = Sublist(<<h>>, {})
    BY <2>2 DEF Only
  <2>4. DOMAIN Sublist(<<h>>, {}) = 1..0
    <3>1. {} \in SUBSET (1..0) /\ Cardinality({}) = 0
      BY FS_EmptySet
    <3> QED  BY <3>1, SublistAt
  <2>5. Less(g, R).hooks \in Seq(Handler)
    BY <2>1 DEF Group
  <2> QED  BY <2>1, <2>3, <2>4, <2>5
<1>3. Filtered(Append(f, g), R) = f \o <<>>
  BY <1>1, <1>2, FilterGrows
<1> QED  BY <1>1, <1>3, ConcatEmptySeq

Notifies == {h \in Handler : h[1] = "notify"}

LEMMA FilterIs ==
  ASSUME NEW gs \in Seq(Group)
  PROVE  /\ FilterHandlers(gs, IsManaged) = Filtered(gs, Notifies)
         /\ FilterHandlers(gs, IsLegacy) = Filtered(gs, {LegacyPing})
<1>1. PICK len \in Nat : len = Len(gs) /\ DOMAIN gs = 1..len /\ \A i \in 1..len : gs[i] \in Group
  BY LenProperties
<1>2. ASSUME NEW g \in Group
      PROVE  /\ Less(g, Notifies) = [g EXCEPT !.hooks = Sublist(@, {i \in DOMAIN @ : ~IsManaged(@[i])})]
             /\ Less(g, {LegacyPing}) = [g EXCEPT !.hooks = Sublist(@, {i \in DOMAIN @ : ~IsLegacy(@[i])})]
  <2>1. g.hooks \in Seq(Handler)
    BY DEF Group
  <2>2. \A i \in DOMAIN g.hooks : g.hooks[i] \in Handler
    BY <2>1, LenProperties
  <2>3. Where(g.hooks, Handler \ Notifies) = {i \in DOMAIN g.hooks : ~IsManaged(g.hooks[i])}
    BY <2>2 DEF Where, Notifies, IsManaged
  <2>4. Where(g.hooks, Handler \ {LegacyPing}) = {i \in DOMAIN g.hooks : ~IsLegacy(g.hooks[i])}
    BY <2>2 DEF Where, IsLegacy
  <2> QED  BY <2>3, <2>4 DEF Less, Only
<1>3. ASSUME NEW R
      PROVE  Filtered(gs, R) = Sublist(LessAll(gs, R), {i \in DOMAIN LessAll(gs, R) : LessAll(gs, R)[i].hooks # <<>>})
  <2>1. PICK l \in Seq(Group) : l = LessAll(gs, R)
    BY LessAllIs
  <2>2. \A i \in DOMAIN l : l[i] \in Group
    BY <2>1, LenProperties
  <2>3. Where(l, Some) = {i \in DOMAIN l : l[i].hooks # <<>>}
    BY <2>2 DEF Where, Some
  <2> QED  BY <2>1, <2>3 DEF Filtered, Only
<1>4. FilterHandlers(gs, IsManaged) = Filtered(gs, Notifies)
  <2>1. PICK l : l = [k \in DOMAIN gs |-> [gs[k] EXCEPT !.hooks = Sublist(@, {i \in DOMAIN @ : ~IsManaged(@[i])})]]
    OBVIOUS
  <2>2. l = LessAll(gs, Notifies)
    BY <1>1, <1>2, <2>1 DEF LessAll
  <2>3. FilterHandlers(gs, IsManaged) = Sublist(l, {i \in DOMAIN l : l[i].hooks # <<>>})
    BY <2>1 DEF FilterHandlers, Keep
  <2> QED  BY <1>3, <2>2, <2>3
<1>5. FilterHandlers(gs, IsLegacy) = Filtered(gs, {LegacyPing})
  <2>1. PICK l : l = [k \in DOMAIN gs |-> [gs[k] EXCEPT !.hooks = Sublist(@, {i \in DOMAIN @ : ~IsLegacy(@[i])})]]
    OBVIOUS
  <2>2. l = LessAll(gs, {LegacyPing})
    BY <1>1, <1>2, <2>1 DEF LessAll
  <2>3. FilterHandlers(gs, IsLegacy) = Sublist(l, {i \in DOMAIN l : l[i].hooks # <<>>})
    BY <2>1 DEF FilterHandlers, Keep
  <2> QED  BY <1>3, <2>2, <2>3
<1> QED  BY <1>4, <1>5

(* What a merge makes of the groups of one event.                          *)
Asked(gs, matcher, gen) == Append(Filtered(gs, Notifies), NewGroup(matcher, gen))

LEMMA NewGroupIs ==
  ASSUME NEW matcher \in Matcher, NEW gen \in Generation
  PROVE  /\ NewGroup(matcher, gen) \in Group /\ Notify(gen) \in Notifies
         /\ NewGroup(matcher, gen).hooks = <<Notify(gen)>>
         /\ Pairs(NewGroup(matcher, gen)) = <<<<matcher, Notify(gen)>>>>
<1>1. Notify(gen) \in Handler /\ Notify(gen)[1] = "notify"
  BY DEF Notify, Handler
<1>2. <<Notify(gen)>> \in Seq(Handler)
  BY <1>1
<1>3. PICK g : g = NewGroup(matcher, gen) /\ g = [matcher |-> matcher, hooks |-> <<Notify(gen)>>]
  BY DEF NewGroup
<1>4. g.hooks = <<Notify(gen)>> /\ g.matcher = matcher /\ g \in Group
  BY <1>2, <1>3 DEF Group
<1>5. Pairs(g) = <<<<matcher, Notify(gen)>>>>
  <2>1. DOMAIN <<Notify(gen)>> = 1..1 /\ <<Notify(gen)>>[1] = Notify(gen)
    OBVIOUS
  <2>2. Pairs(g) = [n \in 1..1 |-> <<matcher, Notify(gen)>>]
    BY <1>4, <2>1 DEF Pairs
  <2>3. PICK x : x = <<matcher, Notify(gen)>>
    OBVIOUS
  <2>4. PICK s \in Seq({x}), t \in Seq({x}) :
            s = [n \in 1..1 |-> x] /\ t = <<x>> /\ Len(s) = 1 /\ Len(t) = 1 /\ s[1] = x /\ t[1] = x
    <3>1. PICK s : s = [n \in 1..1 |-> x]
      OBVIOUS
    <3>2. s \in [1..1 -> {x}]
      BY <3>1
    <3>3. s \in Seq({x}) /\ Len(s) = 1 /\ s[1] = x
      BY <3>1, <3>2
    <3>4. <<x>> \in Seq({x}) /\ Len(<<x>>) = 1 /\ <<x>>[1] = x
      OBVIOUS
    <3> QED  BY <3>1, <3>3, <3>4
  <2>5. s = t
    <3>1. \A i \in 1..Len(s) : s[i] = t[i]
      BY <2>4
    <3> QED  BY <2>4, <3>1, SeqEqual
  <2> QED  BY <2>2, <2>3, <2>4, <2>5
<1> QED  BY <1>1, <1>3, <1>4, <1>5 DEF Notifies

LEMMA AskedIs ==
  ASSUME NEW gs \in Seq(Group), NEW matcher \in Matcher, NEW gen \in Generation
  PROVE  /\ Asked(gs, matcher, gen) \in Seq(Group)
         /\ Asked(Asked(gs, matcher, gen), matcher, gen) = Asked(gs, matcher, gen)
         /\ Flat(Asked(gs, matcher, gen)) = Only(Flat(gs), NotOf(Notifies)) \o <<<<matcher, Notify(gen)>>>>
<1>1. PICK f \in Seq(Group) : f = Filtered(gs, Notifies)
  BY FilterGrows, NewGroupIs
<1>2. PICK g \in Group : g = NewGroup(matcher, gen) /\ g.hooks = <<Notify(gen)>> /\ Pairs(g) = <<<<matcher, Notify(gen)>>>>
  BY NewGroupIs
<1>3. Filtered(Append(f, g), Notifies) = f
  <2>1. PICK h \in Notifies : h = Notify(gen)
    BY NewGroupIs
  <2>2. g.hooks = <<h>>
    BY <1>2, <2>1
  <2>3. Filtered(Append(Filtered(gs, Notifies), g), Notifies) = Filtered(gs, Notifies)
    BY <2>2, FilteredNew
  <2> QED  BY <1>1, <2>3
<1>4. Append(f, g) \in Seq(Group)
  BY AppendProperties
<1>5. Flat(Append(f, g)) = Flat(f) \o Pairs(g)
  BY FlatGrows
<1>6. Flat(f) = Only(Flat(gs), NotOf(Notifies))
  BY <1>1, FlatFiltered
<1> QED  BY <1>1, <1>2, <1>3, <1>4, <1>5, <1>6 DEF Asked

LEMMA PingsGone ==
  ASSUME NEW gs \in Seq(Group), NEW R
  PROVE  /\ Filtered(gs, R) \in Seq(Group)
         /\ Filtered(Filtered(gs, R), R) = Filtered(gs, R)
         /\ Flat(Filtered(gs, R)) = Only(Flat(gs), NotOf(R))
<1>1. Filtered(gs, R) \in Seq(Group)
  <2>1. LessAll(gs, R) \in Seq(Group)
    BY LessAllIs
  <2> QED  BY <2>1, OnlyHas DEF Filtered
<1> QED  BY <1>1, FilteredAgain, FlatFiltered

(* The groups of one event, merged.                                        *)
Eventually(k, e, gs, gen) ==
  IF e \in Asks(k) THEN Asked(gs, MatcherOf(e), gen)
  ELSE IF k = "claude" /\ e \in Turns THEN Filtered(gs, {LegacyPing}) ELSE gs
HooksOf(k, e, gs, gen) ==
  Keep(Flat(gs), LAMBDA mh : ~Ours(k, e, mh[2]))
    \o IF e \in Asks(k) THEN <<<<MatcherOf(e), Notify(gen)>>>> ELSE <<>>

LEMMA EventMerged ==
  ASSUME NEW k \in Hooked, NEW e \in Events, NEW gs \in Seq(Group), NEW gen \in Generation
  PROVE  /\ Eventually(k, e, gs, gen) \in Seq(Group)
         /\ Eventually(k, e, Eventually(k, e, gs, gen), gen) = Eventually(k, e, gs, gen)
         /\ Flat(Eventually(k, e, gs, gen)) = HooksOf(k, e, gs, gen)
<1>1. PICK F \in Seq(Pair) : F = Flat(gs)
  <2>1. NewGroup("any", gen) \in Group
    <3>1. "any" \in Matcher
      BY DEF Matcher
    <3> QED  BY <3>1, NewGroupIs
  <2> QED  BY <2>1, FlatGrows
<1>2. \A i \in DOMAIN F : F[i] \in Pair /\ F[i][2] \in Handler
  <2>1. \A i \in DOMAIN F : F[i] \in Pair
    BY LenProperties
  <2> QED  BY <2>1 DEF Pair
<1>3. \A R : Only(F, NotOf(R)) = Sublist(F, {i \in DOMAIN F : F[i][2] \notin R})
  <2>1. \A R : Where(F, NotOf(R)) = {i \in DOMAIN F : F[i][2] \notin R}
    BY <1>2 DEF Where, NotOf
  <2> QED  BY <2>1 DEF Only
<1>4. Keep(F, LAMBDA mh : ~Ours(k, e, mh[2])) = Sublist(F, {i \in DOMAIN F : ~Ours(k, e, F[i][2])})
  BY DEF Keep
<1>5. MatcherOf(e) \in Matcher
  BY DEF MatcherOf, Matcher
<1>6. CASE e \in Asks(k)
  <2>1. e \notin Turns
    BY <1>6 DEF Asks, Asking, Turns, Hooked
  <2>2. \A h \in Handler : ~Ours(k, e, h) <=> h \notin Notifies
    BY <1>6, <2>1 DEF Ours, Notifies
  <2>3. {i \in DOMAIN F : ~Ours(k, e, F[i][2])} = {i \in DOMAIN F : F[i][2] \notin Notifies}
    BY <1>2, <2>2
  <2>4. HooksOf(k, e, gs, gen) = Only(F, NotOf(Notifies)) \o <<<<MatcherOf(e), Notify(gen)>>>>
    BY <1>1, <1>3, <1>4, <1>6, <2>3 DEF HooksOf
  <2>5. PICK f : f = Eventually(k, e, gs, gen) /\ f = Asked(gs, MatcherOf(e), gen)
    BY <1>6 DEF Eventually
  <2>6. f \in Seq(Group) /\ Asked(f, MatcherOf(e), gen) = f /\ Flat(f) = HooksOf(k, e, gs, gen)
    BY <1>1, <1>5, <2>4, <2>5, AskedIs
  <2>7. Eventually(k, e, f, gen) = f
    BY <1>6, <2>6 DEF Eventually
  <2> QED  BY <2>5, <2>6, <2>7
<1>7. CASE e \notin Asks(k) /\ k = "claude" /\ e \in Turns
  <2>2. \A h \in Handler : ~Ours(k, e, h) <=> h \notin {LegacyPing}
    BY <1>7 DEF Ours
  <2>3. {i \in DOMAIN F : ~Ours(k, e, F[i][2])} = {i \in DOMAIN F : F[i][2] \notin {LegacyPing}}
    BY <1>2, <2>2
  <2>4. HooksOf(k, e, gs, gen) = Only(F, NotOf({LegacyPing})) \o <<>>
    BY <1>1, <1>3, <1>4, <1>7, <2>3 DEF HooksOf
  <2>a. Only(F, NotOf({LegacyPing})) \o <<>> = Only(F, NotOf({LegacyPing}))
    <3>1. Only(F, NotOf({LegacyPing})) \in Seq(Pair)
      BY OnlyHas
    <3> QED  BY <3>1, ConcatEmptySeq
  <2>5. PICK f : f = Eventually(k, e, gs, gen) /\ f = Filtered(gs, {LegacyPing})
    BY <1>7 DEF Eventually
  <2>6. f \in Seq(Group) /\ Filtered(f, {LegacyPing}) = f /\ Flat(f) = HooksOf(k, e, gs, gen)
    BY <1>1, <2>4, <2>a, <2>5, PingsGone
  <2>7. Eventually(k, e, f, gen) = f
    BY <1>7, <2>6 DEF Eventually
  <2> QED  BY <2>5, <2>6, <2>7
<1>8. CASE e \notin Asks(k) /\ ~(k = "claude" /\ e \in Turns)
  <2>1. {i \in DOMAIN F : ~Ours(k, e, F[i][2])} = DOMAIN F
    BY <1>8 DEF Ours
  <2>2. Sublist(F, DOMAIN F) = F /\ F \o <<>> = F
    BY SublistAll, ConcatEmptySeq
  <2>3. HooksOf(k, e, gs, gen) = F
    BY <1>1, <1>4, <1>8, <2>1, <2>2 DEF HooksOf
  <2>4. Eventually(k, e, gs, gen) = gs
    BY <1>8 DEF Eventually
  <2> QED  BY <1>1, <2>3, <2>4
<1> QED  BY <1>6, <1>7, <1>8

LEMMA DocumentMerged ==
  ASSUME NEW k \in Hooked, NEW doc \in Document, NEW gen \in Generation, NEW m, m = MergeHooks(k, gen, doc)
  PROVE  /\ m \in Document /\ MergeHooks(k, gen, m) = m
         /\ \A e \in Events : Flat(m.hooks[e]) = HooksOf(k, e, doc.hooks[e], gen)
<1>1. ASSUME NEW d \in Document
      PROVE  MergeHooks(k, gen, d) = [rendered |-> TRUE, hooks |-> [e \in Events |-> Eventually(k, e, d.hooks[e], gen)]]
  <2>1. DOMAIN d.hooks = Events /\ \A e \in Events : d.hooks[e] \in Seq(Group)
    BY DEF Document, Events
  <2>2. \A gs \in Seq(Group) : /\ FilterHandlers(gs, IsManaged) = Filtered(gs, Notifies)
                               /\ FilterHandlers(gs, IsLegacy) = Filtered(gs, {LegacyPing})
    BY FilterIs
  <2>3. CASE k = "codex"
    <3>1. MatcherOf("PermissionRequest") = "any"
      BY DEF MatcherOf
    <3>2. \A e \in Events :
            (IF e = "PermissionRequest" THEN Append(FilterHandlers(d.hooks[e], IsManaged), NewGroup("any", gen))
             ELSE d.hooks[e]) = Eventually(k, e, d.hooks[e], gen)
      BY <2>1, <2>2, <2>3, <3>1 DEF Eventually, Asked, Asks
    <3> QED  BY <2>1, <2>3, <3>2 DEF MergeHooks, MergeCodex
  <2>4. CASE k = "claude"
    <3>1. \A e \in Events :
            (IF e \in Asking THEN Append(FilterHandlers(d.hooks[e], IsManaged), NewGroup(MatcherOf(e), gen))
             ELSE IF e \in Turns THEN FilterHandlers(d.hooks[e], IsLegacy)
             ELSE d.hooks[e]) = Eventually(k, e, d.hooks[e], gen)
      BY <2>1, <2>2, <2>4 DEF Eventually, Asked, Asks
    <3> QED  BY <2>1, <2>4, <3>1 DEF MergeHooks, MergeClaude
  <2> QED  BY <2>3, <2>4 DEF Hooked
<1>2. \A e \in Events : doc.hooks[e] \in Seq(Group)
  BY DEF Document, Events
<1>3. PICK h : h = [e \in Events |-> Eventually(k, e, doc.hooks[e], gen)] /\ m = [rendered |-> TRUE, hooks |-> h]
  BY <1>1
<1>4. \A e \in Events : /\ h[e] \in Seq(Group) /\ Eventually(k, e, h[e], gen) = h[e]
                        /\ Flat(h[e]) = HooksOf(k, e, doc.hooks[e], gen)
  BY <1>2, <1>3, EventMerged
<1>5. h \in [Events -> Seq(Group)]
  BY <1>3, <1>4
<1>6. m \in Document /\ m.hooks = h
  BY <1>3, <1>5 DEF Document, Events
<1>7. [e \in Events |-> Eventually(k, e, h[e], gen)] = h
  <2>1. h = [e \in Events |-> h[e]]
    BY <1>5
  <2> QED  BY <1>4, <2>1
<1>8. MergeHooks(k, gen, m) = m
  BY <1>1, <1>3, <1>6, <1>7
<1> QED  BY <1>4, <1>6, <1>8
-----------------------------------------------------------------------------
(* The lines of a file of settings.                                        *)
(*                                                                         *)
(* The header a line stands under is the last one up to it, if there is    *)
(* one.                                                                    *)
LastUpTo(s, i, h) == h \in Headers(s) /\ h <= i /\ \A x \in Headers(s) : x <= i => x <= h
LEMMA HeaderIs ==
  ASSUME NEW s \in Seq(TomlLine), NEW i \in DOMAIN s
  PROVE  /\ i \in Nat /\ \A h \in Headers(s) : h \in Nat /\ h # 0
         /\ \/ HeaderOf(s, i) = 0 /\ (\A h \in Headers(s) : ~(h <= i)) /\ TableOf(s, i) = <<>>
            \/ LastUpTo(s, i, HeaderOf(s, i)) /\ TableOf(s, i) = s[HeaderOf(s, i)].of
<1> DEFINE H == {h \in Headers(s) : h <= i}
<1>1. PICK n \in Nat : n = Len(s) /\ DOMAIN s = 1..n
  BY LenProperties
<1>2. {0} \cup H \in SUBSET (0..n) /\ {0} \cup H # {}
  BY <1>1 DEF Headers
<1>3. PICK m : m = HeaderOf(s, i)
  OBVIOUS
<1>4. m \in {0} \cup H /\ \A j \in {0} \cup H : m >= j
  <2> HIDE DEF H
  <2>1. m = Max({0} \cup H)
    BY <1>3 DEF HeaderOf, H
  <2> QED  BY <1>2, <2>1, LastPlace
<1>5. i \in Nat /\ \A h \in Headers(s) : h \in Nat /\ h # 0
  BY <1>1 DEF Headers
<1>6. CASE m = 0
  <2>1. \A h \in Headers(s) : ~(h <= i)
    BY <1>4, <1>5, <1>6
  <2> QED  BY <1>3, <1>5, <1>6, <2>1 DEF TableOf
<1>7. CASE m # 0
  <2>1. m \in Headers(s) /\ m <= i /\ \A x \in Headers(s) : x <= i => x <= m
    BY <1>4, <1>5, <1>7
  <2> QED  BY <1>3, <1>5, <1>7, <2>1 DEF TableOf, LastUpTo
<1> QED  BY <1>6, <1>7

LEMMA HeaderAt ==
  ASSUME NEW s \in Seq(TomlLine), NEW i \in DOMAIN s, NEW h, LastUpTo(s, i, h)
  PROVE  HeaderOf(s, i) = h /\ TableOf(s, i) = s[h].of
<1>1. h \in Headers(s) /\ h <= i /\ \A x \in Headers(s) : x <= i => x <= h
  BY DEF LastUpTo
<1>2. h \in Nat /\ LastUpTo(s, i, HeaderOf(s, i)) /\ TableOf(s, i) = s[HeaderOf(s, i)].of
  BY <1>1, HeaderIs
<1>3. HeaderOf(s, i) \in Nat /\ HeaderOf(s, i) <= h /\ h <= HeaderOf(s, i)
  BY <1>1, <1>2, HeaderIs DEF LastUpTo
<1> QED  BY <1>2, <1>3

(* The lines that turn, and the places below which a value goes on.        *)
Turning(s) == {n \in DOMAIN s : s[n].turns}
Going(s) == {n \in 0..Len(s) : GoesOn(s)[n]}
Reads(s, A) ==
  /\ A \subseteq 0..Len(s) /\ 0 \notin A
  /\ \A n \in 1..Len(s) : n \in A <=> (n \in Turning(s) <=> n - 1 \notin A)

GoingUpTo(f, N, s) == f = [n \in 0..N |-> n # 0 /\ (s[n].turns <=> ~f[n - 1])]
LEMMA GoesOnThere ==
  ASSUME NEW s, NEW N \in Nat
  PROVE  \E f : GoingUpTo(f, N, s)
<1> DEFINE S == {n \in 0..N : \E f : GoingUpTo(f, n, s)}
<1>1. 0 \in S
  <2> DEFINE none == [n \in 0..0 |-> FALSE]
             at(n) == n # 0 /\ (s[n].turns <=> ~none[n - 1])
  <2>0. \A n \in 0..0 : FALSE = at(n)
    OBVIOUS
  <2>1. GoingUpTo(none, 0, s)
    <3>1. none = [n \in 0..0 |-> at(n)]
      BY <2>0
    <3> QED  BY <3>1 DEF GoingUpTo
  <2> QED  BY <2>1
<1>2. ASSUME NEW n \in 0..N, n \in S, n < N  PROVE n + 1 \in S
  <2>1. PICK f : GoingUpTo(f, n, s)
    BY <1>2
  <2> DEFINE next(i) == i # 0 /\ (s[i].turns <=> ~f[i - 1])
             g == [i \in 0..(n + 1) |-> next(i)]
  <2>2. ASSUME NEW i \in 0..n  PROVE g[i] = f[i]
    <3>1. f[i] = next(i)
      BY <2>1 DEF GoingUpTo
    <3>2. g[i] = next(i)
      <4> HIDE DEF next
      <4> QED  OBVIOUS
    <3> QED  BY <3>1, <3>2
  <2>3. ASSUME NEW i \in 0..(n + 1)  PROVE next(i) = (i # 0 /\ (s[i].turns <=> ~g[i - 1]))
    <3>1. CASE i = 0
      BY <3>1
    <3>2. CASE i # 0
      <4>1. i - 1 \in 0..n
        BY <3>2
      <4>2. g[i - 1] = f[i - 1]
        BY <2>2, <4>1
      <4> HIDE DEF g
      <4> QED  BY <4>2
    <3> QED  BY <3>1, <3>2
  <2>4. g = [i \in 0..(n + 1) |-> (i # 0 /\ (s[i].turns <=> ~g[i - 1]))]
    <3> DEFINE then(i) == (i # 0 /\ (s[i].turns <=> ~g[i - 1]))
    <3>1. \A i \in 0..(n + 1) : next(i) = then(i)
      BY <2>3
    <3> HIDE DEF next, then
    <3>2. g = [i \in 0..(n + 1) |-> then(i)]
      BY <3>1
    <3> QED  BY <3>2 DEF then
  <2> HIDE DEF g
  <2>5. GoingUpTo(g, n + 1, s)
    BY <2>4 DEF GoingUpTo
  <2>6. n + 1 \in 0..N
    BY <1>2
  <2> QED  BY <2>5, <2>6
<1>3. N \in S
  <2> HIDE DEF S
  <2> QED  BY <1>1, <1>2, Climbs
<1> QED  BY <1>3

LEMMA GoingIs ==
  ASSUME NEW s \in Seq(TomlLine)
  PROVE  /\ Reads(s, Going(s))
         /\ Inside(s) = {i \in DOMAIN s : i - 1 \in Going(s)}
<1>1. PICK N \in Nat : N = Len(s) /\ DOMAIN s = 1..N
  BY LenProperties
<1> DEFINE on[n \in 0..Len(s)] == n # 0 /\ (s[n].turns <=> ~on[n - 1])
<1>2. GoesOn(s) = on
  BY DEF GoesOn
<1>3. \E f : f = [n \in 0..Len(s) |-> n # 0 /\ (s[n].turns <=> ~f[n - 1])]
  <2>1. \E f : GoingUpTo(f, Len(s), s)
    BY <1>1, GoesOnThere
  <2> QED  BY <2>1 DEF GoingUpTo
<1>4. on = [n \in 0..Len(s) |-> n # 0 /\ (s[n].turns <=> ~on[n - 1])]
  BY <1>3
<1> HIDE DEF on
<1>5. ASSUME NEW n \in 0..N  PROVE GoesOn(s)[n] <=> n # 0 /\ (s[n].turns <=> ~GoesOn(s)[n - 1])
  <2>1. on[n] = (n # 0 /\ (s[n].turns <=> ~on[n - 1]))
    BY <1>1, <1>4
  <2> QED  BY <1>2, <2>1
<1>6. \A n \in 0..N : n \in Going(s) <=> GoesOn(s)[n]
  BY <1>1 DEF Going
<1>7. 0 \notin Going(s)
  <2>1. 0 \in 0..N
    BY <1>1
  <2> QED  BY <1>5, <1>6, <2>1
<1>8. ASSUME NEW n \in 1..N  PROVE n \in Going(s) <=> (n \in Turning(s) <=> n - 1 \notin Going(s))
  <2>1. n \in 0..N /\ n - 1 \in 0..N /\ n # 0
    BY <1>1
  <2>2. n \in Going(s) <=> (s[n].turns <=> ~GoesOn(s)[n - 1])
    BY <1>5, <1>6, <2>1
  <2>3. n \in Turning(s) <=> s[n].turns
    BY <1>1 DEF Turning
  <2> QED  BY <1>6, <2>1, <2>2, <2>3
<1>9. \A i \in DOMAIN s : GoesOn(s)[i - 1] <=> i - 1 \in Going(s)
  <2>1. \A i \in 1..N : i - 1 \in 0..N
    BY <1>1
  <2> QED  BY <1>1, <1>6, <2>1
<1>10. Going(s) \subseteq 0..N
  BY <1>1 DEF Going
<1> QED  BY <1>1, <1>7, <1>8, <1>9, <1>10 DEF Reads, Inside

(* There is one way to read them. *)
LEMMA GoingOnly ==
  ASSUME NEW s \in Seq(TomlLine), NEW A, Reads(s, A)
  PROVE  A = Going(s)
<1>1. PICK N \in Nat : N = Len(s)
  BY LenProperties
<1>2. Reads(s, Going(s))
  BY GoingIs
<1> DEFINE S == {n \in 0..N : n \in A <=> n \in Going(s)}
<1>3. 0 \in S
  BY <1>2 DEF Reads
<1>4. ASSUME NEW n \in 0..N, n \in S, n < N  PROVE n + 1 \in S
  <2>1. PICK m \in 1..N : m = n + 1 /\ m - 1 = n
    BY <1>4
  <2>2. m \in A <=> m \in Going(s)
    BY <1>1, <1>2, <1>4, <2>1 DEF Reads
  <2> QED  BY <2>1, <2>2
<1>5. 0..N \subseteq S
  <2> HIDE DEF S
  <2> QED  BY <1>3, <1>4, Climbs
<1> QED  BY <1>1, <1>2, <1>5 DEF Reads

(* As long as no line turns, a value goes on, or none does.                *)
LEMMA GoingStays ==
  ASSUME NEW s \in Seq(TomlLine), NEW a \in 0..Len(s), NEW b \in 0..Len(s), a <= b,
         \A x \in (a + 1)..b : x \notin Turning(s)
  PROVE  a \in Going(s) <=> b \in Going(s)
<1>1. PICK N \in Nat : N = Len(s)
  BY LenProperties
<1>2. Reads(s, Going(s))
  BY GoingIs
<1> DEFINE S == {d \in 0..(b - a) : a \in Going(s) <=> a + d \in Going(s)}
<1>0. a \in Nat /\ b \in Nat /\ b - a \in Nat /\ a + 0 = a
  BY <1>1
<1>3. 0 \in S
  BY <1>0
<1>4. ASSUME NEW d \in 0..(b - a), d \in S, d < b - a  PROVE d + 1 \in S
  <2>1. PICK m \in 1..N : m = a + (d + 1) /\ m - 1 = a + d /\ m \in (a + 1)..b /\ d + 1 \in 0..(b - a)
    BY <1>0, <1>1, <1>4
  <2>2. m \in Going(s) <=> m - 1 \in Going(s)
    BY <1>1, <1>2, <2>1 DEF Reads
  <2> QED  BY <1>4, <2>1, <2>2
<1>5. 0..(b - a) \subseteq S
  <2> HIDE DEF S
  <2> QED  BY <1>0, <1>3, <1>4, Climbs
<1>6. b - a \in S /\ a + (b - a) = b
  <2>1. b - a \in 0..(b - a) /\ a + (b - a) = b
    BY <1>0
  <2> HIDE DEF S
  <2> QED  BY <1>5, <2>1
<1> QED  BY <1>6

(* Lines that stay, in their order, under their headers, stay in their     *)
(* tables.                                                                 *)
Moved(s, t, P, g) ==
  /\ P \subseteq DOMAIN s /\ g \in [P -> DOMAIN t]
  /\ \A p, q \in P : p < q => g[p] < g[q]
  /\ \A p \in P : t[g[p]] = s[p]
  /\ \A p \in P : HeaderOf(s, p) \in P \cup {0}
  /\ \A p \in P, h \in Headers(t) : h <= g[p] => \E q \in P : g[q] = h

LEMMA MovedStays ==
  ASSUME NEW s \in Seq(TomlLine), NEW t \in Seq(TomlLine), NEW P, NEW g, Moved(s, t, P, g),
         NEW i \in P
  PROVE  /\ g[i] \in DOMAIN t /\ t[g[i]] = s[i] /\ TableOf(t, g[i]) = TableOf(s, i)
         /\ HeaderOf(s, i) = 0 => HeaderOf(t, g[i]) = 0
         /\ HeaderOf(s, i) # 0 => HeaderOf(s, i) \in P /\ HeaderOf(t, g[i]) = g[HeaderOf(s, i)]
<1>1. /\ P \subseteq DOMAIN s /\ g \in [P -> DOMAIN t]
      /\ \A p, q \in P : p < q => g[p] < g[q]
      /\ \A p \in P : t[g[p]] = s[p]
      /\ \A p \in P : HeaderOf(s, p) \in P \cup {0}
      /\ \A p \in P, h \in Headers(t) : h <= g[p] => \E q \in P : g[q] = h
  BY DEF Moved
<1>2. (\A j \in DOMAIN s : j \in Nat) /\ \A j \in DOMAIN t : j \in Nat
  BY LenProperties
<1>3. \A p \in P : p \in Nat /\ g[p] \in DOMAIN t /\ g[p] \in Nat /\ (p \in Headers(s) <=> g[p] \in Headers(t))
  BY <1>1, <1>2 DEF Headers
<1>4. \A p, q \in P : g[p] <= g[q] <=> p <= q
  <2> SUFFICES ASSUME NEW p \in P, NEW q \in P  PROVE g[p] <= g[q] <=> p <= q
    OBVIOUS
  <2>1. p < q \/ p = q \/ q < p
    BY <1>3
  <2>2. (p < q => g[p] < g[q]) /\ (q < p => g[q] < g[p])
    BY <1>1
  <2> QED  BY <1>3, <2>1, <2>2
<1>5. i \in DOMAIN s /\ g[i] \in DOMAIN t
  BY <1>1, <1>3
<1>6. CASE HeaderOf(s, i) = 0
  <2>1. (\A h \in Headers(s) : ~(h <= i)) /\ TableOf(s, i) = <<>>
    BY <1>5, <1>6, HeaderIs DEF LastUpTo
  <2>2. \A h \in Headers(t) : ~(h <= g[i])
    <3> SUFFICES ASSUME NEW h \in Headers(t), h <= g[i]  PROVE FALSE
      OBVIOUS
    <3>1. PICK q \in P : g[q] = h
      BY <1>1
    <3> QED  BY <1>3, <1>4, <2>1, <3>1
  <2>3. TableOf(t, g[i]) = <<>> /\ HeaderOf(t, g[i]) = 0
    BY <1>5, <2>2, HeaderIs DEF LastUpTo
  <2> QED  BY <1>1, <1>5, <1>6, <2>1, <2>3
<1>7. CASE HeaderOf(s, i) # 0
  <2>1. PICK h \in P : h = HeaderOf(s, i) /\ LastUpTo(s, i, h) /\ TableOf(s, i) = s[h].of
    BY <1>1, <1>5, <1>7, HeaderIs
  <2>2. h \in Headers(s) /\ h <= i /\ \A x \in Headers(s) : x <= i => x <= h
    BY <2>1 DEF LastUpTo
  <2>3. g[h] \in Headers(t) /\ g[h] <= g[i]
    BY <1>3, <1>4, <2>2
  <2>4. ASSUME NEW x \in Headers(t), x <= g[i]  PROVE x <= g[h]
    <3>1. PICK q \in P : g[q] = x
      BY <1>1, <2>4
    <3> QED  BY <1>3, <1>4, <2>2, <2>4, <3>1
  <2>5. TableOf(t, g[i]) = t[g[h]].of /\ HeaderOf(t, g[i]) = g[h]
    BY <1>5, <2>3, <2>4, HeaderAt DEF LastUpTo
  <2> QED  BY <1>1, <1>5, <1>7, <2>1, <2>5
<1> QED  BY <1>6, <1>7

(* They stay together with the lines of their values, in a value or not.   *)
Together(s, t, P, g) ==
  /\ Moved(s, t, P, g)
  /\ \A p \in P : p \in Going(s) <=> g[p] \in Going(t)
  /\ \A p \in P : p - 1 \in Going(s) <=> g[p] - 1 \in Going(t)
  /\ \A p \in P : p \in Going(s) => p + 1 \in P /\ g[p + 1] = g[p] + 1

(* What a line says: the value of a key of a table, with the lines below;  *)
(* all that lines say, and the tables they have.                           *)
Entry(s, i) == <<<<TableOf(s, i), s[i].of>>, <<s[i].val, Below(s, i)>>>>
Entries(s) == {Entry(s, i) : i \in RealKeys(s)}
Names(s) == {s[h].of : h \in Headers(s)}
Depth(s, i) == {n \in 1..(Len(s) - i) : \A x \in i..(i + n - 1) : x \in Going(s)}

LEMMA BelowIs ==
  ASSUME NEW s \in Seq(TomlLine), NEW i \in DOMAIN s
  PROVE  Below(s, i) = [d \in Depth(s, i) |-> s[i + d]]
<1>1. PICK N \in Nat : N = Len(s) /\ DOMAIN s = 1..N
  BY LenProperties
<1>2. ASSUME NEW n \in 1..(N - i), NEW x \in i..(i + n - 1)  PROVE GoesOn(s)[x] <=> x \in Going(s)
  <2>1. x \in 0..N
    BY <1>1
  <2> QED  BY <1>1, <2>1 DEF Going
<1>3. Depth(s, i) = {n \in 1..(N - i) : \A x \in i..(i + n - 1) : GoesOn(s)[x]}
  BY <1>1, <1>2 DEF Depth
<1> QED  BY <1>1, <1>3 DEF Below

(* A value's lines below it move with it. *)
LEMMA TogetherBelow ==
  ASSUME NEW s \in Seq(TomlLine), NEW t \in Seq(TomlLine), NEW P, NEW g, Together(s, t, P, g), NEW i \in P
  PROVE  Below(t, g[i]) = Below(s, i)
<1>0. /\ P \subseteq DOMAIN s /\ g \in [P -> DOMAIN t] /\ \A p \in P : t[g[p]] = s[p]
      /\ \A p \in P : p \in Going(s) <=> g[p] \in Going(t)
      /\ \A p \in P : p \in Going(s) => p + 1 \in P /\ g[p + 1] = g[p] + 1
  BY DEF Together, Moved
<1>1. PICK N \in Nat : N = Len(s) /\ DOMAIN s = 1..N
  BY LenProperties
<1>2. PICK M \in Nat : M = Len(t) /\ DOMAIN t = 1..M
  BY LenProperties
<1>3. PICK k \in 1..M : k = g[i]
  BY <1>0, <1>2
<1>i. i \in 1..N
  BY <1>0, <1>1
<1> DEFINE far(n) == \A x \in 0..(n - 1) : i + x \in P /\ g[i + x] = k + x /\ i + x \in Going(s)
           S == {n \in 0..N : far(n) => i + n \in P /\ g[i + n] = k + n}
<1>4. 0 \in S
  BY <1>3, <1>i
<1>5. ASSUME NEW n \in 0..N, n \in S, n < N  PROVE n + 1 \in S
  <2>1. SUFFICES ASSUME far(n + 1)  PROVE i + (n + 1) \in P /\ g[i + (n + 1)] = k + (n + 1)
    BY <1>5
  <2>2. n \in 0..(n + 1 - 1) /\ i + (n + 1) = (i + n) + 1 /\ k + (n + 1) = (k + n) + 1
    BY <1>i, <1>3
  <2>3. i + n \in P /\ g[i + n] = k + n /\ i + n \in Going(s)
    BY <2>1, <2>2
  <2> QED  BY <1>0, <2>2, <2>3
<1>6. \A n \in 0..N : far(n) => i + n \in P /\ g[i + n] = k + n
  <2>1. 0..N \subseteq S
    <3> HIDE DEF S
    <3> QED  BY <1>4, <1>5, Climbs
  <2> QED  BY <2>1
<1>7. ASSUME NEW n \in 0..N, \A x \in 0..(n - 1) : i + x \in Going(s)  PROVE far(n)
  <2> DEFINE T == {m \in 0..n : far(m)}
  <2>1. 0 \in T
    OBVIOUS
  <2>2. ASSUME NEW m \in 0..n, m \in T, m < n  PROVE m + 1 \in T
    <3>1. m \in 0..N /\ m \in 0..(n - 1) /\ m + 1 \in 0..n
      BY <1>1, <2>2
    <3>2. i + m \in P /\ g[i + m] = k + m /\ i + m \in Going(s)
      BY <1>6, <1>7, <2>2, <3>1
    <3>3. \A x \in 0..(m + 1 - 1) : x \in 0..(m - 1) \/ x = m
      BY <3>1
    <3>4. far(m + 1)
      BY <2>2, <3>2, <3>3
    <3> QED  BY <3>1, <3>4
  <2>3. n \in Nat /\ n \in 0..n
    BY <1>1
  <2>4. 0..n \subseteq T
    <3> HIDE DEF T
    <3> QED  BY <2>1, <2>2, <2>3, Climbs
  <2> QED  BY <2>3, <2>4
<1>8. ASSUME NEW n \in 0..M, \A x \in 0..(n - 1) : k + x \in Going(t)  PROVE n <= N /\ far(n)
  <2> DEFINE T == {m \in 0..n : m <= N /\ far(m)}
  <2>1. 0 \in T
    BY <1>1
  <2>2. ASSUME NEW m \in 0..n, m \in T, m < n  PROVE m + 1 \in T
    <3>1. m \in 0..N /\ m \in 0..(n - 1) /\ m + 1 \in 0..n
      BY <1>1, <2>2
    <3>2. i + m \in P /\ g[i + m] = k + m
      BY <1>6, <2>2, <3>1
    <3>3. i + m \in Going(s)
      BY <1>0, <1>8, <3>1, <3>2
    <3>4. \A x \in 0..(m + 1 - 1) : x \in 0..(m - 1) \/ x = m
      BY <3>1
    <3>5. far(m + 1)
      BY <2>2, <3>2, <3>3, <3>4
    <3>6. m + 1 <= N
      <4>1. (i + m) + 1 \in 1..N
        BY <1>0, <1>1, <3>2, <3>3
      <4> QED  BY <1>i, <3>1, <4>1
    <3> QED  BY <3>1, <3>5, <3>6
  <2>3. n \in Nat /\ n \in 0..n
    BY <1>2
  <2>4. 0..n \subseteq T
    <3> HIDE DEF T
    <3> QED  BY <2>1, <2>2, <2>3, Climbs
  <2> QED  BY <2>3, <2>4
<1>9. ASSUME NEW n, n \in Depth(s, i)  PROVE n \in Depth(t, k) /\ t[k + n] = s[i + n]
  <2>1. n \in 1..(N - i) /\ \A x \in i..(i + n - 1) : x \in Going(s)
    BY <1>1, <1>9 DEF Depth
  <2>2. n \in 0..N /\ \A x \in 0..(n - 1) : i + x \in i..(i + n - 1)
    BY <1>1, <1>i, <2>1
  <2>3. far(n)
    BY <1>7, <2>1, <2>2
  <2>4. i + n \in P /\ g[i + n] = k + n
    BY <1>6, <2>2, <2>3
  <2>5. k + n \in 1..M /\ t[k + n] = s[i + n]
    BY <1>0, <1>2, <2>4
  <2>6. n \in 1..(M - k)
    BY <1>2, <1>3, <2>1, <2>5
  <2>7. ASSUME NEW y \in k..(k + n - 1)  PROVE y \in Going(t)
    <3>1. PICK x \in 0..(n - 1) : k + x = y
      <4>1. y - k \in 0..(n - 1) /\ k + (y - k) = y
        BY <1>2, <1>3, <2>1
      <4> QED  BY <4>1
    <3> QED  BY <1>0, <2>3, <3>1
  <2> QED  BY <1>2, <2>5, <2>6, <2>7 DEF Depth
<1>10. ASSUME NEW n, n \in Depth(t, k)  PROVE n \in Depth(s, i)
  <2>1. n \in 1..(M - k) /\ \A y \in k..(k + n - 1) : y \in Going(t)
    BY <1>2, <1>10 DEF Depth
  <2>2. n \in 0..M /\ \A x \in 0..(n - 1) : k + x \in k..(k + n - 1)
    BY <1>2, <1>3, <2>1
  <2>3. n <= N /\ far(n)
    BY <1>8, <2>1, <2>2
  <2>4. i + n \in P
    BY <1>6, <2>1, <2>3
  <2>5. n \in 1..(N - i)
    <3>1. i + n \in 1..N
      BY <1>0, <1>1, <2>4
    <3> QED  BY <1>1, <1>i, <2>1, <3>1
  <2>6. ASSUME NEW y \in i..(i + n - 1)  PROVE y \in Going(s)
    <3>1. PICK x \in 0..(n - 1) : i + x = y
      <4>1. y - i \in 0..(n - 1) /\ i + (y - i) = y
        BY <1>1, <1>i, <2>1
      <4> QED  BY <4>1
    <3> QED  BY <2>3, <3>1
  <2> QED  BY <1>1, <2>5, <2>6 DEF Depth
<1>11. Depth(t, k) = Depth(s, i)
  BY <1>9, <1>10
<1>12. Below(s, i) = [d \in Depth(s, i) |-> s[i + d]] /\ Below(t, k) = [d \in Depth(t, k) |-> t[k + d]]
  BY <1>0, <1>2, <1>3, BelowIs
<1>13. Below(t, k) = [d \in Depth(s, i) |-> t[k + d]]
  BY <1>11, <1>12
<1>14. \A d \in Depth(s, i) : t[k + d] = s[i + d]
  BY <1>9
<1>15. [d \in Depth(s, i) |-> t[k + d]] = [d \in Depth(s, i) |-> s[i + d]]
  BY <1>14
<1> QED  BY <1>3, <1>12, <1>13, <1>15

LEMMA TogetherEntries ==
  ASSUME NEW s \in Seq(TomlLine), NEW t \in Seq(TomlLine), NEW P, NEW g, Together(s, t, P, g), NEW i \in P
  PROVE  /\ i \in RealKeys(s) <=> g[i] \in RealKeys(t)
         /\ i \in RealKeys(s) => Entry(t, g[i]) = Entry(s, i)
<1>0. Moved(s, t, P, g) /\ P \subseteq DOMAIN s /\ (i - 1 \in Going(s) <=> g[i] - 1 \in Going(t))
  BY DEF Together, Moved
<1>1. g[i] \in DOMAIN t /\ t[g[i]] = s[i] /\ TableOf(t, g[i]) = TableOf(s, i) /\ i \in DOMAIN s
  BY <1>0, MovedStays
<1>2. i \in Inside(s) <=> g[i] \in Inside(t)
  <2>1. Inside(s) = {j \in DOMAIN s : j - 1 \in Going(s)} /\ Inside(t) = {j \in DOMAIN t : j - 1 \in Going(t)}
    BY GoingIs
  <2> QED  BY <1>0, <1>1, <2>1
<1>3. i \in RealKeys(s) <=> g[i] \in RealKeys(t)
  BY <1>1, <1>2 DEF RealKeys, KeyLines
<1>4. Below(t, g[i]) = Below(s, i)
  BY TogetherBelow
<1> QED  BY <1>1, <1>3, <1>4 DEF Entry

(* A file that reads as it should: in values nothing looks like a header   *)
(* or a managed key, and no value is left open at the end.                 *)
Good(s) == Plain(s) /\ Len(s) \notin Going(s)
LEMMA TogetherPlain ==
  ASSUME NEW s \in Seq(TomlLine), NEW t \in Seq(TomlLine), NEW P, NEW g, Together(s, t, P, g),
         Plain(s), \A k \in Inside(t) : \E p \in P : g[p] = k
  PROVE  Plain(t)
<1> SUFFICES ASSUME NEW k \in Inside(t)
             PROVE  /\ t[k].at # "table"
                    /\ t[k].at = "key" => ~t[k].turns /\ <<TableOf(t, k), t[k].of>> \notin Range(Managed)
  BY DEF Plain
<1>1. PICK p \in P : g[p] = k
  OBVIOUS
<1>0. Moved(s, t, P, g) /\ P \subseteq DOMAIN s /\ (p - 1 \in Going(s) <=> g[p] - 1 \in Going(t))
  BY DEF Together, Moved
<1>2. t[k] = s[p] /\ TableOf(t, k) = TableOf(s, p) /\ p \in DOMAIN s
  BY <1>0, <1>1, MovedStays
<1>3. p \in Inside(s)
  <2>1. Inside(s) = {j \in DOMAIN s : j - 1 \in Going(s)} /\ Inside(t) = {j \in DOMAIN t : j - 1 \in Going(t)}
    BY GoingIs
  <2> QED  BY <1>0, <1>1, <1>2, <2>1
<1> QED  BY <1>2, <1>3 DEF Plain

LEMMA HeaderNext ==
  ASSUME NEW s \in Seq(TomlLine), NEW i \in DOMAIN s, i + 1 \in DOMAIN s, i + 1 \notin Headers(s)
  PROVE  HeaderOf(s, i + 1) = HeaderOf(s, i) /\ TableOf(s, i + 1) = TableOf(s, i)
<1>1. \A h \in Headers(s) : h \in Nat
  BY HeaderIs
<1>2. i \in Nat
  BY HeaderIs
<1>3. {h \in Headers(s) : h <= i + 1} = {h \in Headers(s) : h <= i}
  BY <1>1, <1>2
<1>4. HeaderOf(s, i + 1) = HeaderOf(s, i)
  BY <1>3 DEF HeaderOf
<1> QED  BY <1>4 DEF TableOf

LEMMA RetiredIs ==
  ASSUME ManagedAssumption
  PROVE  ~IsRetired(<<>>)
<1> SUFFICES ASSUME NEW r \in Range(Retired), IsPrefix(r, <<>>)  PROVE FALSE
  BY DEF IsRetired
<1>1. r \in Seq(STRING) /\ r # <<>>
  BY DEF ManagedAssumption, TableName, Range
<1>2. Len(r) \in Nat /\ Len(r) # 0
  BY <1>1
<1>3. Len(r) <= Len(<<>>)
  BY DEF IsPrefix
<1> QED  BY <1>2, <1>3

(* The retired tables go with all they say, and nothing else does.         *)
LEMMA TablesRemoved ==
  ASSUME ManagedAssumption, NEW s \in Seq(TomlLine), NEW t, t = RemoveTables(s)
  PROVE  /\ t \in Seq(TomlLine)
         /\ \A x \in Names(t) : ~IsRetired(x)
         /\ Good(s) => Good(t) /\ \A r : r \in Entries(t) <=> r \in Entries(s) /\ ~IsRetired(r[1][1])
<1>1. PICK n \in Nat : n = Len(s) /\ DOMAIN s = 1..n
  BY LenProperties
<1>2. PICK P \in SUBSET (1..n) : P = {i \in DOMAIN s : HeaderOf(s, i) = 0 \/ ~IsRetired(TableOf(s, i))}
  BY <1>1
<1>3. t = Sublist(s, P)
  BY <1>2 DEF RemoveTables
<1>4. /\ t \in Seq(TomlLine) /\ DOMAIN t = 1..Cardinality(P)
      /\ \A k \in DOMAIN t : \E p \in P : Rank(P, p) = k
      /\ \A i \in P : Rank(P, i) \in DOMAIN t /\ t[Rank(P, i)] = s[i]
  <2>1. \A i \in P : s[i] \in TomlLine
    BY <1>1
  <2>2. t \in Seq(TomlLine) /\ DOMAIN t = 1..Cardinality(P)
    <3>1. Sublist(s, P) \in Seq(TomlLine) /\ DOMAIN Sublist(s, P) = 1..Cardinality(P)
      BY <2>1, SublistHas
    <3> QED  BY <1>3, <3>1
  <2>3. ASSUME NEW i \in P  PROVE Rank(P, i) \in 1..Cardinality(P) /\ t[Rank(P, i)] = s[i]
    <3>1. Rank(P, i) \in 1..Cardinality(P) /\ Sublist(s, P)[Rank(P, i)] = s[i]
      BY AtRank
    <3> QED  BY <1>3, <3>1
  <2>4. \A k \in 1..Cardinality(P) : \E p \in P : Rank(P, p) = k
    BY AtPlace
  <2> QED  BY <2>2, <2>3, <2>4
<1>5. PICK g : g = [p \in P |-> Rank(P, p)]
  OBVIOUS
<1>h. ASSUME NEW i \in DOMAIN s, NEW h, h = HeaderOf(s, i), h # 0
      PROVE  h \in Headers(s) /\ h \in DOMAIN s /\ HeaderOf(s, h) = h /\ TableOf(s, h) = TableOf(s, i)
  <2>1. LastUpTo(s, i, h) /\ TableOf(s, i) = s[h].of
    BY <1>h, HeaderIs
  <2>2. h \in DOMAIN s /\ LastUpTo(s, h, h)
    <3>1. h \in Headers(s) /\ h \in Nat
      BY <2>1, HeaderIs DEF LastUpTo
    <3> QED  BY <3>1 DEF LastUpTo, Headers
  <2>3. HeaderOf(s, h) = h /\ TableOf(s, h) = s[h].of
    BY <2>2, HeaderAt
  <2> QED  BY <2>1, <2>2, <2>3 DEF LastUpTo
<1>6. Moved(s, t, P, g)
  <2>1. P \subseteq DOMAIN s /\ g \in [P -> DOMAIN t]
    BY <1>1, <1>4, <1>5
  <2>2. \A p, q \in P : p < q => g[p] < g[q]
    BY <1>5, RankGrows
  <2>3. \A p \in P : t[g[p]] = s[p]
    BY <1>4, <1>5
  <2>4. ASSUME NEW p \in P, HeaderOf(s, p) # 0  PROVE HeaderOf(s, p) \in P
    BY <1>h, <1>2, <2>4
  <2>5. \A p \in P, h \in Headers(t) : h <= g[p] => \E q \in P : g[q] = h
    BY <1>4, <1>5 DEF Headers
  <2> QED  BY <2>1, <2>2, <2>3, <2>4, <2>5 DEF Moved
<1>7. ASSUME NEW k \in DOMAIN t  PROVE \E p \in P : g[p] = k /\ t[k] = s[p] /\ TableOf(t, k) = TableOf(s, p)
  <2>1. PICK p \in P : g[p] = k
    BY <1>4, <1>5
  <2>2. t[g[p]] = s[p] /\ TableOf(t, g[p]) = TableOf(s, p)
    <3>1. t \in Seq(TomlLine)
      BY <1>4
    <3> QED  BY <1>6, <3>1, MovedStays
  <2> QED  BY <2>1, <2>2
<1>8. ASSUME Good(s)  PROVE Together(s, t, P, g) /\ Good(t)
  <2>l. Len(t) \in Nat /\ DOMAIN t = 1..Len(t)
    BY <1>4, LenProperties
  <2>g. \A p \in P : p \in 1..n /\ p \in DOMAIN s /\ g[p] \in DOMAIN t /\ g[p] \in Nat
    BY <1>1, <1>4, <1>5
  <2>m. \A p, q \in P : (p < q => g[p] < g[q]) /\ (p # q => g[p] # g[q]) /\ (g[p] < g[q] => p < q)
    <3> SUFFICES ASSUME NEW p \in P, NEW q \in P
                 PROVE (p < q => g[p] < g[q]) /\ (p # q => g[p] # g[q]) /\ (g[p] < g[q] => p < q)
      OBVIOUS
    <3>1. (p < q => g[p] < g[q]) /\ (q < p => g[q] < g[p])
      BY <1>5, RankGrows
    <3> QED  BY <2>g, <3>1
  <2>r. Reads(s, Going(s)) /\ Inside(s) = {i \in DOMAIN s : i - 1 \in Going(s)}
    BY GoingIs
  <2>1. ASSUME NEW i \in 1..n, i \in Going(s)
        PROVE  i + 1 \in DOMAIN s /\ (i + 1 \in P <=> i \in P)
    <3>1. i # n
      BY <1>1, <1>8, <2>1 DEF Good
    <3>2. i \in DOMAIN s /\ i + 1 \in DOMAIN s /\ i + 1 - 1 = i
      BY <1>1, <3>1
    <3>3. i + 1 \in Inside(s)
      BY <2>1, <2>r, <3>2
    <3>4. i + 1 \notin Headers(s)
      BY <1>8, <3>3 DEF Good, Plain, Headers
    <3>5. HeaderOf(s, i + 1) = HeaderOf(s, i) /\ TableOf(s, i + 1) = TableOf(s, i)
      BY <3>2, <3>4, HeaderNext
    <3> QED  BY <1>2, <3>2, <3>5
  <2>2. ASSUME NEW p \in P, p \in Going(s)  PROVE p + 1 \in P /\ g[p + 1] = g[p] + 1
    <3>1. p + 1 \in P /\ p < p + 1
      BY <2>1, <2>2, <2>g
    <3>2. g[p] < g[p + 1]
      BY <2>m, <3>1
    <3>3. g[p] + 1 \in DOMAIN t
      BY <2>g, <2>l, <3>1, <3>2
    <3>4. PICK q \in P : g[q] = g[p] + 1
      BY <1>4, <1>5, <3>3
    <3>5. p < q
      BY <2>g, <2>m, <3>4
    <3>6. ~(p + 1 < q)
      <4>1. ~(g[p + 1] < g[q])
        BY <2>g, <3>1, <3>2, <3>4
      <4> QED  BY <2>m, <3>1, <4>1
    <3>7. q = p + 1
      BY <2>g, <3>1, <3>5, <3>6
    <3> QED  BY <3>1, <3>4, <3>7
  <2> DEFINE A == {k \in DOMAIN t : \E p \in P : g[p] = k /\ p \in Going(s)}
  <2>3. ASSUME NEW q \in P  PROVE g[q] \in A <=> q \in Going(s)
    BY <2>g, <2>m
  <2>4. ASSUME NEW q \in P  PROVE g[q] - 1 \in A <=> q - 1 \in Going(s)
    <3>1. ASSUME q - 1 \in Going(s)  PROVE g[q] - 1 \in A
      <4>1. PICK p \in 1..n : p = q - 1 /\ p + 1 = q
        <5>1. q - 1 # 0
          BY <2>r, <3>1 DEF Reads
        <5> QED  BY <2>g, <5>1
      <4>2. p \in P
        BY <2>1, <3>1, <4>1
      <4>3. g[q] = g[p] + 1
        BY <2>2, <3>1, <4>1, <4>2
      <4>4. g[q] - 1 = g[p]
        BY <2>g, <4>2, <4>3
      <4> QED  BY <2>3, <3>1, <4>1, <4>2, <4>4
    <3>2. ASSUME g[q] - 1 \in A  PROVE q - 1 \in Going(s)
      <4>1. PICK p \in P : g[p] = g[q] - 1 /\ p \in Going(s)
        BY <3>2
      <4>2. p + 1 \in P /\ g[p + 1] = g[p] + 1
        BY <2>2, <4>1
      <4>3. g[p + 1] = g[q]
        BY <2>g, <4>1, <4>2
      <4>4. p + 1 = q
        BY <2>m, <4>2, <4>3
      <4>5. q - 1 = p
        BY <2>g, <4>1, <4>4
      <4> QED  BY <4>1, <4>5
    <3> QED  BY <3>1, <3>2
  <2>5. A = Going(t)
    <3> HIDE DEF A
    <3>1. A \subseteq 0..Len(t) /\ 0 \notin A
      BY <2>l DEF A
    <3>2. ASSUME NEW k \in 1..Len(t)  PROVE k \in A <=> (k \in Turning(t) <=> k - 1 \notin A)
      <4>1. PICK q \in P : g[q] = k
        BY <1>4, <1>5, <2>l
      <4>2. k \in A <=> q \in Going(s)
        BY <2>3, <4>1
      <4>3. k - 1 \in A <=> q - 1 \in Going(s)
        BY <2>4, <4>1
      <4>4. k \in Turning(t) <=> q \in Turning(s)
        BY <1>4, <1>5, <2>g, <2>l, <4>1 DEF Turning
      <4>5. q \in Going(s) <=> (q \in Turning(s) <=> q - 1 \notin Going(s))
        BY <1>1, <2>g, <2>r DEF Reads
      <4> QED  BY <4>2, <4>3, <4>4, <4>5
    <3>3. Reads(t, A)
      BY <3>1, <3>2 DEF Reads
    <3> QED  BY <1>4, <3>3, GoingOnly
  <2> HIDE DEF A
  <2>6. Together(s, t, P, g)
    BY <1>6, <2>2, <2>3, <2>4, <2>5 DEF Together
  <2>7. Len(t) \notin Going(t)
    <3> SUFFICES ASSUME Len(t) \in Going(t)  PROVE FALSE
      OBVIOUS
    <3>1. PICK p \in P : g[p] = Len(t) /\ p \in Going(s)
      BY <2>5 DEF A
    <3>2. p + 1 \in P /\ g[p + 1] = Len(t) + 1
      BY <2>2, <3>1
    <3> QED  BY <2>g, <2>l, <3>2
  <2>8. Plain(t)
    <3>1. ASSUME NEW k \in Inside(t)  PROVE \E p \in P : g[p] = k
      <4>1. k \in DOMAIN t
        BY DEF Inside
      <4> QED  BY <1>4, <1>5, <4>1
    <3> QED  BY <1>4, <1>8, <2>6, <3>1, TogetherPlain DEF Good
  <2> QED  BY <2>6, <2>7, <2>8 DEF Good
<1>9. ASSUME Good(s), NEW r  PROVE r \in Entries(t) <=> r \in Entries(s) /\ ~IsRetired(r[1][1])
  <2>t. Together(s, t, P, g) /\ t \in Seq(TomlLine)
    BY <1>4, <1>8, <1>9
  <2>1. ASSUME r \in Entries(t)  PROVE r \in Entries(s) /\ ~IsRetired(r[1][1])
    <3>1. PICK k \in RealKeys(t) : r = Entry(t, k)
      BY <2>1 DEF Entries
    <3>2. PICK p \in P : g[p] = k
      BY <1>7, <3>1 DEF RealKeys, KeyLines
    <3>3. p \in RealKeys(s) /\ r = Entry(s, p)
      BY <2>t, <3>1, <3>2, TogetherEntries
    <3>4. HeaderOf(s, p) = 0 => TableOf(s, p) = <<>>
      BY DEF TableOf
    <3>5. ~IsRetired(TableOf(s, p))
      BY <1>2, <3>4, RetiredIs
    <3>6. r[1][1] = TableOf(s, p)
      BY <3>3 DEF Entry
    <3> QED  BY <3>3, <3>5, <3>6 DEF Entries
  <2>2. ASSUME r \in Entries(s), ~IsRetired(r[1][1])  PROVE r \in Entries(t)
    <3>1. PICK i \in RealKeys(s) : r = Entry(s, i)
      BY <2>2 DEF Entries
    <3>2. r[1][1] = TableOf(s, i)
      BY <3>1 DEF Entry
    <3>3. i \in P
      BY <1>2, <2>2, <3>1, <3>2 DEF RealKeys, KeyLines
    <3>4. g[i] \in RealKeys(t) /\ Entry(t, g[i]) = r
      BY <2>t, <3>1, <3>3, TogetherEntries
    <3> QED  BY <3>4 DEF Entries
  <2> QED  BY <2>1, <2>2
<1>10. ASSUME NEW x \in Names(t)  PROVE ~IsRetired(x)
  <2>1. PICK k \in Headers(t) : x = t[k].of
    BY DEF Names
  <2>2. PICK p \in P : t[k] = s[p]
    BY <1>7, <2>1 DEF Headers
  <2>3. p \in Headers(s) /\ p \in DOMAIN s /\ p \in Nat
    BY <1>1, <2>1, <2>2 DEF Headers
  <2>4. LastUpTo(s, p, p)
    BY <2>3 DEF LastUpTo
  <2>5. HeaderOf(s, p) = p /\ TableOf(s, p) = x
    BY <2>1, <2>2, <2>3, <2>4, HeaderAt
  <2> QED  BY <1>2, <2>3, <2>5, HeaderIs
<1> QED  BY <1>4, <1>8, <1>9, <1>10

(* One line more: the others stay as they are, and it is in the table of   *)
(* the line before it, or in none at the top.                              *)
Inserts(s, e, new, t) == e \in 0..Len(s) /\ new \in TomlLine /\ t = InsertAt(s, e + 1, new)
LEMMA Inserted ==
  ASSUME NEW s \in Seq(TomlLine), NEW e, NEW new, NEW t, Inserts(s, e, new, t)
  PROVE  /\ t \in Seq(TomlLine) /\ DOMAIN t = 1..(Len(s) + 1)
         /\ t[e + 1] = new
         /\ \A i \in 1..e : t[i] = s[i]
         /\ \A i \in (e + 1)..Len(s) : t[i + 1] = s[i]
<1>0. e \in 0..Len(s) /\ new \in TomlLine /\ t = InsertAt(s, e + 1, new)
  BY DEF Inserts
<1>1. PICK n \in Nat : n = Len(s) /\ DOMAIN s = 1..n
  BY LenProperties
<1>2. PICK a : a = SubSeq(s, 1, e)
  OBVIOUS
<1>3. PICK b : b = SubSeq(s, e + 1, n)
  OBVIOUS
<1>4. e + 1 - 1 = e
  BY <1>0, <1>1
<1>5. t = (a \o <<new>>) \o b
  <2>1. PICK p : p = e + 1
    OBVIOUS
  <2>2. t = InsertAt(s, p, new)
    BY <1>0, <2>1
  <2>3. t = (SubSeq(s, 1, p - 1) \o <<new>>) \o SubSeq(s, p, Len(s))
    BY <2>2 DEF InsertAt
  <2>4. a = SubSeq(s, 1, p - 1) /\ b = SubSeq(s, p, Len(s))
    BY <1>0, <1>1, <1>2, <1>3, <1>4, <2>1
  <2> QED  BY <2>3, <2>4
<1>6. a \in Seq(TomlLine) /\ Len(a) = e /\ \A i \in 1..e : a[i] = s[i]
  BY <1>0, <1>1, <1>2
<1>7. b \in Seq(TomlLine) /\ Len(b) = n - e /\ \A i \in 1..(n - e) : b[i] = s[e + i]
  BY <1>0, <1>1, <1>3
<1>8. PICK c : c = a \o <<new>>
  OBVIOUS
<1>9. c \in Seq(TomlLine) /\ Len(c) = e + 1 /\ c[e + 1] = new /\ \A i \in 1..e : c[i] = s[i]
  BY <1>0, <1>1, <1>6, <1>8
<1>10. t \in Seq(TomlLine) /\ Len(t) = n + 1
       /\ \A i \in 1..(n + 1) : t[i] = IF i <= e + 1 THEN c[i] ELSE b[i - (e + 1)]
  <2>1. t = c \o b
    BY <1>5, <1>8, Zenon
  <2>2. /\ t \in Seq(TomlLine) /\ Len(t) = Len(c) + Len(b)
        /\ \A i \in 1..(Len(c) + Len(b)) : t[i] = IF i <= Len(c) THEN c[i] ELSE b[i - Len(c)]
    <3>1. c \in Seq(TomlLine) /\ b \in Seq(TomlLine)
      BY <1>7, <1>9
    <3>2. /\ c \o b \in Seq(TomlLine) /\ Len(c \o b) = Len(c) + Len(b)
          /\ \A i \in 1..(Len(c) + Len(b)) : (c \o b)[i] = IF i <= Len(c) THEN c[i] ELSE b[i - Len(c)]
      BY <3>1, ConcatProperties
    <3> QED  BY <2>1, <3>2
  <2>3. Len(c) + Len(b) = n + 1
    BY <1>0, <1>1, <1>7, <1>9
  <2> QED  BY <1>9, <2>2, <2>3
<1>11. t[e + 1] = new /\ \A i \in 1..e : t[i] = s[i]
  <2>1. e + 1 \in 1..(n + 1) /\ \A i \in 1..e : i \in 1..(n + 1) /\ i <= e + 1
    BY <1>0, <1>1
  <2> QED  BY <1>9, <1>10, <2>1
<1>12. ASSUME NEW i \in (e + 1)..n  PROVE t[i + 1] = s[i]
  <2>1. PICK j \in 1..(n - e) : j = i - e /\ i + 1 - (e + 1) = j /\ e + j = i
    BY <1>0, <1>1
  <2>2. i + 1 \in 1..(n + 1) /\ ~(i + 1 <= e + 1)
    BY <1>0, <1>1
  <2> QED  BY <1>0, <1>1, <1>7, <1>10, <2>1, <2>2
<1>13. DOMAIN t = 1..(n + 1)
  BY <1>10
<1> QED  BY <1>1, <1>10, <1>11, <1>12, <1>13

(* A line that is no header comes in, or a header at the end: no table is  *)
(* another's for it.                                                       *)
Shift(s, e) == [i \in DOMAIN s |-> IF i <= e THEN i ELSE i + 1]
LEMMA InsertMoves ==
  ASSUME NEW s \in Seq(TomlLine), NEW e, NEW new, NEW t, Inserts(s, e, new, t), new.at = "key" \/ e = Len(s)
  PROVE  /\ t \in Seq(TomlLine) /\ DOMAIN t = 1..(Len(s) + 1) /\ e + 1 \in DOMAIN t /\ t[e + 1] = new
         /\ Moved(s, t, DOMAIN s, Shift(s, e))
         /\ \A k \in DOMAIN t \ {e + 1} : \E i \in DOMAIN s : Shift(s, e)[i] = k
         /\ new.at = "key" =>
              /\ HeaderOf(t, e + 1) = IF e = 0 THEN 0 ELSE HeaderOf(s, e)
              /\ TableOf(t, e + 1) = IF e = 0 THEN <<>> ELSE TableOf(s, e)
<1>1. PICK n \in Nat : n = Len(s) /\ DOMAIN s = 1..n /\ e \in 0..n
  BY LenProperties DEF Inserts
<1>2. /\ t \in Seq(TomlLine) /\ DOMAIN t = 1..(n + 1) /\ t[e + 1] = new
      /\ \A i \in 1..e : t[i] = s[i]
      /\ \A i \in (e + 1)..n : t[i + 1] = s[i]
  <2>1. /\ t \in Seq(TomlLine) /\ DOMAIN t = 1..(Len(s) + 1) /\ t[e + 1] = new
        /\ \A i \in 1..e : t[i] = s[i]
        /\ \A i \in (e + 1)..Len(s) : t[i + 1] = s[i]
    BY Inserted
  <2> QED  BY <1>1, <2>1
<1>3. PICK g : g = Shift(s, e) /\ g = [i \in DOMAIN s |-> IF i <= e THEN i ELSE i + 1]
  BY DEF Shift
<1>4. \A i \in DOMAIN s : g[i] = (IF i <= e THEN i ELSE i + 1) /\ i \in 1..n /\ g[i] \in 1..(n + 1)
  BY <1>1, <1>3
<1>5. \A i \in DOMAIN s : t[g[i]] = s[i]
  <2> SUFFICES ASSUME NEW i \in DOMAIN s  PROVE t[g[i]] = s[i]
    OBVIOUS
  <2>1. CASE i <= e
    <3>1. i \in 1..e
      BY <1>4, <2>1
    <3> QED  BY <1>2, <1>4, <2>1, <3>1
  <2>2. CASE ~(i <= e)
    <3>1. i \in (e + 1)..n
      BY <1>1, <1>4, <2>2
    <3> QED  BY <1>2, <1>4, <2>2, <3>1
  <2> QED  BY <2>1, <2>2
<1>6. \A k \in DOMAIN t \ {e + 1} : \E i \in DOMAIN s : g[i] = k
  <2> SUFFICES ASSUME NEW k \in DOMAIN t \ {e + 1}  PROVE \E i \in DOMAIN s : g[i] = k
    OBVIOUS
  <2>1. k \in 1..(n + 1) /\ k # e + 1
    BY <1>2
  <2>2. CASE k <= e
    <3>1. k \in DOMAIN s
      BY <1>1, <2>1, <2>2
    <3> QED  BY <1>4, <2>2, <3>1
  <2>3. CASE ~(k <= e)
    <3>1. k - 1 \in DOMAIN s /\ ~(k - 1 <= e) /\ k - 1 + 1 = k
      BY <1>1, <2>1, <2>3
    <3> QED  BY <1>4, <3>1
  <2> QED  BY <2>2, <2>3
<1>7. ASSUME NEW h \in Headers(t), NEW p \in DOMAIN s, h <= g[p]  PROVE h # e + 1
  <2>1. CASE new.at = "key"
    BY <1>2, <2>1 DEF Headers
  <2>2. CASE e = Len(s)
    BY <1>1, <1>4, <1>7, <2>2
  <2> QED  BY <2>1, <2>2
<1>8. Moved(s, t, DOMAIN s, g)
  <2>1. g \in [DOMAIN s -> DOMAIN t]
    BY <1>2, <1>3, <1>4
  <2>2. \A p, q \in DOMAIN s : p < q => g[p] < g[q]
    BY <1>1, <1>4
  <2>3. \A p \in DOMAIN s : HeaderOf(s, p) \in DOMAIN s \cup {0}
    BY HeaderIs DEF LastUpTo, Headers
  <2>4. \A p \in DOMAIN s, h \in Headers(t) : h <= g[p] => \E q \in DOMAIN s : g[q] = h
    <3> SUFFICES ASSUME NEW p \in DOMAIN s, NEW h \in Headers(t), h <= g[p]  PROVE \E q \in DOMAIN s : g[q] = h
      OBVIOUS
    <3>1. h # e + 1 /\ h \in DOMAIN t
      BY <1>7 DEF Headers
    <3> QED  BY <1>6, <3>1
  <2> QED  BY <1>5, <2>1, <2>2, <2>3, <2>4 DEF Moved
<1>10. e + 1 \in DOMAIN t
  BY <1>1, <1>2
<1>11. ASSUME new.at = "key"
       PROVE  /\ HeaderOf(t, e + 1) = IF e = 0 THEN 0 ELSE HeaderOf(s, e)
              /\ TableOf(t, e + 1) = IF e = 0 THEN <<>> ELSE TableOf(s, e)
  <2>0. e + 1 \notin Headers(t)
    BY <1>2, <1>11 DEF Headers
  <2>1. \A x \in Headers(t) : x <= e + 1 => x \in 1..e /\ x \in Headers(s)
    <3> SUFFICES ASSUME NEW x \in Headers(t), x <= e + 1  PROVE x \in 1..e /\ x \in Headers(s)
      OBVIOUS
    <3>1. x \in 1..(n + 1) /\ x # e + 1
      BY <1>2, <2>0 DEF Headers
    <3>2. x \in 1..e /\ x \in 1..n
      BY <1>1, <3>1
    <3> QED  BY <1>1, <1>2, <3>2 DEF Headers
  <2>2. CASE \A x \in Headers(t) : ~(x <= e + 1)
    <3>1. TableOf(t, e + 1) = <<>> /\ HeaderOf(t, e + 1) = 0
      BY <1>2, <1>10, <2>2, HeaderIs DEF LastUpTo
    <3>2. e # 0 => \A x \in Headers(s) : ~(x <= e)
      <4> SUFFICES ASSUME e # 0, NEW x \in Headers(s), x <= e  PROVE FALSE
        OBVIOUS
      <4>1. x \in 1..e /\ x \in 1..n /\ x <= e + 1 /\ x \in 1..(n + 1)
        BY <1>1 DEF Headers
      <4>2. x \in Headers(t)
        BY <1>2, <4>1 DEF Headers
      <4> QED  BY <2>2, <4>1, <4>2
    <3>3. e # 0 => TableOf(s, e) = <<>> /\ HeaderOf(s, e) = 0
      <4>1. e # 0 => e \in DOMAIN s
        BY <1>1
      <4> QED  BY <3>2, <4>1, HeaderIs DEF LastUpTo
    <3> QED  BY <3>1, <3>3
  <2>3. CASE \E x \in Headers(t) : x <= e + 1
    <3>1. PICK h : LastUpTo(t, e + 1, h) /\ TableOf(t, e + 1) = t[h].of /\ HeaderOf(t, e + 1) = h
      BY <1>2, <1>10, <2>3, HeaderIs
    <3>2. h \in 1..e /\ h \in Headers(s) /\ t[h] = s[h]
      BY <1>2, <2>1, <3>1 DEF LastUpTo
    <3>3. e # 0 /\ e \in DOMAIN s
      BY <1>1, <3>2
    <3>4. \A x \in Headers(s) : x <= e => x <= h
      <4> SUFFICES ASSUME NEW x \in Headers(s), x <= e  PROVE x <= h
        OBVIOUS
      <4>1. x \in 1..e /\ x \in 1..n /\ x <= e + 1 /\ x \in 1..(n + 1)
        BY <1>1 DEF Headers
      <4>2. x \in Headers(t)
        BY <1>2, <4>1 DEF Headers
      <4> QED  BY <3>1, <4>1, <4>2 DEF LastUpTo
    <3>5. LastUpTo(s, e, h)
      BY <3>2, <3>4 DEF LastUpTo
    <3>6. TableOf(s, e) = s[h].of /\ HeaderOf(s, e) = h
      BY <3>3, <3>5, HeaderAt
    <3> QED  BY <3>1, <3>2, <3>3, <3>6
  <2> QED  BY <2>2, <2>3
<1>12. \A k \in DOMAIN t \ {e + 1} : \E i \in DOMAIN s : Shift(s, e)[i] = k
  BY <1>3, <1>6
<1>13. Moved(s, t, DOMAIN s, Shift(s, e))
  BY <1>3, <1>8
<1> QED  BY <1>1, <1>2, <1>10, <1>11, <1>12, <1>13

(* A line that does not turn opens and closes no value. *)
LEMMA InsertGoing ==
  ASSUME NEW s \in Seq(TomlLine), NEW e, NEW new, NEW t, Inserts(s, e, new, t), new.turns = FALSE
  PROVE  \A k \in 0..(Len(s) + 1) : k \in Going(t) <=> IF k <= e THEN k \in Going(s) ELSE k - 1 \in Going(s)
<1>1. PICK n \in Nat : n = Len(s) /\ DOMAIN s = 1..n /\ e \in 0..n
  BY LenProperties DEF Inserts
<1>2. /\ t \in Seq(TomlLine) /\ DOMAIN t = 1..(n + 1) /\ t[e + 1] = new
      /\ \A i \in 1..e : t[i] = s[i]
      /\ \A i \in (e + 1)..n : t[i + 1] = s[i]
  <2>1. /\ t \in Seq(TomlLine) /\ DOMAIN t = 1..(Len(s) + 1) /\ t[e + 1] = new
        /\ \A i \in 1..e : t[i] = s[i]
        /\ \A i \in (e + 1)..Len(s) : t[i + 1] = s[i]
    BY Inserted
  <2> QED  BY <1>1, <2>1
<1>3. Len(t) = n + 1
  BY <1>1, <1>2, LenProperties
<1>4. Reads(s, Going(s))
  BY GoingIs
<1> DEFINE A == {k \in 0..(n + 1) : IF k <= e THEN k \in Going(s) ELSE k - 1 \in Going(s)}
<1>5. 0 \notin A
  BY <1>1, <1>4 DEF Reads
<1>6. ASSUME NEW k \in 1..(n + 1)  PROVE k \in A <=> (k \in Turning(t) <=> k - 1 \notin A)
  <2>1. CASE k <= e
    <3>1. k \in 1..n /\ k \in 1..e /\ k - 1 <= e /\ k - 1 \in 0..(n + 1)
      BY <1>1, <2>1
    <3>2. k \in Turning(t) <=> k \in Turning(s)
      BY <1>1, <1>2, <3>1 DEF Turning
    <3>3. k \in Going(s) <=> (k \in Turning(s) <=> k - 1 \notin Going(s))
      BY <1>1, <1>4, <3>1 DEF Reads
    <3> QED  BY <2>1, <3>1, <3>2, <3>3
  <2>2. CASE k = e + 1
    <3>1. k \notin Turning(t)
      BY <1>2, <2>2 DEF Turning
    <3>2. ~(k <= e) /\ k - 1 <= e /\ k - 1 \in 0..(n + 1)
      BY <1>1, <2>2
    <3> QED  BY <3>1, <3>2
  <2>3. CASE ~(k <= e) /\ k # e + 1
    <3>1. PICK j \in (e + 1)..n : j = k - 1 /\ j + 1 = k /\ j \in 1..n
      BY <1>1, <2>3
    <3>2. k \in Turning(t) <=> j \in Turning(s)
      BY <1>1, <1>2, <3>1 DEF Turning
    <3>3. j \in Going(s) <=> (j \in Turning(s) <=> j - 1 \notin Going(s))
      BY <1>1, <1>4, <3>1 DEF Reads
    <3>4. ~(k - 1 <= e) /\ k - 1 \in 0..(n + 1) /\ k - 1 - 1 = j - 1
      BY <1>1, <3>1
    <3> QED  BY <2>3, <3>1, <3>2, <3>3, <3>4
  <2> QED  BY <2>1, <2>2, <2>3
<1>7. A = Going(t)
  <2>1. Reads(t, A)
    <3> HIDE DEF A
    <3>1. A \subseteq 0..(n + 1)
      BY DEF A
    <3> QED  BY <1>3, <1>5, <1>6, <3>1 DEF Reads
  <2> HIDE DEF A
  <2> QED  BY <1>2, <2>1, GoingOnly
<1> QED  BY <1>1, <1>7

LEMMA InsertTogether ==
  ASSUME NEW s \in Seq(TomlLine), NEW e, NEW new, NEW t, Inserts(s, e, new, t), new.turns = FALSE,
         new.at = "key" \/ e = Len(s), Good(s), e \notin Going(s)
  PROVE  /\ Together(s, t, DOMAIN s, Shift(s, e)) /\ Good(t)
         /\ e \notin Going(t) /\ e + 1 \notin Going(t)
<1>1. PICK n \in Nat : n = Len(s) /\ DOMAIN s = 1..n /\ e \in 0..n
  BY LenProperties DEF Inserts
<1>2. /\ t \in Seq(TomlLine) /\ DOMAIN t = 1..(n + 1)
      /\ Moved(s, t, DOMAIN s, Shift(s, e))
      /\ \A k \in DOMAIN t \ {e + 1} : \E i \in DOMAIN s : Shift(s, e)[i] = k
  BY <1>1, InsertMoves
<1>3. \A k \in 0..(n + 1) : k \in Going(t) <=> IF k <= e THEN k \in Going(s) ELSE k - 1 \in Going(s)
  BY <1>1, InsertGoing
<1>4. \A i \in 1..n : Shift(s, e)[i] = IF i <= e THEN i ELSE i + 1
  BY <1>1 DEF Shift
<1>5. e \notin Going(t) /\ e + 1 \notin Going(t)
  <2>1. e \in 0..(n + 1) /\ e + 1 \in 0..(n + 1) /\ ~(e + 1 <= e) /\ e + 1 - 1 = e /\ e <= e
    BY <1>1
  <2> QED  BY <1>3, <2>1
<1>6. n \notin Going(s)
  BY <1>1 DEF Good
<1>7. ASSUME NEW p \in 1..n
      PROVE  /\ p \in Going(s) <=> Shift(s, e)[p] \in Going(t)
             /\ p - 1 \in Going(s) <=> Shift(s, e)[p] - 1 \in Going(t)
             /\ p \in Going(s) => p + 1 \in 1..n /\ Shift(s, e)[p + 1] = Shift(s, e)[p] + 1
  <2>1. CASE p <= e
    <3>1. p \in 0..(n + 1) /\ p - 1 \in 0..(n + 1) /\ p - 1 <= e /\ Shift(s, e)[p] = p
      BY <1>1, <1>4, <2>1
    <3>2. p \in Going(s) => p + 1 <= e /\ p + 1 \in 1..n
      BY <1>1, <2>1
    <3> QED  BY <1>3, <1>4, <2>1, <3>1, <3>2
  <2>2. CASE ~(p <= e)
    <3>1. /\ p + 1 \in 0..(n + 1) /\ ~(p + 1 <= e) /\ p + 1 - 1 = p /\ Shift(s, e)[p] = p + 1 /\ p \in 0..(n + 1)
      BY <1>1, <1>4, <2>2
    <3>2. p + 1 \in Going(t) <=> p \in Going(s)
      BY <1>3, <3>1
    <3>3. p \in Going(t) <=> p - 1 \in Going(s)
      BY <1>3, <2>2, <3>1
    <3>4. p \in Going(s) => p + 1 \in 1..n
      BY <1>6
    <3>5. p + 1 \in 1..n => Shift(s, e)[p + 1] = (p + 1) + 1
      BY <1>4, <3>1
    <3> QED  BY <3>1, <3>2, <3>3, <3>4, <3>5
  <2> QED  BY <2>1, <2>2
<1>8. Together(s, t, DOMAIN s, Shift(s, e))
  BY <1>1, <1>2, <1>7 DEF Together
<1>9. Plain(t)
  <2>1. ASSUME NEW k \in Inside(t)  PROVE \E p \in DOMAIN s : Shift(s, e)[p] = k
    <3>1. k \in DOMAIN t /\ k - 1 \in Going(t)
      BY <1>2, GoingIs
    <3>2. k # e + 1
      BY <1>1, <1>5, <3>1
    <3> QED  BY <1>2, <3>1, <3>2
  <2> QED  BY <1>2, <1>8, <2>1, TogetherPlain DEF Good
<1>10. Len(t) \notin Going(t)
  <2>1. Len(t) = n + 1
    BY <1>1, <1>2, LenProperties
  <2>2. n + 1 \in 0..(n + 1) /\ ~(n + 1 <= e) /\ n + 1 - 1 = n
    BY <1>1
  <2> QED  BY <1>3, <1>6, <2>1, <2>2
<1> QED  BY <1>5, <1>8, <1>9, <1>10 DEF Good

(* A line gives way to another, neither of them a header.                  *)
LEMMA ReplaceStays ==
  ASSUME NEW s \in Seq(TomlLine), NEW p \in DOMAIN s, NEW new \in TomlLine, NEW t, t = ReplaceAt(s, p, new),
         new.at = "key", s[p].at = "key"
  PROVE  /\ t \in Seq(TomlLine) /\ DOMAIN t = DOMAIN s /\ t[p] = new
         /\ \A i \in DOMAIN s : (i # p => t[i] = s[i]) /\ TableOf(t, i) = TableOf(s, i)
         /\ Headers(t) = Headers(s) /\ \A i \in DOMAIN s : HeaderOf(t, i) = HeaderOf(s, i)
<1>1. PICK n \in Nat : n = Len(s) /\ DOMAIN s = 1..n
  BY LenProperties
<1>2. t = [s EXCEPT ![p] = new]
  BY DEF ReplaceAt
<1>3. DOMAIN t = 1..n /\ t[p] = new /\ \A i \in 1..n : (i # p => t[i] = s[i]) /\ t[i] \in TomlLine
  BY <1>1, <1>2
<1>4. t \in Seq(TomlLine)
  <2>1. t = [i \in 1..n |-> t[i]]
    BY <1>1, <1>2
  <2> QED  BY <1>3, <2>1
<1>5. Headers(t) = Headers(s) /\ \A h \in Headers(s) : t[h] = s[h]
  BY <1>1, <1>3 DEF Headers
<1>6. \A i \in DOMAIN s : HeaderOf(t, i) = HeaderOf(s, i)
  BY <1>5 DEF HeaderOf
<1>7. ASSUME NEW i \in DOMAIN s  PROVE TableOf(t, i) = TableOf(s, i)
  <2>1. HeaderOf(s, i) # 0 => HeaderOf(s, i) \in Headers(s)
    BY HeaderIs DEF LastUpTo
  <2> QED  BY <1>5, <1>6, <2>1 DEF TableOf
<1> QED  BY <1>1, <1>3, <1>4, <1>5, <1>6, <1>7

LEMMA ReplaceGoing ==
  ASSUME NEW s \in Seq(TomlLine), NEW p \in DOMAIN s, NEW new \in TomlLine, NEW t, t = ReplaceAt(s, p, new),
         new.at = "key", s[p].at = "key", new.turns = FALSE
  PROVE  /\ p \notin Turning(s) => Going(t) = Going(s)
         /\ \A k \in 0..(p - 1) : k \in Going(t) <=> k \in Going(s)
<1>1. PICK n \in Nat : n = Len(s) /\ DOMAIN s = 1..n
  BY LenProperties
<1>2. /\ t \in Seq(TomlLine) /\ DOMAIN t = 1..n /\ t[p] = new
      /\ \A i \in 1..n : i # p => t[i] = s[i]
  BY <1>1, ReplaceStays
<1>3. Len(t) = n
  BY <1>1, <1>2, LenProperties
<1>4. Reads(s, Going(s)) /\ Reads(t, Going(t))
  BY <1>2, GoingIs
<1>5. p \notin Turning(t) /\ \A i \in 1..n : i # p => (i \in Turning(t) <=> i \in Turning(s))
  BY <1>1, <1>2 DEF Turning
<1>6. ASSUME p \notin Turning(s)  PROVE Going(t) = Going(s)
  <2>1. \A i \in 1..n : i \in Turning(t) <=> i \in Turning(s)
    BY <1>5, <1>6
  <2>2. Reads(t, Going(s))
    BY <1>1, <1>3, <1>4, <2>1 DEF Reads
  <2> QED  BY <1>2, <2>2, GoingOnly
<1> DEFINE S == {k \in 0..(p - 1) : k \in Going(t) <=> k \in Going(s)}
<1>7. 0 \in S
  BY <1>1, <1>4 DEF Reads
<1>8. ASSUME NEW k \in 0..(p - 1), k \in S, k < p - 1  PROVE k + 1 \in S
  <2>1. PICK m \in 1..n : m = k + 1 /\ m - 1 = k /\ m # p /\ m \in 0..(p - 1)
    BY <1>1, <1>8
  <2>2. m \in Turning(t) <=> m \in Turning(s)
    BY <1>5, <2>1
  <2>3. m \in Going(t) <=> m \in Going(s)
    BY <1>1, <1>3, <1>4, <1>8, <2>1, <2>2 DEF Reads
  <2> QED  BY <2>1, <2>3
<1>9. 0..(p - 1) \subseteq S
  <2>1. p - 1 \in Nat
    BY <1>1
  <2> HIDE DEF S
  <2> QED  BY <1>7, <1>8, <2>1, Climbs
<1> QED  BY <1>6, <1>9

(* A key that stands outside of all values and has none below gives way:   *)
(* all the others stay as they are.                                        *)
LEMMA ReplaceTogether ==
  ASSUME NEW s \in Seq(TomlLine), NEW p \in RealKeys(s), NEW new \in TomlLine, NEW t, t = ReplaceAt(s, p, new),
         new.at = "key", new.turns = FALSE, p \notin Turning(s), Good(s)
  PROVE  /\ Together(s, t, DOMAIN s \ {p}, [i \in DOMAIN s \ {p} |-> i]) /\ Good(t)
         /\ p - 1 \notin Going(t) /\ p \notin Going(t)
<1>1. PICK n \in Nat : n = Len(s) /\ DOMAIN s = 1..n
  BY LenProperties
<1>0. p \in 1..n /\ s[p].at = "key" /\ p \notin Inside(s)
  BY <1>1 DEF RealKeys, KeyLines
<1>2. /\ t \in Seq(TomlLine) /\ DOMAIN t = 1..n /\ t[p] = new
      /\ \A i \in 1..n : i # p => t[i] = s[i]
      /\ Headers(t) = Headers(s) /\ \A i \in 1..n : HeaderOf(t, i) = HeaderOf(s, i)
  BY <1>0, <1>1, ReplaceStays
<1>3. Going(t) = Going(s)
  BY <1>0, <1>1, ReplaceGoing
<1>4. p - 1 \notin Going(s) /\ p \notin Going(s)
  <2>1. Reads(s, Going(s)) /\ Inside(s) = {i \in DOMAIN s : i - 1 \in Going(s)}
    BY GoingIs
  <2>2. p - 1 \notin Going(s)
    BY <1>0, <1>1, <2>1
  <2> QED  BY <1>0, <1>1, <2>1, <2>2 DEF Reads
<1> DEFINE P == DOMAIN s \ {p}
           g == [i \in P |-> i]
<1>5. \A i \in P : i \in 1..n /\ i # p /\ g[i] = i
  BY <1>1
<1>6. Moved(s, t, P, g)
  <2>1. P \subseteq DOMAIN s /\ g \in [P -> DOMAIN t]
    BY <1>1, <1>2
  <2>2. \A i \in P : t[g[i]] = s[i]
    BY <1>2, <1>5
  <2>3. ASSUME NEW i \in P, HeaderOf(s, i) # 0  PROVE HeaderOf(s, i) \in P
    <3>1. HeaderOf(s, i) \in Headers(s)
      BY <2>3, HeaderIs DEF LastUpTo
    <3> QED  BY <1>0, <3>1 DEF Headers
  <2>4. ASSUME NEW h \in Headers(t)  PROVE \E q \in P : g[q] = h
    <3>1. h \in Headers(s) /\ h \in DOMAIN s /\ h # p
      BY <1>0, <1>2 DEF Headers
    <3> QED  BY <1>5, <3>1
  <2> QED  BY <1>5, <2>1, <2>2, <2>3, <2>4 DEF Moved
<1>7. ASSUME NEW i \in P, i \in Going(s)  PROVE i + 1 \in P /\ g[i + 1] = g[i] + 1
  <2>1. i # n /\ i + 1 # p
    BY <1>1, <1>4, <1>7 DEF Good
  <2> QED  BY <1>1, <2>1
<1>8. Together(s, t, P, g)
  <2> HIDE DEF P, g
  <2> QED  BY <1>3, <1>5, <1>6, <1>7 DEF Together
<1>9. Plain(t)
  <2>1. ASSUME NEW k \in Inside(t)  PROVE \E q \in P : g[q] = k
    <3>1. k \in DOMAIN t /\ k - 1 \in Going(t)
      BY <1>2, GoingIs
    <3>2. k \in P
      BY <1>1, <1>2, <1>3, <1>4, <3>1
    <3> QED  BY <1>5, <3>2
  <2> HIDE DEF P, g
  <2> QED  BY <1>2, <1>8, <2>1, TogetherPlain DEF Good
<1>10. Len(t) = n
  BY <1>1, <1>2, LenProperties
<1> QED  BY <1>1, <1>3, <1>4, <1>8, <1>9, <1>10 DEF Good

(* A line is left over from a value whose key was replaced; the file does  *)
(* not parse, and no key set afterwards makes it parse again.              *)
Closes(s, q, r) ==
  q < r /\ s[r].at = "rest" /\ r \in Turning(s) /\ \A x \in (q + 1)..(r - 1) : x \notin Turning(s)
LeftOver(s, c) ==
  /\ s[c].at = "rest" /\ c - 1 \notin Going(s)
  /\ \A q \in KeyLines(s) : q < c /\ q \in Turning(s) =>
       q - 1 \notin Going(s) /\ \E r \in DOMAIN s : Closes(s, q, r)
Broken(s) == \E c \in DOMAIN s : LeftOver(s, c)

LEMMA BrokenFails ==
  ASSUME NEW s \in Seq(TomlLine), Broken(s)
  PROVE  ~Valid(s)
<1>1. PICK c \in DOMAIN s : s[c].at = "rest" /\ c - 1 \notin Going(s)
  BY DEF Broken, LeftOver
<1>2. c \notin Inside(s)
  BY <1>1, GoingIs
<1> QED  BY <1>1, <1>2 DEF Valid

LEMMA InsertBroken ==
  ASSUME NEW s \in Seq(TomlLine), Broken(s), NEW e, NEW new, NEW t, Inserts(s, e, new, t), new.turns = FALSE
  PROVE  Broken(t)
<1>1. PICK n \in Nat : n = Len(s) /\ DOMAIN s = 1..n /\ e \in 0..n
  BY LenProperties DEF Inserts
<1>2. /\ t \in Seq(TomlLine) /\ DOMAIN t = 1..(n + 1) /\ t[e + 1] = new
      /\ \A i \in 1..e : t[i] = s[i]
      /\ \A i \in (e + 1)..n : t[i + 1] = s[i]
  <2>1. /\ t \in Seq(TomlLine) /\ DOMAIN t = 1..(Len(s) + 1) /\ t[e + 1] = new
        /\ \A i \in 1..e : t[i] = s[i]
        /\ \A i \in (e + 1)..Len(s) : t[i + 1] = s[i]
    BY Inserted
  <2> QED  BY <1>1, <2>1
<1>3. \A k \in 0..(n + 1) : k \in Going(t) <=> IF k <= e THEN k \in Going(s) ELSE k - 1 \in Going(s)
  BY <1>1, InsertGoing
<1>g. PICK g : g = [i \in 1..n |-> IF i <= e THEN i ELSE i + 1]
  OBVIOUS
<1>4. ASSUME NEW i \in 1..n
      PROVE  /\ g[i] = (IF i <= e THEN i ELSE i + 1) /\ g[i] \in 1..(n + 1) /\ t[g[i]] = s[i]
             /\ i - 1 \in Going(s) <=> g[i] - 1 \in Going(t)
             /\ g[i] \in Turning(t) <=> i \in Turning(s)
  <2>1. g[i] = (IF i <= e THEN i ELSE i + 1) /\ g[i] \in 1..(n + 1)
    BY <1>1, <1>g
  <2>2. t[g[i]] = s[i]
    <3>1. CASE i <= e
      <4>1. i \in 1..e
        BY <1>1, <3>1
      <4> QED  BY <1>2, <2>1, <3>1, <4>1
    <3>2. CASE ~(i <= e)
      <4>1. i \in (e + 1)..n
        BY <1>1, <3>2
      <4> QED  BY <1>2, <2>1, <3>2, <4>1
    <3> QED  BY <3>1, <3>2
  <2>3. i - 1 \in Going(s) <=> g[i] - 1 \in Going(t)
    <3>1. CASE i <= e
      <4>1. i - 1 \in 0..(n + 1) /\ i - 1 <= e /\ g[i] - 1 = i - 1
        BY <1>1, <2>1, <3>1
      <4> QED  BY <1>3, <4>1
    <3>2. CASE i = e + 1
      <4>1. g[i] - 1 = i /\ i \in 0..(n + 1) /\ ~(i <= e)
        BY <1>1, <2>1, <3>2
      <4> QED  BY <1>3, <4>1
    <3>3. CASE i > e + 1
      <4>1. g[i] - 1 = i /\ i \in 0..(n + 1) /\ ~(i <= e)
        BY <1>1, <2>1, <3>3
      <4> QED  BY <1>3, <4>1
    <3> QED  BY <1>1, <3>1, <3>2, <3>3
  <2>4. g[i] \in Turning(t) <=> i \in Turning(s)
    BY <1>1, <1>2, <2>1, <2>2 DEF Turning
  <2> QED  BY <2>1, <2>2, <2>3, <2>4
<1>5. \A k \in 1..(n + 1) : k # e + 1 => \E i \in 1..n : g[i] = k
  <2> SUFFICES ASSUME NEW k \in 1..(n + 1), k # e + 1  PROVE \E i \in 1..n : g[i] = k
    OBVIOUS
  <2>1. CASE k <= e
    <3>1. k \in 1..n
      BY <1>1, <2>1
    <3> QED  BY <1>4, <2>1, <3>1
  <2>2. CASE ~(k <= e)
    <3>1. k - 1 \in 1..n /\ ~(k - 1 <= e) /\ k - 1 + 1 = k
      BY <1>1, <2>2
    <3> QED  BY <1>4, <3>1
  <2> QED  BY <2>1, <2>2
<1>6. \A i, j \in 1..n : g[i] < g[j] <=> i < j
  <2> SUFFICES ASSUME NEW i \in 1..n, NEW j \in 1..n  PROVE g[i] < g[j] <=> i < j
    OBVIOUS
  <2>1. g[i] = (IF i <= e THEN i ELSE i + 1) /\ g[j] = (IF j <= e THEN j ELSE j + 1)
    BY <1>4
  <2> QED  BY <1>1, <2>1
<1>7. e + 1 \notin Turning(t)
  BY <1>2 DEF Turning
<1>8. PICK c \in 1..n : LeftOver(s, c)
  BY <1>1 DEF Broken
<1>9. t[g[c]].at = "rest" /\ g[c] - 1 \notin Going(t)
  BY <1>4, <1>8 DEF LeftOver
<1>10. ASSUME NEW k \in KeyLines(t), k < g[c], k \in Turning(t)
       PROVE  k - 1 \notin Going(t) /\ \E r \in DOMAIN t : Closes(t, k, r)
  <2>1. PICK q \in 1..n : g[q] = k
    <3>1. k \in 1..(n + 1) /\ k # e + 1
      BY <1>2, <1>7, <1>10 DEF KeyLines
    <3> QED  BY <1>5, <3>1
  <2>2. q \in KeyLines(s) /\ q \in Turning(s) /\ q < c
    BY <1>1, <1>4, <1>6, <1>10, <2>1 DEF KeyLines
  <2>3. q - 1 \notin Going(s) /\ \E r \in DOMAIN s : Closes(s, q, r)
    BY <1>8, <2>2 DEF LeftOver
  <2>4. PICK r \in 1..n : Closes(s, q, r)
    BY <1>1, <2>3
  <2>5. q < r /\ s[r].at = "rest" /\ r \in Turning(s) /\ \A x \in (q + 1)..(r - 1) : x \notin Turning(s)
    BY <2>4 DEF Closes
  <2>6. k < g[r] /\ t[g[r]].at = "rest" /\ g[r] \in Turning(t)
    BY <1>4, <1>6, <2>1, <2>5
  <2>7. ASSUME NEW x \in (k + 1)..(g[r] - 1)  PROVE x \notin Turning(t)
    <3>1. CASE x = e + 1
      BY <1>7, <3>1
    <3>2. CASE x # e + 1
      <4>1. x \in 1..(n + 1) /\ k < x /\ x < g[r]
        BY <1>4, <2>1
      <4>2. PICK y \in 1..n : g[y] = x
        BY <1>5, <3>2, <4>1
      <4>3. q < y /\ y < r
        BY <1>6, <2>1, <4>1, <4>2
      <4>4. y \in (q + 1)..(r - 1)
        BY <4>3
      <4> QED  BY <1>4, <2>5, <4>2, <4>4
    <3> QED  BY <3>1, <3>2
  <2>8. Closes(t, k, g[r])
    BY <2>6, <2>7 DEF Closes
  <2> QED  BY <1>2, <1>4, <2>1, <2>3, <2>8
<1>11. LeftOver(t, g[c])
  BY <1>9, <1>10 DEF LeftOver
<1> QED  BY <1>2, <1>4, <1>11 DEF Broken

(* What a key leaves behind that had a value of several lines.             *)
LEMMA LeavesRest ==
  ASSUME NEW s \in Seq(TomlLine), NEW p \in KeyLines(s), NEW new \in TomlLine, NEW t, t = ReplaceAt(s, p, new),
         new.at = "key", new.turns = FALSE, p - 1 \notin Going(s), NEW r \in DOMAIN s, Closes(s, p, r),
         \A q \in KeyLines(s) : q < p /\ q \in Turning(s) =>
           q - 1 \notin Going(s) /\ \E x \in DOMAIN s : Closes(s, q, x)
  PROVE  Broken(t)
<1>1. PICK n \in Nat : n = Len(s) /\ DOMAIN s = 1..n
  BY LenProperties
<1>0. p \in 1..n /\ s[p].at = "key"
  BY <1>1 DEF KeyLines
<1>2. /\ t \in Seq(TomlLine) /\ DOMAIN t = 1..n /\ t[p] = new
      /\ \A i \in 1..n : i # p => t[i] = s[i]
  BY <1>0, <1>1, ReplaceStays
<1>3. Len(t) = n
  BY <1>1, <1>2, LenProperties
<1>4. \A k \in 0..(p - 1) : k \in Going(t) <=> k \in Going(s)
  BY <1>0, <1>1, ReplaceGoing
<1>5. p \notin Turning(t) /\ \A i \in 1..n : i # p => (i \in Turning(t) <=> i \in Turning(s))
  BY <1>1, <1>2 DEF Turning
<1>6. p < r /\ s[r].at = "rest" /\ r \in 1..n /\ r \in Turning(s) /\ \A x \in (p + 1)..(r - 1) : x \notin Turning(s)
  BY <1>1 DEF Closes
<1>7. p - 1 \in 0..(p - 1) /\ p - 1 \in 0..n /\ r - 1 \in 0..n /\ p - 1 <= r - 1 /\ p - 1 + 1 = p
  BY <1>1, <1>0, <1>6
<1>8. \A x \in p..(r - 1) : x \notin Turning(t)
  <2> SUFFICES ASSUME NEW x \in p..(r - 1)  PROVE x \notin Turning(t)
    OBVIOUS
  <2>1. x = p \/ (x \in (p + 1)..(r - 1) /\ x \in 1..n /\ x # p)
    BY <1>1, <1>0, <1>6
  <2> QED  BY <1>5, <1>6, <2>1
<1>9. r - 1 \notin Going(t)
  <2>1. p - 1 \notin Going(t)
    BY <1>4, <1>7
  <2>2. p - 1 \in Going(t) <=> r - 1 \in Going(t)
    <3>1. \A x \in (p - 1 + 1)..(r - 1) : x \notin Turning(t)
      BY <1>7, <1>8
    <3> QED  BY <1>2, <1>3, <1>7, <3>1, GoingStays
  <2> QED  BY <2>1, <2>2
<1>10. ASSUME NEW q \in KeyLines(t), q < r, q \in Turning(t)
       PROVE  q - 1 \notin Going(t) /\ \E x \in DOMAIN t : Closes(t, q, x)
  <2>1. q \in 1..n /\ q # p
    BY <1>2, <1>5, <1>10 DEF KeyLines
  <2>2. q < p
    <3>1. q \notin p..(r - 1)
      BY <1>8, <1>10
    <3> QED  BY <1>0, <1>6, <1>10, <2>1, <3>1
  <2>3. q \in KeyLines(s) /\ q \in Turning(s)
    BY <1>1, <1>2, <1>5, <1>10, <2>1 DEF KeyLines
  <2>4. q - 1 \notin Going(s)
    BY <2>2, <2>3
  <2>5. PICK x \in DOMAIN s : Closes(s, q, x)
    BY <2>2, <2>3
  <2>6. x \in 1..n /\ q < x /\ s[x].at = "rest" /\ x \in Turning(s) /\ \A y \in (q + 1)..(x - 1) : y \notin Turning(s)
    BY <1>1, <2>5 DEF Closes
  <2>7. x # p
    BY <1>0, <2>6
  <2>8. t[x].at = "rest" /\ x \in Turning(t)
    BY <1>2, <1>5, <2>6, <2>7
  <2>9. ASSUME NEW y \in (q + 1)..(x - 1)  PROVE y \notin Turning(t)
    <3>1. y \in 1..n /\ y \notin Turning(s)
      BY <1>1, <2>1, <2>6
    <3> QED  BY <1>5, <3>1
  <2>10. Closes(t, q, x)
    BY <2>6, <2>8, <2>9 DEF Closes
  <2>11. q - 1 \in 0..(p - 1)
    BY <1>0, <2>1, <2>2
  <2> QED  BY <1>2, <1>4, <2>4, <2>6, <2>10, <2>11
<1>11. r \in DOMAIN t /\ t[r].at = "rest"
  BY <1>2, <1>0, <1>6
<1>12. LeftOver(t, r)
  BY <1>9, <1>10, <1>11 DEF LeftOver
<1> QED  BY <1>11, <1>12 DEF Broken

LEMMA ReplaceBroken ==
  ASSUME NEW s \in Seq(TomlLine), Broken(s), NEW p \in KeyLines(s), NEW new \in TomlLine,
         NEW t, t = ReplaceAt(s, p, new), new.at = "key", new.turns = FALSE
  PROVE  Broken(t)
<1>1. PICK n \in Nat : n = Len(s) /\ DOMAIN s = 1..n
  BY LenProperties
<1>0. p \in 1..n /\ s[p].at = "key"
  BY <1>1 DEF KeyLines
<1>2. /\ t \in Seq(TomlLine) /\ DOMAIN t = 1..n /\ t[p] = new
      /\ \A i \in 1..n : i # p => t[i] = s[i]
  BY <1>0, <1>1, ReplaceStays
<1>3. PICK c \in 1..n : LeftOver(s, c)
  BY <1>1 DEF Broken
<1>4. CASE p < c /\ p \in Turning(s)
  <2>1. p - 1 \notin Going(s) /\ \E r \in DOMAIN s : Closes(s, p, r)
    BY <1>3, <1>4 DEF LeftOver
  <2>2. PICK r \in DOMAIN s : Closes(s, p, r)
    BY <2>1
  <2>3. ASSUME NEW q \in KeyLines(s), q < p, q \in Turning(s)
        PROVE  q - 1 \notin Going(s) /\ \E x \in DOMAIN s : Closes(s, q, x)
    <3>1. q < c
      BY <1>0, <1>1, <1>4, <2>3 DEF KeyLines
    <3> QED  BY <1>3, <2>3, <3>1 DEF LeftOver
  <2> QED  BY <2>1, <2>2, <2>3, LeavesRest
<1>5. CASE ~(p < c /\ p \in Turning(s))
  <2>1. c # p /\ t[c].at = "rest"
    BY <1>0, <1>2, <1>3 DEF LeftOver
  <2>2. p \notin Turning(t) /\ \A i \in 1..n : i # p => (i \in Turning(t) <=> i \in Turning(s))
    BY <1>1, <1>2 DEF Turning
  <2>3. ASSUME NEW k \in 1..c  PROVE k - 1 \in Going(t) <=> k - 1 \in Going(s)
    <3>1. CASE p \notin Turning(s)
      BY <1>0, <1>1, <3>1, ReplaceGoing
    <3>2. CASE c < p
      <4>1. k - 1 \in 0..(p - 1)
        BY <1>0, <3>2
      <4> QED  BY <1>0, <1>1, <4>1, ReplaceGoing
    <3> QED  BY <1>0, <1>5, <2>1, <3>1, <3>2
  <2>4. c - 1 \notin Going(t)
    <3>1. c \in 1..c
      OBVIOUS
    <3> QED  BY <1>3, <2>3, <3>1 DEF LeftOver
  <2>5. ASSUME NEW q \in KeyLines(t), q < c, q \in Turning(t)
        PROVE  q - 1 \notin Going(t) /\ \E r \in DOMAIN t : Closes(t, q, r)
    <3>1. q \in 1..n /\ q # p /\ q \in 1..c
      BY <1>2, <2>2, <2>5 DEF KeyLines
    <3>2. q \in KeyLines(s) /\ q \in Turning(s)
      BY <1>1, <1>2, <2>2, <2>5, <3>1 DEF KeyLines
    <3>3. q - 1 \notin Going(s) /\ \E r \in DOMAIN s : Closes(s, q, r)
      BY <1>3, <2>5, <3>2 DEF LeftOver
    <3>4. PICK r \in 1..n : Closes(s, q, r)
      BY <1>1, <3>3
    <3>5. q < r /\ s[r].at = "rest" /\ r \in Turning(s) /\ \A x \in (q + 1)..(r - 1) : x \notin Turning(s)
      BY <3>4 DEF Closes
    <3>6. r # p
      BY <1>0, <3>5
    <3>7. t[r].at = "rest" /\ r \in Turning(t)
      BY <1>2, <2>2, <3>5, <3>6
    <3>8. ASSUME NEW x \in (q + 1)..(r - 1)  PROVE x \notin Turning(t)
      <4>1. x \in 1..n /\ x \notin Turning(s)
        BY <1>1, <3>1, <3>5
      <4> QED  BY <2>2, <4>1
    <3>9. Closes(t, q, r)
      BY <3>5, <3>7, <3>8 DEF Closes
    <3> QED  BY <1>2, <2>3, <3>1, <3>3, <3>9
  <2>6. LeftOver(t, c)
    BY <2>1, <2>4, <2>5 DEF LeftOver
  <2> QED  BY <1>2, <2>6 DEF Broken
<1> QED  BY <1>4, <1>5

LEMMA ClosesThere ==
  ASSUME NEW s \in Seq(TomlLine), Good(s), NEW q \in KeyLines(s), q \in Turning(s)
  PROVE  q - 1 \notin Going(s) /\ \E r \in DOMAIN s : Closes(s, q, r)
<1>1. PICK n \in Nat : n = Len(s) /\ DOMAIN s = 1..n
  BY LenProperties
<1>0. q \in 1..n /\ s[q].at = "key" /\ s[q].turns
  BY <1>1 DEF KeyLines, Turning
<1>2. Reads(s, Going(s)) /\ Inside(s) = {i \in DOMAIN s : i - 1 \in Going(s)}
  BY GoingIs
<1>3. q - 1 \notin Going(s)
  <2>1. q \notin Inside(s)
    BY <1>0 DEF Good, Plain
  <2> QED  BY <1>0, <1>1, <1>2, <2>1
<1>4. q \in Going(s)
  BY <1>0, <1>1, <1>2, <1>3 DEF Reads
<1>5. PICK R : R = {x \in (q + 1)..n : x \in Turning(s)} /\ R \in SUBSET (1..n)
  <2>1. (q + 1)..n \subseteq 1..n
    BY <1>0, <1>1
  <2> QED  BY <2>1
<1>6. R # {}
  <2> SUFFICES ASSUME R = {}  PROVE FALSE
    OBVIOUS
  <2>1. \A x \in (q + 1)..n : x \notin Turning(s)
    BY <1>5
  <2>2. q \in 0..n /\ n \in 0..n /\ q <= n
    BY <1>0, <1>1
  <2>3. n \in Going(s)
    BY <1>1, <1>4, <2>1, <2>2, GoingStays
  <2> QED  BY <1>1, <2>3 DEF Good
<1>7. PICK r \in R : \A x \in R : r <= x
  BY <1>1, <1>5, <1>6, FirstPlace
<1>8. r \in (q + 1)..n /\ r \in Turning(s) /\ r \in 1..n
  BY <1>5
<1>9. \A x \in (q + 1)..(r - 1) : x \notin Turning(s)
  <2> SUFFICES ASSUME NEW x \in (q + 1)..(r - 1), x \in Turning(s)  PROVE FALSE
    OBVIOUS
  <2>1. x \in (q + 1)..n /\ x < r
    BY <1>0, <1>8
  <2>2. r <= x
    BY <1>5, <1>7, <2>1
  <2> QED  BY <1>0, <1>8, <2>1, <2>2
<1>10. r \in Inside(s)
  <2>1. q \in 0..n /\ r - 1 \in 0..n /\ q <= r - 1
    BY <1>0, <1>8
  <2>2. r - 1 \in Going(s)
    BY <1>1, <1>4, <1>9, <2>1, GoingStays
  <2> QED  BY <1>1, <1>2, <1>8, <2>2
<1>11. s[r].at # "table" /\ s[r].at # "key"
  <2>1. s[r].turns
    BY <1>8 DEF Turning
  <2> QED  BY <1>10, <2>1 DEF Good, Plain
<1>12. s[r].at = "rest"
  <2>1. s[r] \in TomlLine /\ s[r].turns
    BY <1>1, <1>8 DEF Turning
  <2>2. s[r].at \in {"table", "key"} \/ s[r] \in {Rest, Close, Note}
    BY <2>1 DEF TomlLine
  <2>3. s[r] # Note
    BY <2>1 DEF Note
  <2>4. Rest.at = "rest" /\ Close.at = "rest"
    BY DEF Rest, Close
  <2> QED  BY <1>11, <2>2, <2>3, <2>4
<1>13. Closes(s, q, r)
  BY <1>0, <1>8, <1>9, <1>12 DEF Closes
<1> QED  BY <1>1, <1>3, <1>8, <1>13

(* The key of a value of several lines gives way: what is below it stays.  *)
LEMMA ReplaceBreaks ==
  ASSUME NEW s \in Seq(TomlLine), Good(s), NEW p \in KeyLines(s), p \in Turning(s), NEW new \in TomlLine,
         NEW t, t = ReplaceAt(s, p, new), new.at = "key", new.turns = FALSE
  PROVE  Broken(t)
<1>1. p - 1 \notin Going(s) /\ \E r \in DOMAIN s : Closes(s, p, r)
  BY ClosesThere
<1>2. PICK r \in DOMAIN s : Closes(s, p, r)
  BY <1>1
<1>3. \A q \in KeyLines(s) : q < p /\ q \in Turning(s) =>
        q - 1 \notin Going(s) /\ \E x \in DOMAIN s : Closes(s, q, x)
  BY ClosesThere
<1> QED  BY <1>1, <1>2, <1>3, LeavesRest


(* The lines of a section: below its first header, or above all headers.   *)
Has(s, section) == section = <<>> \/ \E i \in DOMAIN s : s[i] = Table(section)
Heads(s, section, h) ==
  \/ section = <<>> /\ h = 0
  \/ /\ section # <<>> /\ h \in DOMAIN s /\ s[h] = Table(section) /\ HeaderOf(s, h) = h /\ TableOf(s, h) = section
     /\ \A i \in DOMAIN s : s[i] = Table(section) => h <= i

LEMMA FirstIs ==
  ASSUME NEW s \in Seq(TomlLine), NEW section, Has(s, section)
  PROVE  /\ Heads(s, section, FirstHeader(s, section))
         /\ \A i : i \in SectionLines(s, section) <=>
              i \in DOMAIN s /\ i # FirstHeader(s, section) /\ HeaderOf(s, i) = FirstHeader(s, section)
         /\ \A i \in SectionLines(s, section) : TableOf(s, i) = section
<1>1. PICK n \in Nat : n = Len(s) /\ DOMAIN s = 1..n
  BY LenProperties
<1>2. PICK h : h = FirstHeader(s, section)
  OBVIOUS
<1>3. Heads(s, section, h)
  <2>1. CASE section = <<>>
    BY <1>2, <2>1 DEF FirstHeader, Heads
  <2>2. CASE section # <<>>
    <3>1. PICK R \in SUBSET (1..n) : R = {i \in DOMAIN s : s[i] = Table(section)}
      BY <1>1
    <3>2. h = Min(R) /\ R # {}
      BY <1>2, <2>2, <3>1 DEF FirstHeader, Has
    <3>3. h \in R /\ \A i \in R : h <= i
      BY <3>2, FirstPlace DEF Min
    <3>4. h \in DOMAIN s /\ s[h] = Table(section) /\ h \in Nat
      BY <1>1, <3>1, <3>3
    <3>5. LastUpTo(s, h, h) /\ s[h].of = section
      BY <3>4 DEF LastUpTo, Headers, Table
    <3>6. HeaderOf(s, h) = h /\ TableOf(s, h) = section
      BY <3>4, <3>5, HeaderAt
    <3> QED  BY <2>2, <3>1, <3>3, <3>4, <3>6 DEF Heads
  <2> QED  BY <2>1, <2>2
<1>4. \A i : i \in SectionLines(s, section) <=> i \in DOMAIN s /\ i # h /\ HeaderOf(s, i) = h
  BY <1>2 DEF SectionLines
<1>5. ASSUME NEW i \in SectionLines(s, section)  PROVE TableOf(s, i) = section
  <2>1. HeaderOf(s, i) = h
    BY <1>4
  <2>2. h = 0 => section = <<>>
    BY <1>1, <1>3 DEF Heads
  <2>3. h # 0 => s[h].of = section
    BY <1>3 DEF Heads, Table
  <2> QED  BY <2>1, <2>2, <2>3 DEF TableOf
<1> QED  BY <1>2, <1>3, <1>4, <1>5

LEMMA HeadsSame ==
  ASSUME NEW s \in Seq(TomlLine), NEW section, NEW h, Heads(s, section, h)
  PROVE  Has(s, section) /\ FirstHeader(s, section) = h
<1>1. PICK n \in Nat : n = Len(s) /\ DOMAIN s = 1..n
  BY LenProperties
<1>2. Has(s, section)
  BY DEF Heads, Has
<1>3. PICK f : f = FirstHeader(s, section) /\ Heads(s, section, f)
  BY <1>2, FirstIs
<1>4. CASE section = <<>>
  BY <1>2, <1>3, <1>4 DEF Heads
<1>5. CASE section # <<>>
  <2>1. h \in 1..n /\ f \in 1..n /\ h <= f /\ f <= h
    BY <1>1, <1>3, <1>5 DEF Heads
  <2> QED  BY <1>2, <1>3, <2>1
<1> QED  BY <1>2, <1>4, <1>5

(* Two sections have no line in common. *)
LEMMA OtherSection ==
  ASSUME NEW s \in Seq(TomlLine), NEW section, Has(s, section), NEW other, Has(s, other),
         FirstHeader(s, section) = FirstHeader(s, other)
  PROVE  section = other
<1>1. PICK h : h = FirstHeader(s, section) /\ Heads(s, section, h) /\ Heads(s, other, h)
  BY FirstIs
<1>2. \A i \in DOMAIN s : i # 0
  BY LenProperties
<1> QED  BY <1>1, <1>2 DEF Heads, Table

(* A managed key has its value, in its first place.                        *)
NewKey(key, gen) == Key(key, ManagedValue(key, gen))
NewEntry(section, key, gen) == <<<<section, key>>, <<ManagedValue(key, gen), <<>>>>>>
IsKey(x, key) == x.at = "key" /\ x.of = key
Holds(s, section, key, gen) ==
  /\ Has(s, section)
  /\ \E p \in SectionLines(s, section) :
       s[p] = NewKey(key, gen) /\ \A q \in SectionLines(s, section) : IsKey(s[q], key) => p <= q

LEMMA NewKeyIs ==
  ASSUME NEW key \in STRING, NEW gen \in Generation
  PROVE  /\ NewKey(key, gen) \in TomlLine /\ NewKey(key, gen).at = "key" /\ NewKey(key, gen).of = key
         /\ NewKey(key, gen).val = ManagedValue(key, gen) /\ NewKey(key, gen).turns = FALSE
BY DEF NewKey, Key, ManagedValue, TomlLine

(* The two ways to set a key: in place of the first line that has it, or   *)
(* below the last line of its section.                                     *)
Sets(s, section, key, gen, t) ==
  section \in Seq(STRING) /\ key \in STRING /\ gen \in Generation /\ t = SetKey(s, section, key, gen)
Replaces(s, section, key, gen, t, p) ==
  /\ p \in SectionLines(s, section) /\ IsKey(s[p], key)
  /\ \A q \in SectionLines(s, section) : IsKey(s[q], key) => p <= q
  /\ t = ReplaceAt(s, p, NewKey(key, gen))
Adds(s, section, key, gen, t, e) ==
  /\ \A q \in SectionLines(s, section) : ~IsKey(s[q], key)
  /\ e \in {FirstHeader(s, section)} \cup SectionLines(s, section)
  /\ \A q \in {FirstHeader(s, section)} \cup SectionLines(s, section) : q <= e
  /\ Inserts(s, e, NewKey(key, gen), t)

LEMMA SetIs ==
  ASSUME NEW s \in Seq(TomlLine), NEW section, NEW key, NEW gen, NEW t, Sets(s, section, key, gen, t),
         NEW here \in Seq(TomlLine), here = WithSection(s, section), Has(here, section)
  PROVE  \/ \E p : Replaces(here, section, key, gen, t, p)
         \/ \E e : Adds(here, section, key, gen, t, e)
<1>0. section \in Seq(STRING) /\ key \in STRING /\ gen \in Generation /\ t = SetKey(s, section, key, gen)
  BY DEF Sets
<1>1. PICK n \in Nat : n = Len(here) /\ DOMAIN here = 1..n
  BY LenProperties
<1>2. PICK head : head = FirstHeader(here, section) /\ Heads(here, section, head)
  BY FirstIs
<1>3. PICK lines \in SUBSET (1..n) : lines = SectionLines(here, section)
  BY <1>1, FirstIs
<1>4. PICK old : old = {i \in lines : here[i].at = "key" /\ here[i].of = key}
  OBVIOUS
<1>5. PICK end : end = Max({head} \cup lines)
  OBVIOUS
<1>6. t = IF old # {} THEN ReplaceAt(here, Min(old), NewKey(key, gen)) ELSE InsertAt(here, end + 1, NewKey(key, gen))
  BY <1>0, <1>2, <1>3, <1>4, <1>5, Zenon DEF SetKey, NewKey
<1>7. CASE old # {}
  <2>1. old \in SUBSET (1..n)
    BY <1>4
  <2>2. PICK p \in old : p = Min(old) /\ \A q \in old : p <= q
    BY <1>7, <2>1, FirstPlace DEF Min
  <2>3. Replaces(here, section, key, gen, t, p)
    BY <1>3, <1>4, <1>6, <1>7, <2>2 DEF Replaces, IsKey
  <2> QED  BY <2>3
<1>8. CASE old = {}
  <2>1. head \in 0..n
    BY <1>1, <1>2 DEF Heads
  <2>2. {head} \cup lines \in SUBSET (0..n) /\ {head} \cup lines # {}
    BY <2>1
  <2>3. end \in {head} \cup lines /\ \A q \in {head} \cup lines : end >= q
    BY <1>5, <2>2, LastPlace
  <2>4. \A q \in {head} \cup lines : q \in 0..n
    BY <2>2
  <2>5. end \in 0..n /\ \A q \in {head} \cup lines : q <= end
    <3>1. end \in 0..n
      BY <2>3, <2>4
    <3>2. ASSUME NEW q \in {head} \cup lines  PROVE q <= end
      <4>1. q \in 0..n /\ end >= q
        BY <2>3, <2>4
      <4> QED  BY <3>1, <4>1
    <3> QED  BY <3>1, <3>2
  <2>6. Inserts(here, end, NewKey(key, gen), t)
    BY <1>0, <1>1, <1>6, <1>8, <2>5, NewKeyIs DEF Inserts
  <2>7. \A q \in lines : ~IsKey(here[q], key)
    BY <1>4, <1>8 DEF IsKey
  <2>8. Adds(here, section, key, gen, t, end)
    BY <1>2, <1>3, <2>3, <2>5, <2>6, <2>7 DEF Adds
  <2> QED  BY <2>8
<1> QED  BY <1>7, <1>8

(* What is in its place is not changed.                                    *)
LEMMA HoldsSame ==
  ASSUME NEW s \in Seq(TomlLine), NEW section, NEW key, NEW gen, Holds(s, section, key, gen),
         section \in Seq(STRING), key \in STRING, gen \in Generation
  PROVE  SetKey(s, section, key, gen) = s
<1>1. PICK t : t = SetKey(s, section, key, gen)
  OBVIOUS
<1>2. Has(s, section)
  BY DEF Holds
<1>3. WithSection(s, section) = s
  BY <1>2 DEF WithSection, Has
<1>4. Sets(s, section, key, gen, t)
  BY <1>1 DEF Sets
<1>5. PICK p \in SectionLines(s, section) :
        s[p] = NewKey(key, gen) /\ \A q \in SectionLines(s, section) : IsKey(s[q], key) => p <= q
  BY DEF Holds
<1>6. IsKey(s[p], key)
  <2>1. NewKey(key, gen).at = "key" /\ NewKey(key, gen).of = key
    BY NewKeyIs
  <2> QED  BY <1>5, <2>1 DEF IsKey
<1>7. PICK q : Replaces(s, section, key, gen, t, q)
  <2>1. \A e : ~Adds(s, section, key, gen, t, e)
    BY <1>5, <1>6 DEF Adds
  <2> QED  BY <1>2, <1>3, <1>4, <2>1, SetIs
<1>8. PICK n \in Nat : n = Len(s) /\ DOMAIN s = 1..n
  BY LenProperties
<1>9. p \in 1..n /\ q \in 1..n /\ p <= q /\ q <= p
  <2>1. SectionLines(s, section) \subseteq 1..n
    BY <1>2, <1>8, FirstIs
  <2> QED  BY <1>5, <1>6, <1>7, <2>1 DEF Replaces
<1>10. q = p
  BY <1>9
<1>11. t = ReplaceAt(s, p, s[p])
  BY <1>5, <1>7, <1>10 DEF Replaces
<1>12. t = s
  BY <1>8, <1>9, <1>11 DEF ReplaceAt
<1> QED  BY <1>1, <1>12

(* Where a section is once a line came in.                                 *)
LEMMA InsertSection ==
  ASSUME NEW s \in Seq(TomlLine), NEW e, NEW new, NEW t, Inserts(s, e, new, t), new.at = "key" \/ e = Len(s),
         NEW section, Has(s, section)
  PROVE  /\ Has(t, section)
         /\ FirstHeader(t, section) =
              IF FirstHeader(s, section) = 0 THEN 0 ELSE Shift(s, e)[FirstHeader(s, section)]
         /\ \A i \in DOMAIN s : i \in SectionLines(s, section) <=> Shift(s, e)[i] \in SectionLines(t, section)
         /\ new.at = "key" =>
              (e + 1 \in SectionLines(t, section) <=>
                 (IF e = 0 THEN 0 ELSE HeaderOf(s, e)) = FirstHeader(s, section))
<1>1. PICK n \in Nat : n = Len(s) /\ DOMAIN s = 1..n /\ e \in 0..n
  BY LenProperties DEF Inserts
<1>2. /\ t \in Seq(TomlLine) /\ DOMAIN t = 1..(n + 1) /\ t[e + 1] = new
      /\ Moved(s, t, DOMAIN s, Shift(s, e))
      /\ \A k \in DOMAIN t \ {e + 1} : \E i \in DOMAIN s : Shift(s, e)[i] = k
      /\ new.at = "key" => HeaderOf(t, e + 1) = IF e = 0 THEN 0 ELSE HeaderOf(s, e)
  BY <1>1, InsertMoves
<1>3. PICK g : g = Shift(s, e)
  OBVIOUS
<1>4. \A i \in DOMAIN s : g[i] = (IF i <= e THEN i ELSE i + 1) /\ i \in 1..n /\ g[i] \in 1..(n + 1) /\ g[i] # e + 1
  BY <1>1, <1>3 DEF Shift
<1>5. ASSUME NEW i \in DOMAIN s
      PROVE  /\ t[g[i]] = s[i] /\ TableOf(t, g[i]) = TableOf(s, i)
             /\ HeaderOf(s, i) = 0 => HeaderOf(t, g[i]) = 0
             /\ HeaderOf(s, i) # 0 => HeaderOf(s, i) \in DOMAIN s /\ HeaderOf(t, g[i]) = g[HeaderOf(s, i)]
  BY <1>2, <1>3, MovedStays
<1>6. PICK h : h = FirstHeader(s, section) /\ Heads(s, section, h)
  BY FirstIs
<1>7. PICK f : f = IF h = 0 THEN 0 ELSE g[h]
  OBVIOUS
<1>8. h = 0 \/ h \in DOMAIN s
  BY <1>6 DEF Heads
<1>9. Heads(t, section, f)
  <2>1. CASE section = <<>>
    BY <1>6, <1>7, <2>1 DEF Heads
  <2>2. CASE section # <<>>
    <3>1. h \in DOMAIN s /\ h # 0 /\ s[h] = Table(section) /\ HeaderOf(s, h) = h /\ TableOf(s, h) = section
      BY <1>1, <1>6, <2>2 DEF Heads
    <3>2. f \in DOMAIN t /\ t[f] = Table(section) /\ HeaderOf(t, f) = f /\ TableOf(t, f) = section
      BY <1>2, <1>4, <1>5, <1>7, <3>1
    <3>3. ASSUME NEW k \in DOMAIN t, t[k] = Table(section)  PROVE f <= k
      <4>1. CASE k = e + 1
        <5>1. new.at = "table"
          BY <1>2, <3>3, <4>1 DEF Table
        <5>2. k = n + 1 /\ f \in 1..(n + 1)
          BY <1>1, <1>2, <3>2, <4>1, <5>1
        <5> QED  BY <5>2
      <4>2. CASE k # e + 1
        <5>1. PICK i \in DOMAIN s : g[i] = k
          BY <1>2, <1>3, <4>2
        <5>2. s[i] = Table(section)
          BY <1>5, <3>3, <5>1
        <5>3. h <= i
          BY <1>6, <2>2, <5>2 DEF Heads
        <5>4. f = g[h] /\ h \in 1..n /\ i \in 1..n
          BY <1>4, <1>7, <3>1
        <5> QED  BY <1>1, <1>4, <5>1, <5>3, <5>4
      <4> QED  BY <4>1, <4>2
    <3> QED  BY <2>2, <3>2, <3>3 DEF Heads
  <2> QED  BY <2>1, <2>2
<1>10. Has(t, section) /\ FirstHeader(t, section) = f
  BY <1>2, <1>9, HeadsSame
<1>s. \A i : i \in SectionLines(s, section) <=> i \in DOMAIN s /\ i # h /\ HeaderOf(s, i) = h
  BY <1>6, FirstIs
<1>t. \A i : i \in SectionLines(t, section) <=> i \in DOMAIN t /\ i # f /\ HeaderOf(t, i) = f
  BY <1>2, <1>10, FirstIs
<1>i. \A i, j \in DOMAIN s : g[i] = g[j] => i = j
  BY <1>1, <1>4
<1>z. \A i \in DOMAIN s : i # 0 /\ g[i] # 0
  BY <1>1, <1>4
<1>11. ASSUME NEW i \in DOMAIN s  PROVE i \in SectionLines(s, section) <=> g[i] \in SectionLines(t, section)
  <2>1. g[i] \in DOMAIN t
    BY <1>2, <1>4
  <2>2. i # h <=> g[i] # f
    BY <1>7, <1>8, <1>i, <1>z
  <2>3. HeaderOf(s, i) = h <=> HeaderOf(t, g[i]) = f
    <3>1. CASE HeaderOf(s, i) = 0
      <4>1. HeaderOf(t, g[i]) = 0
        BY <1>5, <3>1
      <4>2. h = 0 <=> f = 0
        BY <1>7, <1>8, <1>z
      <4> QED  BY <3>1, <4>1, <4>2
    <3>2. CASE HeaderOf(s, i) # 0
      <4>1. HeaderOf(s, i) \in DOMAIN s /\ HeaderOf(t, g[i]) = g[HeaderOf(s, i)]
        BY <1>5, <3>2
      <4> QED  BY <1>7, <1>8, <1>i, <1>z, <4>1
    <3> QED  BY <3>1, <3>2
  <2> QED  BY <1>s, <1>t, <2>1, <2>2, <2>3
<1>12. ASSUME new.at = "key"
       PROVE  e + 1 \in SectionLines(t, section) <=> (IF e = 0 THEN 0 ELSE HeaderOf(s, e)) = h
  <2>1. e + 1 \in DOMAIN t /\ e + 1 # f
    <3>1. e + 1 \in DOMAIN t /\ e + 1 # 0
      BY <1>1, <1>2
    <3> QED  BY <1>4, <1>7, <1>8, <3>1
  <2>2. e + 1 \in SectionLines(t, section) <=> (IF e = 0 THEN 0 ELSE HeaderOf(s, e)) = f
    BY <1>2, <1>12, <1>t, <2>1
  <2>3. CASE h = 0
    BY <1>7, <2>2, <2>3
  <2>4. CASE h # 0
    <3>1. h \in 1..n /\ f = g[h] /\ f # 0
      BY <1>4, <1>7, <1>8, <1>z, <2>4
    <3>2. CASE e = 0
      BY <2>2, <2>4, <3>1, <3>2
    <3>3. CASE e # 0
      <4>1. e \in DOMAIN s /\ e \in Nat
        BY <1>1, <3>3
      <4>2. HeaderOf(s, e) = 0 \/ (HeaderOf(s, e) \in 1..n /\ HeaderOf(s, e) <= e)
        BY <1>1, <4>1, HeaderIs DEF LastUpTo, Headers
      <4>3. HeaderOf(s, e) = h => f = h
        BY <1>4, <1>8, <2>4, <3>1, <4>2
      <4>4. HeaderOf(s, e) = f => f = h
        <5> SUFFICES ASSUME HeaderOf(s, e) = f, f # h  PROVE FALSE
          OBVIOUS
        <5>1. f <= e /\ f \in 1..n
          BY <3>1, <4>2
        <5>2. f = (IF h <= e THEN h ELSE h + 1)
          BY <1>4, <1>8, <2>4, <3>1
        <5>3. ~(h <= e) /\ f = h + 1
          BY <5>2
        <5> QED  BY <3>1, <4>1, <5>1, <5>3
      <4> QED  BY <2>2, <3>3, <4>3, <4>4
    <3> QED  BY <3>2, <3>3
  <2> QED  BY <2>3, <2>4
<1> QED  BY <1>3, <1>6, <1>7, <1>10, <1>11, <1>12

(* Where it is once a line gave way.                                       *)
LEMMA ReplaceSection ==
  ASSUME NEW s \in Seq(TomlLine), NEW p \in DOMAIN s, NEW new \in TomlLine, NEW t, t = ReplaceAt(s, p, new),
         new.at = "key", s[p].at = "key", NEW section, Has(s, section)
  PROVE  /\ Has(t, section) /\ FirstHeader(t, section) = FirstHeader(s, section)
         /\ SectionLines(t, section) = SectionLines(s, section)
<1>1. PICK n \in Nat : n = Len(s) /\ DOMAIN s = 1..n
  BY LenProperties
<1>2. /\ t \in Seq(TomlLine) /\ DOMAIN t = DOMAIN s /\ t[p] = new
      /\ \A i \in DOMAIN s : (i # p => t[i] = s[i]) /\ TableOf(t, i) = TableOf(s, i)
      /\ \A i \in DOMAIN s : HeaderOf(t, i) = HeaderOf(s, i)
  BY ReplaceStays
<1>3. \A i \in DOMAIN s : t[i] = Table(section) <=> s[i] = Table(section)
  <2>1. Table(section).at = "table"
    BY DEF Table
  <2>2. s[p] # Table(section) /\ t[p] # Table(section)
    BY <1>2, <2>1
  <2> QED  BY <1>2, <2>2
<1>4. PICK h : h = FirstHeader(s, section) /\ Heads(s, section, h)
  BY FirstIs
<1>5. Heads(t, section, h)
  <2>1. CASE section = <<>>
    BY <1>4, <2>1 DEF Heads
  <2>2. CASE section # <<>>
    BY <1>2, <1>3, <1>4, <2>2 DEF Heads
  <2> QED  BY <2>1, <2>2
<1>6. Has(t, section) /\ FirstHeader(t, section) = h
  BY <1>2, <1>5, HeadsSame
<1>7. \A i : i \in SectionLines(s, section) <=> i \in DOMAIN s /\ i # h /\ HeaderOf(s, i) = h
  BY <1>4, FirstIs
<1>8. \A i : i \in SectionLines(t, section) <=> i \in DOMAIN t /\ i # h /\ HeaderOf(t, i) = h
  BY <1>2, <1>6, FirstIs
<1>9. \A i : i \in SectionLines(t, section) <=> i \in SectionLines(s, section)
  BY <1>2, <1>7, <1>8
<1> QED  BY <1>4, <1>6, <1>9

LEMMA HoldsInserted ==
  ASSUME NEW s \in Seq(TomlLine), NEW e, NEW new, NEW t, Inserts(s, e, new, t), new.at = "key" \/ e = Len(s),
         NEW section, NEW key, NEW gen, Holds(s, section, key, gen),
         IsKey(new, key) => e + 1 \notin SectionLines(t, section)
  PROVE  Holds(t, section, key, gen)
<1>1. PICK n \in Nat : n = Len(s) /\ DOMAIN s = 1..n /\ e \in 0..n
  BY LenProperties DEF Inserts
<1>2. /\ t \in Seq(TomlLine) /\ DOMAIN t = 1..(n + 1) /\ t[e + 1] = new
      /\ Moved(s, t, DOMAIN s, Shift(s, e))
      /\ \A k \in DOMAIN t \ {e + 1} : \E i \in DOMAIN s : Shift(s, e)[i] = k
  BY <1>1, InsertMoves
<1>3. PICK g : g = Shift(s, e)
  OBVIOUS
<1>4. \A i \in DOMAIN s : g[i] = (IF i <= e THEN i ELSE i + 1) /\ i \in 1..n /\ g[i] \in 1..(n + 1) /\ t[g[i]] = s[i]
  BY <1>1, <1>2, <1>3 DEF Shift, Moved
<1>5. Has(s, section)
  BY DEF Holds
<1>6. /\ Has(t, section)
      /\ \A i \in DOMAIN s : i \in SectionLines(s, section) <=> g[i] \in SectionLines(t, section)
  BY <1>3, <1>5, InsertSection
<1>7. PICK p \in SectionLines(s, section) :
        s[p] = NewKey(key, gen) /\ \A q \in SectionLines(s, section) : IsKey(s[q], key) => p <= q
  BY DEF Holds
<1>8. p \in DOMAIN s
  BY <1>5, FirstIs
<1>9. g[p] \in SectionLines(t, section) /\ t[g[p]] = NewKey(key, gen)
  BY <1>4, <1>6, <1>7, <1>8
<1>10. ASSUME NEW q \in SectionLines(t, section), IsKey(t[q], key)  PROVE g[p] <= q
  <2>1. q \in DOMAIN t /\ q # e + 1
    BY <1>2, <1>6, <1>10, FirstIs
  <2>2. PICK i \in DOMAIN s : g[i] = q
    BY <1>2, <1>3, <2>1
  <2>3. i \in SectionLines(s, section) /\ IsKey(s[i], key)
    BY <1>4, <1>6, <1>10, <2>2
  <2>4. p <= i /\ p \in 1..n /\ i \in 1..n
    BY <1>4, <1>7, <1>8, <2>3
  <2> QED  BY <1>1, <1>4, <1>8, <2>2, <2>4
<1> QED  BY <1>6, <1>9, <1>10 DEF Holds

LEMMA HoldsReplaced ==
  ASSUME NEW s \in Seq(TomlLine), NEW p \in DOMAIN s, NEW new \in TomlLine, NEW t, t = ReplaceAt(s, p, new),
         new.at = "key", s[p].at = "key",
         NEW section, NEW key, NEW gen, Holds(s, section, key, gen),
         p \in SectionLines(s, section) => new.of # key /\ s[p] # NewKey(key, gen)
  PROVE  Holds(t, section, key, gen)
<1>2. /\ t \in Seq(TomlLine) /\ DOMAIN t = DOMAIN s /\ t[p] = new
      /\ \A i \in DOMAIN s : i # p => t[i] = s[i]
  BY ReplaceStays
<1>3. Has(s, section)
  BY DEF Holds
<1>4. Has(t, section) /\ SectionLines(t, section) = SectionLines(s, section)
  BY <1>3, ReplaceSection
<1>5. PICK r \in SectionLines(s, section) :
        s[r] = NewKey(key, gen) /\ \A q \in SectionLines(s, section) : IsKey(s[q], key) => r <= q
  BY DEF Holds
<1>6. \A q \in SectionLines(s, section) : q \in DOMAIN s
  BY <1>3, FirstIs
<1>7. t[r] = NewKey(key, gen)
  BY <1>2, <1>5, <1>6
<1>8. ASSUME NEW q \in SectionLines(t, section), IsKey(t[q], key)  PROVE r <= q
  <2>1. q \in SectionLines(s, section) /\ q \in DOMAIN s
    BY <1>4, <1>6
  <2>2. q # p
    BY <1>2, <1>8, <2>1 DEF IsKey
  <2>3. IsKey(s[q], key)
    BY <1>2, <1>8, <2>1, <2>2
  <2> QED  BY <1>5, <2>1, <2>3
<1> QED  BY <1>4, <1>5, <1>7, <1>8 DEF Holds

(* A section that is missing comes at the end.                             *)
LEMMA AppendInserts ==
  ASSUME NEW s \in Seq(TomlLine), NEW x \in TomlLine
  PROVE  Inserts(s, Len(s), x, Append(s, x))
<1>1. PICK n \in Nat : n = Len(s) /\ DOMAIN s = 1..n
  BY LenProperties
<1>2. PICK t : t = InsertAt(s, n + 1, x)
  OBVIOUS
<1>3. /\ t \in Seq(TomlLine) /\ DOMAIN t = 1..(n + 1) /\ t[n + 1] = x
      /\ \A i \in 1..n : t[i] = s[i]
  <2>1. Inserts(s, n, x, t)
    BY <1>1, <1>2 DEF Inserts
  <2> QED  BY <1>1, <2>1, Inserted
<1>a. PICK a : a = Append(s, x)
  OBVIOUS
<1>4. a \in Seq(TomlLine) /\ Len(a) = n + 1 /\ a[n + 1] = x /\ \A i \in 1..n : a[i] = s[i]
  BY <1>1, <1>a, AppendProperties
<1>5. \A i \in 1..(n + 1) : a[i] = t[i]
  <2>1. \A i \in 1..(n + 1) : i \in 1..n \/ i = n + 1
    BY <1>1
  <2> QED  BY <1>3, <1>4, <2>1
<1>6. a = t
  <2>1. Len(t) = n + 1
    BY <1>1, <1>3, LenProperties
  <2> QED  BY <1>3, <1>4, <1>5, <2>1, SeqEqual
<1> QED  BY <1>1, <1>2, <1>a, <1>6 DEF Inserts

LEMMA SectionThere ==
  ASSUME NEW s \in Seq(TomlLine), NEW section \in Seq(STRING), NEW t, t = WithSection(s, section)
  PROVE  /\ t \in Seq(TomlLine) /\ Has(t, section)
         /\ Names(t) \subseteq Names(s) \cup {section}
         /\ Good(s) => Good(t) /\ Entries(t) = Entries(s)
         /\ Broken(s) => Broken(t)
         /\ \A other, key, gen : Holds(s, other, key, gen) => Holds(t, other, key, gen)
<1>1. CASE Has(s, section)
  <2>1. t = s
    BY <1>1 DEF WithSection, Has
  <2> QED  BY <1>1, <2>1
<1>2. CASE ~Has(s, section)
  <2>1. PICK n \in Nat : n = Len(s) /\ DOMAIN s = 1..n
    BY LenProperties
  <2>2. PICK new : new = Table(section) /\ new \in TomlLine /\ new.at = "table" /\ new.turns = FALSE /\ new.of = section
    <3>1. section \in TableName
      BY <1>2 DEF Has, TableName
    <3>2. Table(section) \in TomlLine
      BY <3>1 DEF Table, TomlLine
    <3>3. Table(section).at = "table" /\ Table(section).turns = FALSE /\ Table(section).of = section
      BY DEF Table
    <3> QED  BY <3>2, <3>3
  <2>3. Inserts(s, n, new, t)
    <3>1. t = Append(s, new)
      BY <1>2, <2>2 DEF WithSection, Has
    <3> QED  BY <2>1, <2>2, <3>1, AppendInserts
  <2>4. PICK g : g = Shift(s, n)
    OBVIOUS
  <2>5. /\ t \in Seq(TomlLine) /\ DOMAIN t = 1..(n + 1) /\ t[n + 1] = new
        /\ \A k \in DOMAIN t \ {n + 1} : \E i \in DOMAIN s : g[i] = k
        /\ Moved(s, t, DOMAIN s, g)
    BY <2>1, <2>3, <2>4, InsertMoves
  <2>6. Has(t, section)
    BY <2>1, <2>2, <2>5 DEF Has
  <2>7. ASSUME NEW x \in Names(t)  PROVE x \in Names(s) \cup {section}
    <3>1. PICK h \in Headers(t) : x = t[h].of
      BY DEF Names
    <3>2. CASE h = n + 1
      BY <2>2, <2>5, <3>1, <3>2
    <3>3. CASE h # n + 1
      <4>1. PICK i \in DOMAIN s : g[i] = h
        BY <2>5, <3>3 DEF Headers
      <4>2. t[h] = s[i]
        BY <2>5, <4>1 DEF Moved
      <4> QED  BY <3>1, <4>2 DEF Headers, Names
    <3> QED  BY <3>2, <3>3
  <2>8. ASSUME Good(s)  PROVE Good(t) /\ Entries(t) = Entries(s)
    <3>1. n \notin Going(s)
      BY <2>1, <2>8 DEF Good
    <3>2. Together(s, t, DOMAIN s, g) /\ Good(t)
      BY <2>1, <2>2, <2>3, <2>4, <2>8, <3>1, InsertTogether
    <3>3. ASSUME NEW i \in RealKeys(s)  PROVE g[i] \in RealKeys(t) /\ Entry(t, g[i]) = Entry(s, i)
      <4>1. i \in DOMAIN s
        BY DEF RealKeys, KeyLines
      <4> QED  BY <2>5, <3>2, <4>1, TogetherEntries
    <3>4. ASSUME NEW k \in RealKeys(t)  PROVE \E i \in RealKeys(s) : Entry(t, k) = Entry(s, i)
      <4>1. k \in DOMAIN t /\ k # n + 1
        BY <2>2, <2>5 DEF RealKeys, KeyLines
      <4>2. PICK i \in DOMAIN s : g[i] = k
        BY <2>5, <4>1
      <4>3. i \in RealKeys(s)
        BY <2>5, <3>2, <4>2, TogetherEntries
      <4> QED  BY <3>3, <4>2, <4>3
    <3> QED  BY <3>2, <3>3, <3>4 DEF Entries
  <2>9. ASSUME Broken(s)  PROVE Broken(t)
    BY <2>2, <2>3, <2>9, InsertBroken
  <2>10. ASSUME NEW other, NEW key, NEW gen, Holds(s, other, key, gen)  PROVE Holds(t, other, key, gen)
    <3>1. ~IsKey(new, key)
      BY <2>2 DEF IsKey
    <3> QED  BY <2>1, <2>3, <2>10, <3>1, HoldsInserted
  <2> QED  BY <2>5, <2>6, <2>7, <2>8, <2>9, <2>10
<1> QED  BY <1>1, <1>2

(* What a list of lines says after one of them was changed.                *)
EntryChanges(s, k, new, t, p) ==
  /\ p \in RealKeys(t) /\ Entry(t, p) = new
  /\ \A i \in RealKeys(t) \ {p} : \E j \in RealKeys(s) : Entry(t, i) = Entry(s, j)
  /\ \A j \in RealKeys(s) : Entry(s, j)[1] # k => \E i \in RealKeys(t) : Entry(t, i) = Entry(s, j)
LEMMA ChangeIs ==
  ASSUME NEW s, NEW k, NEW new, NEW t, NEW p, EntryChanges(s, k, new, t, p), new[1] = k
  PROVE  new \in Entries(t) /\ \A r : r[1] # k => (r \in Entries(t) <=> r \in Entries(s))
<1>1. new \in Entries(t)
  BY DEF EntryChanges, Entries
<1>2. ASSUME NEW r, r[1] # k, r \in Entries(t)  PROVE r \in Entries(s)
  <2>1. PICK i \in RealKeys(t) : r = Entry(t, i)
    BY <1>2 DEF Entries
  <2>2. i # p
    BY <1>2, <2>1 DEF EntryChanges
  <2>3. PICK j \in RealKeys(s) : r = Entry(s, j)
    BY <2>1, <2>2 DEF EntryChanges
  <2> QED  BY <2>3 DEF Entries
<1>3. ASSUME NEW r, r[1] # k, r \in Entries(s)  PROVE r \in Entries(t)
  <2>1. PICK j \in RealKeys(s) : r = Entry(s, j)
    BY <1>3 DEF Entries
  <2>2. PICK i \in RealKeys(t) : r = Entry(t, i)
    BY <1>3, <2>1 DEF EntryChanges
  <2> QED  BY <2>2 DEF Entries
<1> QED  BY <1>1, <1>2, <1>3

(* A key of one line, outside of all values.                               *)
LEMMA KeyAlone ==
  ASSUME NEW t \in Seq(TomlLine), NEW section, NEW key \in STRING, NEW gen \in Generation, NEW p \in DOMAIN t,
         t[p] = NewKey(key, gen), TableOf(t, p) = section, p - 1 \notin Going(t), p \notin Going(t)
  PROVE  p \in RealKeys(t) /\ Entry(t, p) = NewEntry(section, key, gen)
<1>1. PICK n \in Nat : n = Len(t) /\ DOMAIN t = 1..n
  BY LenProperties
<1>2. /\ NewKey(key, gen).at = "key" /\ NewKey(key, gen).of = key /\ NewKey(key, gen).val = ManagedValue(key, gen)
  BY NewKeyIs
<1>3. p \in RealKeys(t)
  <2>1. p \notin Inside(t)
    BY GoingIs
  <2> QED  BY <1>2, <2>1 DEF RealKeys, KeyLines
<1>4. Depth(t, p) = {}
  <2>1. \A m \in 1..(n - p) : p \in p..(p + m - 1)
    BY <1>1
  <2> QED  BY <1>1, <2>1 DEF Depth
<1>5. Below(t, p) = <<>>
  <2>1. Below(t, p) = [d \in Depth(t, p) |-> t[p + d]]
    BY BelowIs
  <2>2. Below(t, p) = [d \in {} |-> t[p + d]]
    BY <1>4, <2>1
  <2> QED  BY <2>2
<1> QED  BY <1>2, <1>3, <1>5 DEF Entry, NewEntry

(* In place of the first line that has it: when its value had lines of its *)
(* own, they are left over.                                                *)
LEMMA KeyReplaced ==
  ASSUME NEW s \in Seq(TomlLine), NEW section, Has(s, section), NEW key \in STRING, NEW gen \in Generation,
         NEW p, NEW t, Replaces(s, section, key, gen, t, p)
  PROVE  /\ t \in Seq(TomlLine) /\ Names(t) \subseteq Names(s)
         /\ Holds(t, section, key, gen)
         /\ \A other, k : <<other, k>> # <<section, key>> /\ Holds(s, other, k, gen) => Holds(t, other, k, gen)
         /\ Broken(s) => Broken(t)
         /\ Good(s) /\ <<section, key>> \in Range(Managed) =>
              \/ Broken(t)
              \/ Good(t) /\ EntryChanges(s, <<section, key>>, NewEntry(section, key, gen), t, p)
<1>n. /\ NewKey(key, gen) \in TomlLine /\ NewKey(key, gen).at = "key" /\ NewKey(key, gen).of = key
      /\ NewKey(key, gen).turns = FALSE
  BY NewKeyIs
<1>1. PICK new : /\ new = NewKey(key, gen) /\ new \in TomlLine /\ new.at = "key" /\ new.of = key
                 /\ new.turns = FALSE
  BY <1>n
<1>2. /\ p \in SectionLines(s, section) /\ s[p].at = "key" /\ s[p].of = key
      /\ \A q \in SectionLines(s, section) : IsKey(s[q], key) => p <= q
      /\ t = ReplaceAt(s, p, new)
  BY <1>1 DEF Replaces, IsKey
<1>3. p \in DOMAIN s /\ TableOf(s, p) = section /\ p \in Nat
  <2>1. \A i \in DOMAIN s : i \in Nat
    BY LenProperties
  <2> QED  BY <1>2, <2>1, FirstIs
<1>4. /\ t \in Seq(TomlLine) /\ DOMAIN t = DOMAIN s /\ t[p] = new
      /\ \A i \in DOMAIN s : (i # p => t[i] = s[i]) /\ TableOf(t, i) = TableOf(s, i)
      /\ Headers(t) = Headers(s)
  BY <1>1, <1>2, <1>3, ReplaceStays
<1>5. p \in KeyLines(s)
  BY <1>2, <1>3 DEF KeyLines
<1>6. Names(t) \subseteq Names(s)
  <2>1. \A h \in Headers(s) : h # p /\ h \in DOMAIN s
    BY <1>2 DEF Headers
  <2> QED  BY <1>4, <2>1 DEF Names
<1>7. Holds(t, section, key, gen)
  <2>1. Has(t, section) /\ SectionLines(t, section) = SectionLines(s, section)
    BY <1>1, <1>2, <1>3, ReplaceSection
  <2>2. ASSUME NEW q \in SectionLines(t, section), IsKey(t[q], key)  PROVE p <= q
    <3>1. CASE q = p
      BY <1>3, <3>1
    <3>2. CASE q # p
      <4>1. q \in SectionLines(s, section) /\ q \in DOMAIN s
        BY <2>1, FirstIs
      <4>2. IsKey(s[q], key)
        BY <1>4, <2>2, <3>2, <4>1
      <4> QED  BY <1>2, <4>1, <4>2
    <3> QED  BY <3>1, <3>2
  <2> QED  BY <1>1, <1>2, <1>4, <2>1, <2>2 DEF Holds
<1>8. ASSUME NEW other, NEW k, <<other, k>> # <<section, key>>, Holds(s, other, k, gen)
      PROVE  Holds(t, other, k, gen)
  <2>1. ASSUME p \in SectionLines(s, other)  PROVE k # key
    <3>1. other = section
      BY <1>3, <1>8, <2>1, FirstIs DEF Holds
    <3> QED  BY <1>8, <3>1
  <2>2. s[p] = NewKey(k, gen) => k = key
    BY <1>2 DEF NewKey, Key
  <2> QED  BY <1>1, <1>2, <1>3, <1>8, <2>1, <2>2, HoldsReplaced
<1>9. ASSUME Broken(s)  PROVE Broken(t)
  BY <1>1, <1>2, <1>5, <1>9, ReplaceBroken
<1>10. ASSUME Good(s), <<section, key>> \in Range(Managed)
       PROVE  \/ Broken(t)
              \/ Good(t) /\ EntryChanges(s, <<section, key>>, NewEntry(section, key, gen), t, p)
  <2>1. CASE p \in Turning(s)
    BY <1>1, <1>2, <1>5, <1>10, <2>1, ReplaceBreaks
  <2>2. CASE p \notin Turning(s)
    <3>1. p \in RealKeys(s)
      BY <1>2, <1>3, <1>5, <1>10 DEF RealKeys, Good, Plain
    <3>2. PICK P : P = DOMAIN s \ {p}
      OBVIOUS
    <3>3. PICK g : g = [i \in P |-> i]
      OBVIOUS
    <3>4. /\ Together(s, t, P, g) /\ Good(t)
          /\ p - 1 \notin Going(t) /\ p \notin Going(t)
      BY <1>1, <1>2, <1>10, <2>2, <3>1, <3>2, <3>3, ReplaceTogether
    <3>5. p \in RealKeys(t) /\ Entry(t, p) = NewEntry(section, key, gen)
      BY <1>1, <1>3, <1>4, <3>4, KeyAlone
    <3>6. ASSUME NEW i \in P  PROVE (i \in RealKeys(s) <=> i \in RealKeys(t)) /\ (i \in RealKeys(s) => Entry(t, i) = Entry(s, i))
      <4>1. (i \in RealKeys(s) <=> g[i] \in RealKeys(t)) /\ (i \in RealKeys(s) => Entry(t, g[i]) = Entry(s, i))
        BY <1>4, <3>4, TogetherEntries
      <4> QED  BY <3>3, <4>1
    <3>7. \A i : (i \in RealKeys(s) \/ i \in RealKeys(t)) => i = p \/ i \in P
      BY <1>4, <3>2 DEF RealKeys, KeyLines
    <3>8. Entry(s, p)[1] = <<section, key>>
      BY <1>2, <1>3 DEF Entry
    <3>9. EntryChanges(s, <<section, key>>, NewEntry(section, key, gen), t, p)
      BY <3>5, <3>6, <3>7, <3>8 DEF EntryChanges
    <3> QED  BY <3>4, <3>9
  <2> QED  BY <2>1, <2>2
<1> QED  BY <1>4, <1>6, <1>7, <1>8, <1>9, <1>10

(* Below the last line of its section: a value that does not end there     *)
(* would make what comes next look like a header.                          *)
LEMMA AddsOutside ==
  ASSUME NEW s \in Seq(TomlLine), NEW section, Has(s, section), NEW key, NEW gen, NEW t, NEW e,
         Adds(s, section, key, gen, t, e), Good(s)
  PROVE  e \notin Going(s)
<1>1. PICK n \in Nat : n = Len(s) /\ DOMAIN s = 1..n
  BY LenProperties
<1>2. PICK head : head = FirstHeader(s, section) /\ Heads(s, section, head)
  BY FirstIs
<1>3. /\ e \in {head} \cup SectionLines(s, section) /\ e \in 0..n
      /\ \A q \in {head} \cup SectionLines(s, section) : q <= e
  BY <1>1, <1>2 DEF Adds, Inserts
<1>4. Reads(s, Going(s)) /\ Inside(s) = {i \in DOMAIN s : i - 1 \in Going(s)}
  BY GoingIs
<1>5. CASE e = 0
  BY <1>4, <1>5 DEF Reads
<1>6. CASE e = n
  BY <1>1, <1>6 DEF Good
<1>7. CASE e # 0 /\ e # n
  <2>1. e \in DOMAIN s /\ e + 1 \in DOMAIN s /\ e + 1 - 1 = e
    BY <1>1, <1>3, <1>7
  <2>2. HeaderOf(s, e) = head
    <3>1. CASE e = head
      BY <1>2, <1>7, <3>1 DEF Heads
    <3>2. CASE e # head
      BY <1>2, <1>3, <3>2, FirstIs
    <3> QED  BY <3>1, <3>2
  <2>3. e + 1 \notin {head} \cup SectionLines(s, section)
    <3> SUFFICES ASSUME e + 1 \in {head} \cup SectionLines(s, section)  PROVE FALSE
      OBVIOUS
    <3>1. e + 1 <= e
      BY <1>3
    <3> QED  BY <1>3, <3>1
  <2>4. e + 1 \in Headers(s)
    <3> SUFFICES ASSUME e + 1 \notin Headers(s)  PROVE FALSE
      OBVIOUS
    <3>1. HeaderOf(s, e + 1) = head
      BY <2>1, <2>2, HeaderNext
    <3>2. e + 1 \in SectionLines(s, section)
      BY <1>2, <2>1, <2>3, <3>1, FirstIs
    <3> QED  BY <2>3, <3>2
  <2>5. e + 1 \notin Inside(s)
    BY <2>4 DEF Headers, Good, Plain
  <2> QED  BY <1>4, <2>1, <2>5
<1> QED  BY <1>5, <1>6, <1>7

LEMMA KeyInserted ==
  ASSUME NEW s \in Seq(TomlLine), NEW section, Has(s, section), NEW key \in STRING, NEW gen \in Generation,
         NEW e, NEW t, Adds(s, section, key, gen, t, e)
  PROVE  /\ t \in Seq(TomlLine) /\ Names(t) \subseteq Names(s)
         /\ Holds(t, section, key, gen)
         /\ \A other, k : <<other, k>> # <<section, key>> /\ Holds(s, other, k, gen) => Holds(t, other, k, gen)
         /\ Broken(s) => Broken(t)
         /\ Good(s) => Good(t) /\ EntryChanges(s, <<section, key>>, NewEntry(section, key, gen), t, e + 1)
<1>n. /\ NewKey(key, gen) \in TomlLine /\ NewKey(key, gen).at = "key" /\ NewKey(key, gen).of = key
      /\ NewKey(key, gen).turns = FALSE
  BY NewKeyIs
<1>1. PICK new : /\ new = NewKey(key, gen) /\ new \in TomlLine /\ new.at = "key" /\ new.of = key
                 /\ new.turns = FALSE
  BY <1>n
<1>2. Inserts(s, e, new, t)
  BY <1>1 DEF Adds
<1>3. PICK n \in Nat : n = Len(s) /\ DOMAIN s = 1..n /\ e \in 0..n
  BY <1>2, LenProperties DEF Inserts
<1>4. PICK g : g = Shift(s, e)
  OBVIOUS
<1>5. /\ t \in Seq(TomlLine) /\ DOMAIN t = 1..(n + 1) /\ e + 1 \in DOMAIN t /\ t[e + 1] = new
      /\ Moved(s, t, DOMAIN s, g)
      /\ \A k \in DOMAIN t \ {e + 1} : \E i \in DOMAIN s : g[i] = k
      /\ TableOf(t, e + 1) = IF e = 0 THEN <<>> ELSE TableOf(s, e)
  BY <1>1, <1>2, <1>3, <1>4, InsertMoves
<1>6. PICK head : head = FirstHeader(s, section) /\ Heads(s, section, head)
  BY FirstIs
<1>7. /\ e \in {head} \cup SectionLines(s, section)
      /\ \A q \in SectionLines(s, section) : ~IsKey(s[q], key)
  BY <1>6 DEF Adds
<1>8. (IF e = 0 THEN 0 ELSE HeaderOf(s, e)) = head /\ section = IF e = 0 THEN <<>> ELSE TableOf(s, e)
  <2>1. CASE e = head
    <3>1. head # 0 => HeaderOf(s, head) = head /\ TableOf(s, head) = section
      BY <1>6 DEF Heads
    <3>2. head = 0 => section = <<>>
      BY <1>3, <1>6 DEF Heads
    <3> QED  BY <2>1, <3>1, <3>2
  <2>2. CASE e # head
    <3>1. e \in SectionLines(s, section)
      BY <1>7, <2>2
    <3>2. e \in DOMAIN s /\ HeaderOf(s, e) = head /\ TableOf(s, e) = section
      BY <1>6, <3>1, FirstIs
    <3> QED  BY <1>3, <3>2
  <2> QED  BY <2>1, <2>2
<1>9. /\ Has(t, section) /\ e + 1 \in SectionLines(t, section)
      /\ \A i \in DOMAIN s : i \in SectionLines(s, section) <=> g[i] \in SectionLines(t, section)
  BY <1>1, <1>2, <1>4, <1>6, <1>8, InsertSection
<1>10. Holds(t, section, key, gen)
  <2>1. ASSUME NEW q \in SectionLines(t, section), IsKey(t[q], key)  PROVE q = e + 1
    <3> SUFFICES ASSUME q # e + 1  PROVE FALSE
      OBVIOUS
    <3>1. q \in DOMAIN t
      BY <1>5, <1>9, FirstIs
    <3>2. PICK i \in DOMAIN s : g[i] = q
      BY <1>5, <3>1
    <3>3. t[q] = s[i]
      BY <1>5, <3>2 DEF Moved
    <3> QED  BY <1>7, <1>9, <2>1, <3>2, <3>3
  <2>2. e + 1 <= e + 1
    BY <1>3
  <2> QED  BY <1>1, <1>5, <1>9, <2>1, <2>2 DEF Holds
<1>11. ASSUME NEW other, NEW k, <<other, k>> # <<section, key>>, Holds(s, other, k, gen)
       PROVE  Holds(t, other, k, gen)
  <2>1. ASSUME IsKey(new, k), e + 1 \in SectionLines(t, other)  PROVE FALSE
    <3>1. k = key /\ Has(s, other)
      BY <1>1, <1>11, <2>1 DEF IsKey, Holds
    <3>2. FirstHeader(s, other) = head
      BY <1>1, <1>2, <1>8, <2>1, <3>1, InsertSection
    <3>3. other = section
      BY <1>6, <3>1, <3>2, OtherSection
    <3> QED  BY <1>11, <3>1, <3>3
  <2> QED  BY <1>1, <1>2, <1>11, <2>1, HoldsInserted
<1>12. ASSUME NEW x \in Names(t)  PROVE x \in Names(s)
  <2>1. PICK h \in Headers(t) : x = t[h].of
    BY DEF Names
  <2>2. h # e + 1 /\ h \in DOMAIN t
    BY <1>1, <1>5, <2>1 DEF Headers
  <2>3. PICK i \in DOMAIN s : g[i] = h
    BY <1>5, <2>2
  <2>4. t[h] = s[i]
    BY <1>5, <2>3 DEF Moved
  <2> QED  BY <2>1, <2>4 DEF Headers, Names
<1>13. ASSUME Broken(s)  PROVE Broken(t)
  BY <1>1, <1>2, <1>13, InsertBroken
<1>14. ASSUME Good(s)  PROVE Good(t) /\ EntryChanges(s, <<section, key>>, NewEntry(section, key, gen), t, e + 1)
  <2>1. e \notin Going(s)
    BY <1>14, AddsOutside
  <2>2. /\ Together(s, t, DOMAIN s, g) /\ Good(t)
        /\ e \notin Going(t) /\ e + 1 \notin Going(t)
    BY <1>1, <1>2, <1>4, <1>14, <2>1, InsertTogether
  <2>3. e + 1 \in RealKeys(t) /\ Entry(t, e + 1) = NewEntry(section, key, gen)
    <3>1. PICK p : p = e + 1 /\ p - 1 = e
      BY <1>3
    <3>2. TableOf(t, p) = section
      BY <1>5, <1>8, <3>1
    <3>3. p \in DOMAIN t /\ t[p] = NewKey(key, gen) /\ p \notin Going(t) /\ p - 1 \notin Going(t)
      BY <1>1, <1>5, <2>2, <3>1
    <3>4. p \in RealKeys(t) /\ Entry(t, p) = NewEntry(section, key, gen)
      BY <1>5, <3>2, <3>3, KeyAlone
    <3> QED  BY <3>1, <3>4
  <2>4. ASSUME NEW i \in RealKeys(s)  PROVE g[i] \in RealKeys(t) /\ Entry(t, g[i]) = Entry(s, i)
    <3>1. i \in DOMAIN s
      BY DEF RealKeys, KeyLines
    <3> QED  BY <1>5, <2>2, <3>1, TogetherEntries
  <2>5. ASSUME NEW k \in RealKeys(t) \ {e + 1}  PROVE \E i \in RealKeys(s) : Entry(t, k) = Entry(s, i)
    <3>1. k \in DOMAIN t \ {e + 1}
      BY DEF RealKeys, KeyLines
    <3>2. PICK i \in DOMAIN s : g[i] = k
      BY <1>5, <3>1
    <3>3. i \in RealKeys(s)
      BY <1>5, <2>2, <3>2, TogetherEntries
    <3> QED  BY <2>4, <3>2, <3>3
  <2> QED  BY <2>2, <2>3, <2>4, <2>5 DEF EntryChanges
<1> QED  BY <1>5, <1>10, <1>11, <1>12, <1>13, <1>14

(* A managed key is set: it has its value, every other one is as it was,   *)
(* or the file does not parse.                                             *)
LEMMA KeySet ==
  ASSUME NEW s \in Seq(TomlLine), NEW section, NEW key, NEW gen, NEW t, Sets(s, section, key, gen, t)
  PROVE  /\ t \in Seq(TomlLine) /\ Names(t) \subseteq Names(s) \cup {section}
         /\ Holds(t, section, key, gen)
         /\ \A other, k : <<other, k>> # <<section, key>> /\ Holds(s, other, k, gen) => Holds(t, other, k, gen)
         /\ Broken(s) => Broken(t)
         /\ Good(s) /\ <<section, key>> \in Range(Managed) =>
              \/ Broken(t)
              \/ /\ Good(t) /\ NewEntry(section, key, gen) \in Entries(t)
                 /\ \A r : r[1] # <<section, key>> => (r \in Entries(t) <=> r \in Entries(s))
<1>0. section \in Seq(STRING) /\ key \in STRING /\ gen \in Generation
  BY DEF Sets
<1>1. PICK here : here = WithSection(s, section)
  OBVIOUS
<1>2. /\ here \in Seq(TomlLine) /\ Has(here, section)
      /\ Names(here) \subseteq Names(s) \cup {section}
      /\ Good(s) => Good(here) /\ Entries(here) = Entries(s)
      /\ Broken(s) => Broken(here)
      /\ \A other, k : Holds(s, other, k, gen) => Holds(here, other, k, gen)
  BY <1>0, <1>1, SectionThere
<1>3. PICK p :
        /\ t \in Seq(TomlLine) /\ Names(t) \subseteq Names(here)
        /\ Holds(t, section, key, gen)
        /\ \A other, k : <<other, k>> # <<section, key>> /\ Holds(here, other, k, gen) => Holds(t, other, k, gen)
        /\ Broken(here) => Broken(t)
        /\ Good(here) /\ <<section, key>> \in Range(Managed) =>
             \/ Broken(t)
             \/ Good(t) /\ EntryChanges(here, <<section, key>>, NewEntry(section, key, gen), t, p)
  <2>1. CASE \E p : Replaces(here, section, key, gen, t, p)
    <3>1. PICK p : Replaces(here, section, key, gen, t, p)
      BY <2>1
    <3> QED  BY <1>0, <1>2, <3>1, KeyReplaced
  <2>2. CASE \E e : Adds(here, section, key, gen, t, e)
    <3>1. PICK e : Adds(here, section, key, gen, t, e)
      BY <2>2
    <3> QED  BY <1>0, <1>2, <3>1, KeyInserted
  <2> QED  BY <1>1, <1>2, <2>1, <2>2, SetIs
<1>4. NewEntry(section, key, gen)[1] = <<section, key>>
  BY DEF NewEntry
<1>5. ASSUME Good(s), <<section, key>> \in Range(Managed), ~Broken(t)
      PROVE  /\ Good(t) /\ NewEntry(section, key, gen) \in Entries(t)
             /\ \A r : r[1] # <<section, key>> => (r \in Entries(t) <=> r \in Entries(s))
  <2>1. Good(t) /\ EntryChanges(here, <<section, key>>, NewEntry(section, key, gen), t, p)
    BY <1>2, <1>3, <1>5
  <2>2. /\ NewEntry(section, key, gen) \in Entries(t)
        /\ \A r : r[1] # <<section, key>> => (r \in Entries(t) <=> r \in Entries(here))
    BY <1>4, <2>1, ChangeIs
  <2> QED  BY <1>2, <1>5, <2>1, <2>2
<1> QED  BY <1>2, <1>3, <1>5

(* What all settings make of the lines, one after the other.               *)
Steps(f, N, s, gen) ==
  f = [n \in 0..N |-> IF n = 0 THEN RemoveTables(s) ELSE SetKey(f[n - 1], Managed[n][1], Managed[n][2], gen)]
LEMMA StepsThere ==
  ASSUME NEW s, NEW gen, NEW N \in Nat
  PROVE  \E f : Steps(f, N, s, gen)
<1> DEFINE S == {n \in 0..N : \E f : Steps(f, n, s, gen)}
<1>1. 0 \in S
  <2>1. Steps([n \in 0..0 |-> RemoveTables(s)], 0, s, gen)
    BY DEF Steps
  <2> QED  BY <2>1
<1>2. ASSUME NEW n \in 0..N, n \in S, n < N  PROVE n + 1 \in S
  <2>1. PICK f : Steps(f, n, s, gen)
    BY <1>2
  <2> DEFINE next(i) == SetKey(f[i - 1], Managed[i][1], Managed[i][2], gen)
             g == [i \in 0..(n + 1) |-> IF i \in 0..n THEN f[i] ELSE next(i)]
  <2>2. ASSUME NEW i \in 0..(n + 1)
        PROVE  g[i] = IF i = 0 THEN RemoveTables(s) ELSE SetKey(g[i - 1], Managed[i][1], Managed[i][2], gen)
    <3>1. i \in 0..n => f[i] = IF i = 0 THEN RemoveTables(s) ELSE next(i)
      BY <2>1 DEF Steps
    <3>2. i # 0 => i - 1 \in 0..n /\ i - 1 \in 0..(n + 1)
      OBVIOUS
    <3>3. i # 0 => g[i - 1] = f[i - 1]
      BY <3>2
    <3>4. g[i] = IF i = 0 THEN RemoveTables(s) ELSE next(i)
      BY <3>1
    <3> QED  BY <3>3, <3>4
  <2>3. g = [i \in 0..(n + 1) |-> g[i]]
    OBVIOUS
  <2> HIDE DEF g
  <2>4. g = [i \in 0..(n + 1) |-> IF i = 0 THEN RemoveTables(s) ELSE SetKey(g[i - 1], Managed[i][1], Managed[i][2], gen)]
    BY <2>2, <2>3
  <2>5. Steps(g, n + 1, s, gen)
    BY <2>4 DEF Steps
  <2>6. n + 1 \in 0..N
    BY <1>2
  <2> QED  BY <2>5, <2>6
<1>3. N \in S
  <2> HIDE DEF S
  <2> QED  BY <1>1, <1>2, Climbs
<1> QED  BY <1>3

LEMMA SetAllIs ==
  ASSUME NEW s, NEW gen, Len(Managed) \in Nat
  PROVE  \E f : Steps(f, Len(Managed), s, gen) /\ SetAll(s, gen) = f[Len(Managed)]
<1> DEFINE after[n \in 0..Len(Managed)] ==
      IF n = 0 THEN RemoveTables(s) ELSE SetKey(after[n - 1], Managed[n][1], Managed[n][2], gen)
<1>1. SetAll(s, gen) = after[Len(Managed)]
  BY DEF SetAll
<1>2. \E f : f = [n \in 0..Len(Managed) |->
        IF n = 0 THEN RemoveTables(s) ELSE SetKey(f[n - 1], Managed[n][1], Managed[n][2], gen)]
  <2>1. \E f : Steps(f, Len(Managed), s, gen)
    BY StepsThere
  <2> QED  BY <2>1 DEF Steps
<1>3. after = [n \in 0..Len(Managed) |->
        IF n = 0 THEN RemoveTables(s) ELSE SetKey(after[n - 1], Managed[n][1], Managed[n][2], gen)]
  BY <1>2
<1> HIDE DEF after
<1>4. Steps(after, Len(Managed), s, gen)
  BY <1>3 DEF Steps
<1> QED  BY <1>1, <1>4

LEMMA ManagedIs ==
  ASSUME ManagedAssumption
  PROVE  /\ Len(Managed) \in Nat
         /\ \A n \in 1..Len(Managed) :
              /\ Managed[n] \in Range(Managed) /\ Managed[n] = <<Managed[n][1], Managed[n][2]>>
              /\ Managed[n][1] \in Seq(STRING) /\ Managed[n][2] \in STRING /\ ~IsRetired(Managed[n][1])
         /\ \A k \in Range(Managed) : \E n \in 1..Len(Managed) : k = Managed[n]
<1>1. Managed \in Seq(Seq(STRING) \X STRING) /\ \A m \in Range(Managed) : ~IsRetired(m[1])
  BY DEF ManagedAssumption
<1>2. PICK N \in Nat : N = Len(Managed) /\ DOMAIN Managed = 1..N
  BY <1>1, LenProperties
<1>3. \A n \in 1..N : Managed[n] \in Seq(STRING) \X STRING
  BY <1>1, <1>2
<1>4. \A n \in 1..N : Managed[n] \in Range(Managed)
  BY <1>2 DEF Range
<1>5. \A k \in Range(Managed) : \E n \in 1..N : k = Managed[n]
  BY <1>2 DEF Range
<1> QED  BY <1>1, <1>2, <1>3, <1>4, <1>5

(* After n of them: what they set is there, the rest is as it was.         *)
SetTo(n, gen) == NewEntry(Managed[n][1], Managed[n][2], gen)
Sooner(s, t, n, gen) ==
  /\ t \in Seq(TomlLine)
  /\ \A x \in Names(t) : ~IsRetired(x)
  /\ \A j \in 1..n : Holds(t, Managed[j][1], Managed[j][2], gen)
  /\ Good(s) => Broken(t) \/
       /\ Good(t)
       /\ \A j \in 1..n : SetTo(j, gen) \in Entries(t)
       /\ \A r : (\A j \in 1..n : r[1] # Managed[j]) =>
            (r \in Entries(t) <=> r \in Entries(s) /\ ~IsRetired(r[1][1]))

LEMMA OneMore ==
  ASSUME ManagedAssumption, NEW s \in Seq(TomlLine), NEW gen \in Generation, NEW n \in Nat,
         n + 1 \in 1..Len(Managed), NEW t, Sooner(s, t, n, gen),
         NEW u, u = SetKey(t, Managed[n + 1][1], Managed[n + 1][2], gen)
  PROVE  Sooner(s, u, n + 1, gen)
<1>1. PICK m \in 1..Len(Managed) : m = n + 1
  OBVIOUS
<1>2. /\ Managed[m] = <<Managed[m][1], Managed[m][2]>> /\ Managed[m] \in Range(Managed)
      /\ Managed[m][1] \in Seq(STRING) /\ Managed[m][2] \in STRING /\ ~IsRetired(Managed[m][1])
  BY ManagedIs
<1>3. t \in Seq(TomlLine)
  BY DEF Sooner
<1>4. Sets(t, Managed[m][1], Managed[m][2], gen, u)
  BY <1>1, <1>2 DEF Sets
<1>5. /\ u \in Seq(TomlLine) /\ Names(u) \subseteq Names(t) \cup {Managed[m][1]}
      /\ Holds(u, Managed[m][1], Managed[m][2], gen)
      /\ \A other, k : <<other, k>> # <<Managed[m][1], Managed[m][2]>> /\ Holds(t, other, k, gen) => Holds(u, other, k, gen)
      /\ Broken(t) => Broken(u)
      /\ Good(t) /\ <<Managed[m][1], Managed[m][2]>> \in Range(Managed) =>
           \/ Broken(u)
           \/ /\ Good(u) /\ NewEntry(Managed[m][1], Managed[m][2], gen) \in Entries(u)
              /\ \A r : r[1] # <<Managed[m][1], Managed[m][2]>> => (r \in Entries(u) <=> r \in Entries(t))
  BY <1>3, <1>4, KeySet
<1>7. \A x \in Names(u) : ~IsRetired(x)
  BY <1>2, <1>5 DEF Sooner
<1>9. \A j \in 1..(n + 1) : j \in 1..n \/ j = m
  BY <1>1
<1>j. ASSUME NEW j \in 1..n
      PROVE  Managed[j] = <<Managed[j][1], Managed[j][2]>>
  <2>1. j \in 1..Len(Managed)
    BY <1>1, ManagedIs
  <2> QED  BY <2>1, ManagedIs
<1>10. ASSUME NEW j \in 1..n  PROVE Holds(u, Managed[j][1], Managed[j][2], gen)
  <2>1. CASE Managed[j] = Managed[m]
    BY <1>5, <2>1
  <2>2. CASE Managed[j] # Managed[m]
    <3>1. <<Managed[j][1], Managed[j][2]>> # <<Managed[m][1], Managed[m][2]>>
      BY <1>2, <1>j, <2>2
    <3>2. Holds(t, Managed[j][1], Managed[j][2], gen)
      BY DEF Sooner
    <3> QED  BY <1>5, <3>1, <3>2
  <2> QED  BY <2>1, <2>2
<1>11. ASSUME Good(s), ~Broken(u)
       PROVE  /\ Good(u)
              /\ \A j \in 1..(n + 1) : SetTo(j, gen) \in Entries(u)
              /\ \A r : (\A j \in 1..(n + 1) : r[1] # Managed[j]) =>
                   (r \in Entries(u) <=> r \in Entries(s) /\ ~IsRetired(r[1][1]))
  <2>1. /\ Good(t)
        /\ \A j \in 1..n : SetTo(j, gen) \in Entries(t)
        /\ \A r : (\A j \in 1..n : r[1] # Managed[j]) =>
             (r \in Entries(t) <=> r \in Entries(s) /\ ~IsRetired(r[1][1]))
    BY <1>5, <1>11 DEF Sooner
  <2>2. Good(u) /\ SetTo(m, gen) \in Entries(u)
    BY <1>2, <1>5, <1>11, <2>1 DEF SetTo
  <2>3. \A r : r[1] # Managed[m] => (r \in Entries(u) <=> r \in Entries(t))
    BY <1>2, <1>5, <1>11, <2>1
  <2>4. ASSUME NEW j \in 1..n  PROVE SetTo(j, gen) \in Entries(u)
    <3>1. CASE Managed[j] = Managed[m]
      <4>1. SetTo(j, gen) = SetTo(m, gen)
        BY <3>1 DEF SetTo
      <4> QED  BY <2>2, <4>1
    <3>2. CASE Managed[j] # Managed[m]
      <4>1. SetTo(j, gen)[1] = Managed[j]
        BY <1>j DEF SetTo, NewEntry
      <4> QED  BY <2>1, <2>3, <3>2, <4>1
    <3> QED  BY <3>1, <3>2
  <2>5. ASSUME NEW r, \A j \in 1..(n + 1) : r[1] # Managed[j]
        PROVE  r \in Entries(u) <=> r \in Entries(s) /\ ~IsRetired(r[1][1])
    <3>1. r[1] # Managed[m] /\ \A j \in 1..n : r[1] # Managed[j]
      <4>1. m \in 1..(n + 1) /\ \A j \in 1..n : j \in 1..(n + 1)
        BY <1>1
      <4> QED  BY <2>5, <4>1
    <3> QED  BY <2>1, <2>3, <3>1
  <2> QED  BY <1>9, <2>2, <2>4, <2>5
<1> QED  BY <1>5, <1>7, <1>9, <1>10, <1>11 DEF Sooner

LEMMA AllSet ==
  ASSUME ManagedAssumption, NEW s \in Seq(TomlLine), NEW gen \in Generation
  PROVE  Sooner(s, SetAll(s, gen), Len(Managed), gen)
<1>1. PICK N \in Nat : N = Len(Managed)
  BY ManagedIs
<1>2. PICK f : Steps(f, N, s, gen) /\ SetAll(s, gen) = f[N]
  BY <1>1, SetAllIs
<1>3. \A n \in 0..N : f[n] = IF n = 0 THEN RemoveTables(s) ELSE SetKey(f[n - 1], Managed[n][1], Managed[n][2], gen)
  BY <1>2 DEF Steps
<1> DEFINE S == {n \in 0..N : Sooner(s, f[n], n, gen)}
<1>4. 0 \in S
  <2>1. f[0] = RemoveTables(s)
    BY <1>3
  <2>2. /\ f[0] \in Seq(TomlLine)
        /\ Good(s) => Good(f[0]) /\ \A r : r \in Entries(f[0]) <=> r \in Entries(s) /\ ~IsRetired(r[1][1])
        /\ \A x \in Names(f[0]) : ~IsRetired(x)
    BY <2>1, TablesRemoved
  <2> QED  BY <2>2 DEF Sooner
<1>5. ASSUME NEW n \in 0..N, n \in S, n < N  PROVE n + 1 \in S
  <2>1. n + 1 \in 0..N /\ n + 1 \in 1..Len(Managed) /\ n + 1 - 1 = n /\ n + 1 # 0 /\ n \in Nat
    BY <1>1, <1>5
  <2>2. f[n + 1] = SetKey(f[n], Managed[n + 1][1], Managed[n + 1][2], gen)
    BY <1>3, <2>1
  <2>3. Sooner(s, f[n + 1], n + 1, gen)
    BY <1>5, <2>1, <2>2, OneMore
  <2> QED  BY <2>1, <2>3
<1>6. N \in S
  <2> HIDE DEF S
  <2>1. \A n \in 0..N : n \in S /\ n < N => n + 1 \in S
    BY <1>5
  <2>2. 0..N \subseteq S
    BY <1>4, <2>1, Climbs
  <2> QED  BY <2>2
<1> QED  BY <1>1, <1>2, <1>6

LEMMA NoneRetired ==
  ASSUME NEW m \in Seq(TomlLine), \A x \in Names(m) : ~IsRetired(x)
  PROVE  RemoveTables(m) = m
<1>1. ASSUME NEW i \in DOMAIN m, HeaderOf(m, i) # 0  PROVE ~IsRetired(TableOf(m, i))
  <2>1. HeaderOf(m, i) \in Headers(m) /\ TableOf(m, i) = m[HeaderOf(m, i)].of
    BY <1>1, HeaderIs DEF LastUpTo
  <2> QED  BY <2>1 DEF Names
<1>2. {i \in DOMAIN m : HeaderOf(m, i) = 0 \/ ~IsRetired(TableOf(m, i))} = DOMAIN m
  BY <1>1
<1> QED  BY <1>2, SublistAll DEF RemoveTables

LEMMA AllSame ==
  ASSUME ManagedAssumption, NEW m \in Seq(TomlLine), NEW gen \in Generation,
         \A x \in Names(m) : ~IsRetired(x),
         \A j \in 1..Len(Managed) : Holds(m, Managed[j][1], Managed[j][2], gen)
  PROVE  SetAll(m, gen) = m
<1>1. PICK N \in Nat : N = Len(Managed)
  BY ManagedIs
<1>2. PICK f : Steps(f, N, m, gen) /\ SetAll(m, gen) = f[N]
  BY <1>1, SetAllIs
<1>3. \A n \in 0..N : f[n] = IF n = 0 THEN RemoveTables(m) ELSE SetKey(f[n - 1], Managed[n][1], Managed[n][2], gen)
  BY <1>2 DEF Steps
<1> DEFINE S == {n \in 0..N : f[n] = m}
<1>4. 0 \in S
  <2>1. RemoveTables(m) = m
    BY NoneRetired
  <2>2. f[0] = RemoveTables(m)
    BY <1>3
  <2> QED  BY <2>1, <2>2
<1>5. ASSUME NEW n \in 0..N, n \in S, n < N  PROVE n + 1 \in S
  <2>1. n + 1 \in 0..N /\ n + 1 \in 1..N /\ n + 1 - 1 = n /\ n + 1 # 0 /\ n \in Nat
    BY <1>5
  <2>2. f[n + 1] = SetKey(m, Managed[n + 1][1], Managed[n + 1][2], gen)
    BY <1>3, <1>5, <2>1
  <2>3. PICK j \in 1..N : j = n + 1
    BY <2>1
  <2>4. Holds(m, Managed[j][1], Managed[j][2], gen) /\ Managed[j][1] \in Seq(STRING) /\ Managed[j][2] \in STRING
    BY <1>1, ManagedIs
  <2>5. SetKey(m, Managed[j][1], Managed[j][2], gen) = m
    BY <2>4, HoldsSame
  <2> QED  BY <2>1, <2>2, <2>3, <2>5
<1>6. N \in S
  <2> HIDE DEF S
  <2>1. \A n \in 0..N : n \in S /\ n < N => n + 1 \in S
    BY <1>5
  <2>2. 0..N \subseteq S
    BY <1>4, <2>1, Climbs
  <2> QED  BY <2>2
<1> QED  BY <1>2, <1>6

(* What the lines say, as tomllib reads them.                              *)
LEMMA PlainReads ==
  ASSUME NEW s, Plain(s)
  PROVE  \A i : RealTable(s, i) = TableOf(s, i)
<1>1. RealHeaders(s) = Headers(s)
  BY DEF RealHeaders, Headers, Plain
<1>2. \A i : Max({0} \cup {x \in RealHeaders(s) : x <= i}) = HeaderOf(s, i)
  BY <1>1 DEF HeaderOf
<1> QED  BY <1>2 DEF RealTable, TableOf

LEMMA ValuesAre ==
  ASSUME NEW s, Valid(s), Plain(s)
  PROVE  /\ DOMAIN Values(s) = {r[1] : r \in Entries(s)}
         /\ \A r \in Entries(s) : Values(s)[r[1]] = r[2]
         /\ Values(s) = [k \in DOMAIN Values(s) |-> Values(s)[k]]
<1> DEFINE name(i) == <<RealTable(s, i), s[i].of>>
           line(k) == CHOOSE n \in RealKeys(s) : name(n) = k
           value(k) == <<s[line(k)].val, Below(s, line(k))>>
           D == {name(i) : i \in RealKeys(s)}
<1>0. Values(s) = [k \in D |-> value(k)]
  BY DEF Values
<1>1. \A i \in RealKeys(s) : Entry(s, i)[1] = name(i) /\ Entry(s, i)[2] = <<s[i].val, Below(s, i)>>
  BY PlainReads DEF Entry
<1>2. \A i, j \in RealKeys(s) : name(i) = name(j) => i = j
  BY DEF Valid
<1>3. \A i \in RealKeys(s) : line(name(i)) = i
  <2> SUFFICES ASSUME NEW i \in RealKeys(s)  PROVE line(name(i)) = i
    OBVIOUS
  <2> HIDE DEF name
  <2>1. \A n \in RealKeys(s) : name(n) = name(i) <=> n = i
    BY <1>2
  <2> QED  BY <2>1
<1>4. DOMAIN Values(s) = D /\ \A k \in D : Values(s)[k] = value(k)
  <2> HIDE DEF D, value
  <2> QED  BY <1>0
<1> HIDE DEF name, line
<1>5. ASSUME NEW r \in Entries(s)  PROVE r[1] \in D /\ Values(s)[r[1]] = r[2]
  <2>1. PICK i \in RealKeys(s) : r = Entry(s, i)
    BY DEF Entries
  <2>2. r[1] = name(i) /\ r[2] = <<s[i].val, Below(s, i)>> /\ name(i) \in D
    BY <1>1, <2>1
  <2>3. value(name(i)) = <<s[i].val, Below(s, i)>>
    BY <1>3
  <2> QED  BY <1>4, <2>2, <2>3
<1>6. ASSUME NEW k \in D  PROVE \E r \in Entries(s) : k = r[1]
  <2>1. PICK i \in RealKeys(s) : k = name(i)
    OBVIOUS
  <2>2. Entry(s, i) \in Entries(s) /\ Entry(s, i)[1] = k
    BY <1>1, <2>1 DEF Entries
  <2> QED  BY <2>2
<1>7. Values(s) = [k \in DOMAIN Values(s) |-> Values(s)[k]]
  <2> HIDE DEF D, value
  <2> QED  BY <1>0
<1> HIDE DEF D, value
<1> QED  BY <1>4, <1>5, <1>6, <1>7

(* The merge leaves a file that parses, and a second one finds nothing to  *)
(* write.  It means what it should, where it reads what tomllib reads.     *)
TomlMerged(found, m, gen) ==
  LET before == Values(found)
      retired(name) == \E s \in Range(Retired) : IsPrefix(s, name)
      others == {k \in DOMAIN before : ~retired(k[1])} \ Range(Managed)
  IN  Values(m) = [k \in others \cup Range(Managed) |->
           IF k \in Range(Managed) THEN <<ManagedValue(k[2], gen), <<>>>> ELSE before[k]]

LEMMA SettingsMerged ==
  ASSUME ManagedAssumption, NEW s \in Seq(TomlLine), NEW gen \in Generation,
         NEW m, m = MergeSettings(s, gen), m # Refused
  PROVE  /\ m \in Seq(TomlLine) /\ Valid(m) /\ MergeSettings(m, gen) \in {m, Refused}
         /\ Plain(s) => TomlMerged(s, m, gen) /\ MergeSettings(m, gen) = m
<1>1. Valid(s) /\ Valid(m) /\ m = SetAll(s, gen)
  BY DEF MergeSettings
<1>2. Sooner(s, m, Len(Managed), gen)
  BY <1>1, AllSet
<1>3. PICK N \in Nat : N = Len(Managed)
  BY ManagedIs
<1>4. /\ m \in Seq(TomlLine)
      /\ \A x \in Names(m) : ~IsRetired(x)
      /\ \A j \in 1..N : Holds(m, Managed[j][1], Managed[j][2], gen)
  BY <1>2, <1>3 DEF Sooner
<1>5. SetAll(m, gen) = m
  BY <1>3, <1>4, AllSame
<1>s. MergeSettings(m, gen) = IF Unrelated(m) THEN Refused ELSE m
  BY <1>1, <1>5 DEF MergeSettings
<1>p. ASSUME Plain(s)  PROVE TomlMerged(s, m, gen) /\ MergeSettings(m, gen) = m
  <2>g. Good(s)
    <3>1. Len(s) \in 0..Len(s)
      BY LenProperties
    <3> QED  BY <1>1, <1>p, <3>1 DEF Good, Going, Valid
  <2>e. /\ Good(m)
        /\ \A j \in 1..N : SetTo(j, gen) \in Entries(m)
        /\ \A r : (\A j \in 1..N : r[1] # Managed[j]) =>
             (r \in Entries(m) <=> r \in Entries(s) /\ ~IsRetired(r[1][1]))
    <3>1. ~Broken(m)
      BY <1>1, <1>4, BrokenFails
    <3> QED  BY <1>2, <1>3, <2>g, <3>1 DEF Sooner
  <2>p. Valid(m) /\ Plain(m) /\ Valid(s) /\ Plain(s)
    BY <1>1, <1>p, <2>e DEF Good
  <2>m. ASSUME NEW k \in Range(Managed)
        PROVE  k \in DOMAIN Values(m) /\ Values(m)[k] = <<ManagedValue(k[2], gen), <<>>>>
    <3>1. PICK n \in 1..N : k = Managed[n]
      BY <1>3, ManagedIs
    <3>2. PICK r : r = SetTo(n, gen)
      OBVIOUS
    <3>3. r \in Entries(m)
      BY <2>e, <3>2
    <3>4. r[1] = k /\ r[2] = <<ManagedValue(k[2], gen), <<>>>>
      BY <1>3, <3>1, <3>2, ManagedIs DEF SetTo, NewEntry
    <3>5. r[1] \in {q[1] : q \in Entries(m)}
      BY <3>3
    <3> QED  BY <2>p, <3>3, <3>4, <3>5, ValuesAre
  <2>6. ~Unrelated(m)
    <3> SUFFICES ASSUME Unrelated(m)  PROVE FALSE
      OBVIOUS
    <3> DEFINE notify == <<<<>>, NotifyKey>>
    <3>1. notify \in Range(Managed) /\ Values(m)[notify][1] \notin {ManagedValue(NotifyKey, g) : g \in Generation}
      BY DEF Unrelated
    <3>2. Values(m)[notify] = <<ManagedValue(NotifyKey, gen), <<>>>>
      BY <2>m, <3>1
    <3> QED  BY <3>1, <3>2
  <2> DEFINE before == Values(s)
             retired(name) == \E q \in Range(Retired) : IsPrefix(q, name)
             others == {k \in DOMAIN before : ~retired(k[1])} \ Range(Managed)
             value(k) == IF k \in Range(Managed) THEN <<ManagedValue(k[2], gen), <<>>>> ELSE before[k]
  <2>8. \A x : retired(x) <=> IsRetired(x)
    BY DEF IsRetired
  <2>9. ASSUME NEW r, r[1] \notin Range(Managed)
        PROVE  r \in Entries(m) <=> r \in Entries(s) /\ ~IsRetired(r[1][1])
    <3>1. \A j \in 1..N : r[1] # Managed[j]
      BY <1>3, <2>9, ManagedIs
    <3> QED  BY <2>e, <3>1
  <2>10. ASSUME NEW k, k \notin Range(Managed), k \in DOMAIN Values(m)
         PROVE  k \in others /\ Values(m)[k] = before[k]
    <3>0. k \in {r[1] : r \in Entries(m)}
      <4>1. DOMAIN Values(m) = {r[1] : r \in Entries(m)}
        BY <2>p, ValuesAre
      <4> QED  BY <2>10, <4>1
    <3>1. PICK r \in Entries(m) : k = r[1]
      BY <3>0
    <3>2. r \in Entries(s) /\ ~IsRetired(k[1])
      BY <2>9, <2>10, <3>1
    <3>3. k \in DOMAIN before
      <4>1. DOMAIN before = {q[1] : q \in Entries(s)}
        BY <2>p, ValuesAre
      <4> QED  BY <3>1, <3>2, <4>1
    <3>4. Values(m)[k] = r[2] /\ before[k] = r[2]
      BY <2>p, <3>1, <3>2, ValuesAre
    <3> QED  BY <2>8, <2>10, <3>2, <3>3, <3>4
  <2>11. ASSUME NEW k \in others  PROVE k \in DOMAIN Values(m)
    <3>1. k \in DOMAIN before /\ ~IsRetired(k[1]) /\ k \notin Range(Managed)
      BY <2>8
    <3>2. PICK r \in Entries(s) : k = r[1]
      <4>1. DOMAIN before = {r[1] : r \in Entries(s)}
        BY <2>p, ValuesAre
      <4> QED  BY <3>1, <4>1
    <3>3. r \in Entries(m)
      BY <2>9, <3>1, <3>2
    <3>4. DOMAIN Values(m) = {q[1] : q \in Entries(m)}
      BY <2>p, ValuesAre
    <3> QED  BY <3>2, <3>3, <3>4
  <2> HIDE DEF others, before
  <2>12. DOMAIN Values(m) = others \cup Range(Managed)
    BY <2>m, <2>10, <2>11
  <2>13. \A k \in DOMAIN Values(m) : Values(m)[k] = value(k)
    BY <2>m, <2>10
  <2>14. Values(m) = [k \in DOMAIN Values(m) |-> Values(m)[k]]
    BY <2>p, ValuesAre
  <2>15. Values(m) = [k \in others \cup Range(Managed) |-> value(k)]
    <3> HIDE DEF value
    <3> QED  BY <2>12, <2>13, <2>14
  <2>16. TomlMerged(s, m, gen)
    BY <2>15 DEF TomlMerged, others, before
  <2> QED  BY <1>s, <2>6, <2>16
<1> QED  BY <1>1, <1>4, <1>s, <1>p
-----------------------------------------------------------------------------
(* What a step does to the activation that takes it, and to the file.      *)

Quiet == file' = file /\ onDisk' = onDisk /\ kept' = kept
Goes(a, from, to) ==
  /\ act[a].pc \in from /\ act'[a].pc \in to /\ act'[a].job = act[a].job
  /\ act'[a].found = act[a].found /\ act'[a].alone = act[a].alone /\ act'[a].orphan = act[a].orphan
Carries(a) == act'[a].original = act[a].original /\ act'[a].merged = act[a].merged
Proceeds(a) ==
  /\ act'[a].found = act[a].found /\ act'[a].alone = act[a].alone /\ act'[a].orphan = FALSE
  /\ IF act[a].job = Len(jobs) THEN act'[a].pc = "done"
     ELSE act'[a].pc = "next" /\ act'[a].job = act[a].job + 1

Begins(a) ==
  Quiet /\ act'[a].pc = "next" /\ act'[a].job = 1 /\ act'[a].found = file /\ act'[a].orphan = FALSE
GivesUp(a) == Quiet /\ act'[a].pc = "failed" /\ act'[a].alone = FALSE
Locks(a) == Quiet /\ Goes(a, {"next"}, {"locked"})
FindsRight(a) ==
  /\ Quiet /\ act[a].pc \in {"next", "locked"} /\ Proceeds(a)
  /\ Merge(Job(a), a, file) = file /\ file # Refused
FindsWork(a) ==
  /\ Quiet /\ Goes(a, {"next", "locked"}, {"write", "truncate"})
  /\ act'[a].original = file /\ act'[a].merged = Merge(Job(a), a, file) /\ act'[a].merged # Refused
  /\ act'[a].pc = "truncate" => Job(a) = Retirement
Writes(a) == Quiet /\ Goes(a, {"write"}, {"compare"}) /\ Carries(a)
Compares(a) == Quiet /\ Goes(a, {"compare"}, {"replace"}) /\ Carries(a) /\ file = act[a].original
Renames(a) ==
  /\ Goes(a, {"replace"}, {"sync"}) /\ file' = act[a].merged /\ onDisk' = onDisk /\ kept' = kept
Syncs(a) == act[a].pc = "sync" /\ Proceeds(a) /\ file' = file /\ onDisk' = {file} /\ kept' = kept
Empties(a) ==
  /\ Goes(a, {"truncate"}, {"rewrite"}) /\ Carries(a)
  /\ file' = <<>> /\ onDisk' = onDisk \cup {<<>>} /\ kept' = {}
Refills(a) ==
  /\ act[a].pc = "rewrite" /\ Proceeds(a) /\ kept' = kept
  /\ \/ act[a].orphan /\ file' = file /\ onDisk' = onDisk
     \/ ~act[a].orphan /\ file' = act[a].merged /\ onDisk' = onDisk \cup {file'}
Moves(a) ==
  \/ Begins(a) \/ GivesUp(a) \/ Locks(a) \/ FindsRight(a) \/ FindsWork(a) \/ Writes(a)
  \/ Compares(a) \/ Renames(a) \/ Syncs(a) \/ Empties(a) \/ Refills(a)

(* Where a job that ends leaves its activation. *)
LEMMA NextJobIs ==
  ASSUME NEW r, DOMAIN r = Fields, jobs \in Seq(STRING), r.job \in DOMAIN jobs, NEW s, s = NextJob(r)
  PROVE  /\ s.found = r.found /\ s.alone = r.alone /\ s.orphan = FALSE
         /\ IF r.job = Len(jobs) THEN s.pc = "done" ELSE s.pc = "next" /\ s.job = r.job + 1
<1>1. PICK t : t = Through(r)
  OBVIOUS
<1>2. /\ DOMAIN t = Fields /\ t.found = r.found /\ t.alone = r.alone /\ t.orphan = FALSE
      /\ t.job = r.job /\ t.pc = "done"
  BY <1>1 DEF Through, Fresh, Fields
<1>3. CASE r.job = Len(jobs)
  BY <1>1, <1>2, <1>3 DEF NextJob
<1>4. CASE r.job # Len(jobs)
  <2>1. s = [t EXCEPT !.pc = "next", !.job = @ + 1]
    BY <1>1, <1>4 DEF NextJob
  <2> QED  BY <1>2, <1>4, <2>1 DEF Fields
<1> QED  BY <1>3, <1>4

LEMMA FailsIs ==
  ASSUME NEW r, NEW s, s = Fails(r)
  PROVE  s.pc = "failed" /\ s.alone = FALSE
BY DEF Fails, Fresh

(* An activation that only gets to another place.                          *)
LEMMA OtherPlace ==
  ASSUME NEW r, DOMAIN r = Fields, NEW p, NEW s, s = [r EXCEPT !.pc = p]
  PROVE  /\ s.pc = p /\ s.job = r.job /\ s.found = r.found /\ s.alone = r.alone
         /\ s.orphan = r.orphan /\ s.original = r.original /\ s.merged = r.merged
BY DEF Fields

LEMMA StepMoves ==
  ASSUME FileForm, NEW a \in Activation, Start(a) \/ ActivationStep(a) \/ Kill(a)
  PROVE  Moves(a)
<1>0. /\ DOMAIN act[a] = Fields /\ act[a].job \in DOMAIN jobs /\ jobs \in Seq(STRING) /\ jobs # <<>>
      /\ act = [c \in Activation |-> act[c]]
  BY FormAt
<1>1. CASE Start(a)
  <2>1. PICK alone : act'[a] = [Fresh(file) EXCEPT !.pc = "next", !.alone = alone]
    BY <1>0, <1>1 DEF Start
  <2>2. act'[a].pc = "next" /\ act'[a].job = 1 /\ act'[a].found = file /\ act'[a].orphan = FALSE
    BY <2>1 DEF Fresh
  <2> QED  BY <1>1, <2>2 DEF Start, Quiet, Begins, Moves
<1>2. CASE TakeLock(a)
  <2>1. act'[a] = [act[a] EXCEPT !.pc = "locked"]
    BY <1>0, <1>2 DEF TakeLock
  <2>2. Goes(a, {"next"}, {"locked"})
    <3>1. act[a].pc = "next"
      BY <1>2 DEF TakeLock
    <3> QED  BY <1>0, <2>1, <3>1, OtherPlace DEF Goes
  <2> QED  BY <1>2, <2>2 DEF TakeLock, Quiet, Locks, Moves
<1>3. CASE ReadAndMerge(a)
  <2>0. PICK merged, r :
          /\ merged = Merge(Job(a), a, file) /\ r = [act[a] EXCEPT !.original = file, !.merged = merged]
          /\ IF merged \in {Refused, file}
             THEN act' = [act EXCEPT ![a] = IF merged = Refused THEN Fails(r) ELSE NextJob(r)]
             ELSE act' = [act EXCEPT ![a] = [r EXCEPT !.pc = "write"]]
    BY <1>3 DEF ReadAndMerge
  <2>1. /\ DOMAIN r = Fields /\ r.job = act[a].job /\ r.found = act[a].found /\ r.alone = act[a].alone
        /\ r.orphan = act[a].orphan /\ r.original = file /\ r.merged = merged
    BY <1>0, <2>0 DEF Fields
  <2>2. Quiet /\ act[a].pc = "locked"
    BY <1>3 DEF ReadAndMerge, Quiet
  <2>3. CASE merged = Refused
    <3>1. act'[a] = Fails(r)
      BY <1>0, <2>0, <2>3
    <3> QED  BY <2>2, <3>1, FailsIs DEF GivesUp, Moves
  <2>4. CASE merged # Refused /\ merged = file
    <3>1. act'[a] = NextJob(r)
      BY <1>0, <2>0, <2>4
    <3>2. Proceeds(a)
      <4>1. r.job \in DOMAIN jobs
        BY <1>0, <2>1
      <4>2. /\ act'[a].found = r.found /\ act'[a].alone = r.alone /\ act'[a].orphan = FALSE
            /\ IF r.job = Len(jobs) THEN act'[a].pc = "done"
               ELSE act'[a].pc = "next" /\ act'[a].job = r.job + 1
        BY <1>0, <2>1, <3>1, <4>1, NextJobIs
      <4> QED  BY <2>1, <4>2 DEF Proceeds
    <3> QED  BY <2>0, <2>2, <2>4, <3>2 DEF FindsRight, Moves
  <2>5. CASE merged # Refused /\ merged # file
    <3>1. act'[a] = [r EXCEPT !.pc = "write"]
      BY <1>0, <2>0, <2>5
    <3>2. Goes(a, {"next", "locked"}, {"write", "truncate"}) /\ act'[a].original = file /\ act'[a].merged = merged
      BY <2>1, <2>2, <3>1 DEF Goes, Fields
    <3>3. act'[a].pc = "write"
      BY <2>1, <3>1
    <3> QED  BY <2>0, <2>2, <2>5, <3>2, <3>3 DEF FindsWork, Moves
  <2> QED  BY <2>3, <2>4, <2>5
<1>4. CASE WriteTemporary(a)
  <2>1. act'[a] = [act[a] EXCEPT !.pc = "compare", !.synced = Synced]
    BY <1>0, <1>4 DEF WriteTemporary
  <2>2. Goes(a, {"write"}, {"compare"}) /\ Carries(a)
    BY <1>0, <1>4, <2>1 DEF WriteTemporary, Goes, Carries, Fields
  <2> QED  BY <1>4, <2>2 DEF WriteTemporary, Quiet, Writes, Moves
<1>5. CASE Compare(a)
  <2>0. Quiet /\ act[a].pc = "compare"
    BY <1>5 DEF Compare, Quiet
  <2>1. CASE Unchanged(act[a])
    <3>1. act'[a] = [act[a] EXCEPT !.pc = "replace"]
      BY <1>0, <1>5, <2>1 DEF Compare
    <3>2. Goes(a, {"compare"}, {"replace"}) /\ Carries(a)
      BY <1>0, <2>0, <3>1, OtherPlace DEF Goes, Carries
    <3> QED  BY <2>0, <2>1, <3>2 DEF Unchanged, Compares, Moves
  <2>2. CASE ~Unchanged(act[a])
    <3>1. act'[a] = Fails(act[a])
      BY <1>0, <1>5, <2>2 DEF Compare
    <3> QED  BY <2>0, <3>1, FailsIs DEF GivesUp, Moves
  <2> QED  BY <2>1, <2>2
<1>6. CASE Replace(a)
  <2>1. act'[a] = [act[a] EXCEPT !.pc = "sync"]
    BY <1>6 DEF Replace, Others
  <2>2. Goes(a, {"replace"}, {"sync"})
    <3>1. act[a].pc = "replace"
      BY <1>6 DEF Replace
    <3> QED  BY <1>0, <2>1, <3>1, OtherPlace DEF Goes
  <2> QED  BY <1>6, <2>2 DEF Replace, Renames, Moves
<1>7. CASE SyncDirectory(a)
  <2>1. act'[a] = NextJob(act[a])
    BY <1>0, <1>7 DEF SyncDirectory
  <2>2. Proceeds(a)
    BY <1>0, <2>1, NextJobIs DEF Proceeds
  <2> QED  BY <1>7, <2>2 DEF SyncDirectory, Syncs, Moves
<1>8. CASE ReadInPlace(a)
  <2>0. PICK merged, r :
          /\ merged = Merge(Job(a), a, file) /\ r = [act[a] EXCEPT !.original = file, !.merged = merged]
          /\ act'[a] = IF merged = Refused THEN Fails(r)
                       ELSE IF merged = file THEN NextJob(r) ELSE [r EXCEPT !.pc = "truncate"]
    BY <1>0, <1>8 DEF ReadInPlace
  <2>1. /\ DOMAIN r = Fields /\ r.job = act[a].job /\ r.found = act[a].found /\ r.alone = act[a].alone
        /\ r.orphan = act[a].orphan /\ r.original = file /\ r.merged = merged
    BY <1>0, <2>0 DEF Fields
  <2>2. Quiet /\ act[a].pc = "next"
    BY <1>8 DEF ReadInPlace, Quiet
  <2>3. CASE merged = Refused
    <3>1. act'[a] = Fails(r)
      BY <2>0, <2>3
    <3> QED  BY <2>2, <3>1, FailsIs DEF GivesUp, Moves
  <2>4. CASE merged # Refused /\ merged = file
    <3>1. act'[a] = NextJob(r)
      BY <2>0, <2>4
    <3>2. Proceeds(a)
      <4>1. r.job \in DOMAIN jobs
        BY <1>0, <2>1
      <4>2. /\ act'[a].found = r.found /\ act'[a].alone = r.alone /\ act'[a].orphan = FALSE
            /\ IF r.job = Len(jobs) THEN act'[a].pc = "done"
               ELSE act'[a].pc = "next" /\ act'[a].job = r.job + 1
        BY <1>0, <2>1, <3>1, <4>1, NextJobIs
      <4> QED  BY <2>1, <4>2 DEF Proceeds
    <3> QED  BY <2>0, <2>2, <2>4, <3>2 DEF FindsRight, Moves
  <2>5. CASE merged # Refused /\ merged # file
    <3>1. act'[a] = [r EXCEPT !.pc = "truncate"]
      BY <2>0, <2>5
    <3>2. Goes(a, {"next", "locked"}, {"write", "truncate"}) /\ act'[a].original = file /\ act'[a].merged = merged
      BY <2>1, <2>2, <3>1 DEF Goes, Fields
    <3>3. Job(a) = Retirement
      BY <1>8 DEF ReadInPlace, InPlace
    <3> QED  BY <2>0, <2>2, <2>5, <3>2, <3>3 DEF FindsWork, Moves
  <2> QED  BY <2>3, <2>4, <2>5
<1>9. CASE Truncate(a)
  <2>1. act'[a] = [act[a] EXCEPT !.pc = "rewrite"]
    BY <1>9 DEF Truncate, Others
  <2>2. act[a].pc = "truncate"
    BY <1>9 DEF Truncate
  <2>3. Goes(a, {"truncate"}, {"rewrite"}) /\ Carries(a)
    BY <1>0, <2>1, <2>2, OtherPlace DEF Goes, Carries
  <2> QED  BY <1>9, <2>3 DEF Truncate, Empties, Moves
<1>10. CASE Rewrite(a)
  <2>1. act'[a] = NextJob(act[a])
    BY <1>10 DEF Rewrite, Others
  <2>2. Proceeds(a)
    BY <1>0, <2>1, NextJobIs DEF Proceeds
  <2> QED  BY <1>10, <2>2 DEF Rewrite, Refills, Moves
<1>11. CASE Kill(a)
  <2>1. act'[a] = Fails(act[a])
    BY <1>0, <1>11 DEF Kill
  <2> QED  BY <1>11, <2>1, FailsIs DEF Kill, Quiet, GivesUp, Moves
<1> QED  BY <1>1, <1>2, <1>3, <1>4, <1>5, <1>6, <1>7, <1>8, <1>9, <1>10, <1>11 DEF ActivationStep

(* Nobody else is alone any more once the file is another one, and the     *)
(* others go on with what they read and made.                              *)
LEMMA Beside ==
  ASSUME FileForm, NEW a \in Activation, Start(a) \/ ActivationStep(a) \/ Kill(a),
         NEW b \in Activation, b # a
  PROVE  /\ act'[b].pc = act[b].pc /\ act'[b].job = act[b].job
         /\ act'[b].original = act[b].original /\ act'[b].merged = act[b].merged
         /\ (act'[b] = act[b] /\ file' = file) \/ act'[b].alone = FALSE
<1>1. act = [c \in Activation |-> act[c]] /\ DOMAIN act[b] = Fields
  BY FormAt
<1>2. CASE Start(a) \/ TakeLock(a) \/ ReadAndMerge(a) \/ WriteTemporary(a) \/ Compare(a)
           \/ SyncDirectory(a) \/ ReadInPlace(a) \/ Kill(a)
  <2>1. act'[b] = act[b] /\ file' = file
    BY <1>1, <1>2 DEF Start, TakeLock, ReadAndMerge, WriteTemporary, Compare, SyncDirectory,
                      ReadInPlace, Kill
  <2> QED  BY <2>1
<1>3. CASE Replace(a) \/ Truncate(a) \/ Rewrite(a)
  <2>1. PICK replaced : act'[b] = Disturbed(act[b], replaced)
    BY <1>3 DEF Replace, Truncate, Rewrite, Others
  <2> QED  BY <1>1, <2>1 DEF Disturbed, Fields
<1> QED  BY <1>2, <1>3 DEF ActivationStep

(* A merge keeps the user's texts, and does one job more.                  *)
LEMMA MergeOfKeeps ==
  ASSUME NEW order \in Seq(STRING), NEW gen \in Generation, NEW j \in DOMAIN order,
         NEW c, NEW w, MergeOf(order, gen, j, c, w)
  PROVE  c \in Seq(Marks) /\ w \in Seq(Marks) /\ UserTexts(order, c) \subseteq UserTexts(order, w)
<1>1. order[j] \in STRING /\ order[j] \in Range(order)
  BY DEF Range
<1>2. c \in Seq(Marks) /\ w # Refused /\ w = MergeMarkdown(order[j], gen, c)
  BY DEF MergeOf
<1>3. w \in Seq(Marks) /\ \E new, g : MergeEdit(c, w, order[j], gen, new, g)
  BY <1>1, <1>2, MergeIsEdit
<1>4. c \notin {Symlink, Torn} /\ w \notin {Symlink, Torn}
  BY <1>2, <1>3, OtherContentsAssumption
<1>5. Range(Outside(c, Range(order))) \subseteq Range(Outside(w, Range(order)))
  BY <1>1, <1>2, <1>3, TextsKept
<1> QED  BY <1>2, <1>3, <1>4, <1>5 DEF UserTexts

LEMMA MergeOfDoes ==
  ASSUME NEW order \in Seq(STRING), NEW gen \in Generation, NEW j \in DOMAIN order,
         NEW c, NEW w, MergeOf(order, gen, j, c, w), NEW found, DoneBy(order, gen, found, c, j - 1)
  PROVE  DoneBy(order, gen, found, w, j)
<1>1. j - 1 \in Nat /\ j - 1 + 1 = j
  <2>1. DOMAIN order = 1..Len(order) /\ Len(order) \in Nat
    OBVIOUS
  <2> QED  BY <2>1
<1>2. PICK n \in Nat : n = j - 1 /\ n + 1 = j
  BY <1>1
<1>3. c \in Seq(Marks) /\ w # Refused /\ w = MergeMarkdown(order[n + 1], gen, c)
  BY <1>2 DEF MergeOf
<1>4. n + 1 \in DOMAIN order /\ DoneBy(order, gen, found, c, n)
  BY <1>2
<1> QED  BY <1>2, <1>3, <1>4, NextDone

(* What merge_file makes of a Markdown file is such a merge.               *)
LEMMA MergeIsOf ==
  ASSUME kind = "markdown", NEW a, NEW c \in Contents, NEW w, w = Merge(Job(a), a, c), w # Refused
  PROVE  MergeOf(jobs, a, act[a].job, c, w)
<1>1. c \notin {Symlink, Torn, Refused} /\ c \in Seq(Marks)
  BY DEF Merge, Contents
<1>2. w = MergeMarkdown(jobs[act[a].job], a, c)
  BY <1>1 DEF Merge, Job
<1> QED  BY <1>1, <1>2 DEF MergeOf

(* What becomes of the activations when the agent writes, or the power is  *)
(* cut.                                                                    *)
LEMMA AgentBeside ==
  ASSUME FileForm, NEW contents, AgentWrites(contents), NEW b \in Activation
  PROVE  /\ act'[b].pc = act[b].pc /\ act'[b].job = act[b].job
         /\ act'[b].original = act[b].original /\ act'[b].merged = act[b].merged
         /\ act'[b].alone = FALSE
<1>1. act'[b] = Disturbed(act[b], TRUE)
  BY ActivationAssumption DEF AgentWrites, Others
<1> QED  BY <1>1, FormAt DEF Disturbed, Fields

LEMMA CutBeside ==
  ASSUME FileForm, PowerCut, NEW b \in Activation
  PROVE  act'[b].pc \in {"off", "done", "failed"} /\ act'[b].alone = FALSE
<1>1. CASE act[b].pc \in {"off", "done"}
  <2>1. act'[b] = Disturbed(act[b], TRUE)
    BY <1>1 DEF PowerCut
  <2> QED  BY <1>1, <2>1, FormAt DEF Disturbed, Fields
<1>2. CASE act[b].pc \notin {"off", "done"}
  <2>1. act'[b] = Fails(act[b])
    BY <1>2 DEF PowerCut
  <2> QED  BY <2>1, FailsIs
<1> QED  BY <1>1, <1>2

LEMMA CutLeaves ==
  ASSUME DiskInv, PowerCut
  PROVE  file' \in onDisk \cup {file} /\ onDisk' = {file'} /\ kept' = kept
<1>1. ~\E a \in Activation : act[a].pc = "sync" /\ ~act[a].synced
  BY DEF DiskInv
<1> QED  BY <1>1 DEF PowerCut

(* What the agent turns a Markdown file into is one.                       *)
LEMMA EditsAreMarks ==
  ASSUME FileForm, kind = "markdown", file \in Contents, NEW contents \in Edits
  PROVE  contents \in Seq(Marks)
<1>1. file \in Seq(Marks)
  BY DEF Edits, Contents
<1>2. CASE contents = Append(file, Text(10 + left.writes))
  <2>1. left.writes \in Nat
    BY FormAt DEF FileForm
  <2>2. Text(10 + left.writes) \in Marks
    BY <2>1 DEF Text, Marks
  <2> QED  BY <1>1, <1>2, <2>2
<1>3. CASE contents = file \o file
  BY <1>1, <1>3
<1>4. ASSUME NEW i \in DOMAIN file, contents = RemoveAt(file, i)
      PROVE  contents \in Seq(Marks)
  <2>1. SubSeq(file, 1, i - 1) \in Seq(Marks) /\ SubSeq(file, i + 1, Len(file)) \in Seq(Marks)
    BY <1>1
  <2> QED  BY <1>4, <2>1 DEF RemoveAt
<1>5. \/ contents = Append(file, Text(10 + left.writes)) \/ contents = file \o file
      \/ \E i \in DOMAIN file : contents = RemoveAt(file, i)
  BY DEF Edits
<1> QED  BY <1>2, <1>3, <1>4, <1>5

(* Nothing changes what kind of file it is, or an activation's jobs.       *)
LEMMA KindStays ==
  ASSUME [FileNext]_fileVars
  PROVE  kind' = kind /\ jobs' = jobs
BY DEF fileVars, FileNext, ActivationStep, Start, TakeLock, ReadAndMerge, WriteTemporary, Compare, Replace,
       SyncDirectory, ReadInPlace, Truncate, Rewrite, Kill, AgentWrites, PowerCut
-----------------------------------------------------------------------------
(* A Markdown file stays one, and what a merge is about to write is what   *)
(* it made of what it read.                                                *)
LEMMA MarkKept ==
  ASSUME FileInv, MarkInv, [FileNext]_fileVars
  PROVE  MarkInv'
<1> SUFFICES ASSUME kind = "markdown", kind' = kind, jobs' = jobs  PROVE MarkInv'
  BY KindStays DEF MarkInv
<1>0. FileForm /\ DiskInv /\ file \in Contents /\ \A c \in onDisk : c \in Contents
  BY DEF FileInv, MarkInv
<1>a. \A a \in Activation : act[a].pc \in Making => MergeOf(jobs, a, act[a].job, act[a].original, act[a].merged)
  BY DEF MarkInv, Making
<1>b. jobs \in Seq(STRING) /\ Activation \subseteq Generation
  BY <1>0, ActivationAssumption DEF FileForm
<1>e. <<>> \in Contents
  BY DEF Contents
<1>1. CASE UNCHANGED fileVars
  BY <1>1 DEF fileVars, MarkInv
<1>2. ASSUME NEW a \in Activation, Start(a) \/ ActivationStep(a) \/ Kill(a)
      PROVE  MarkInv'
  <2>0. Moves(a) /\ act[a].job \in DOMAIN jobs
    BY <1>0, <1>2, StepMoves, FormAt
  <2>1. file' \in Contents /\ \A c \in onDisk' : c \in Contents
    <3>1. act[a].pc \in Making => act[a].merged \in Contents
      BY <1>a, <1>b, <2>0, MergeOfKeeps DEF Contents
    <3> HIDE DEF Contents
    <3> QED  BY <1>0, <1>e, <2>0, <3>1 DEF Moves, Begins, GivesUp, Locks, FindsRight, FindsWork, Writes, Compares,
               Renames, Syncs, Empties, Refills, Quiet, Goes, Making
  <2>2. act'[a].pc \in Making => MergeOf(jobs, a, act'[a].job, act'[a].original, act'[a].merged)
    <3>1. CASE FindsWork(a)
      BY <1>0, <3>1, MergeIsOf DEF FindsWork, Goes
    <3>2. CASE Writes(a) \/ Compares(a) \/ Empties(a)
      BY <1>a, <3>2 DEF Writes, Compares, Empties, Goes, Carries, Making
    <3>3. CASE Begins(a) \/ GivesUp(a) \/ Locks(a) \/ FindsRight(a) \/ Renames(a) \/ Syncs(a) \/ Refills(a)
      <4>1. act'[a].pc \notin Making
        BY <3>3 DEF Begins, GivesUp, Locks, FindsRight, Renames, Syncs, Refills, Goes, Proceeds, Making
      <4> QED  BY <4>1
    <3> QED  BY <2>0, <3>1, <3>2, <3>3 DEF Moves
  <2>3. ASSUME NEW b \in Activation, b # a, act'[b].pc \in Making
        PROVE  MergeOf(jobs, b, act'[b].job, act'[b].original, act'[b].merged)
    BY <1>0, <1>2, <1>a, <2>3, Beside
  <2> QED  BY <2>1, <2>2, <2>3 DEF MarkInv, Making
<1>3. ASSUME NEW contents \in Edits, AgentWrites(contents)
      PROVE  MarkInv'
  <2>1. contents \in Contents /\ file' = contents /\ onDisk' = {contents}
    BY <1>0, <1>3, EditsAreMarks DEF AgentWrites, Contents
  <2>2. ASSUME NEW b \in Activation, act'[b].pc \in Making
        PROVE  MergeOf(jobs, b, act'[b].job, act'[b].original, act'[b].merged)
    BY <1>0, <1>3, <1>a, <2>2, AgentBeside
  <2> QED  BY <2>1, <2>2 DEF MarkInv, Making
<1>4. CASE PowerCut
  <2>1. file' \in Contents /\ onDisk' = {file'}
    BY <1>0, <1>4, CutLeaves
  <2>2. \A b \in Activation : act'[b].pc \notin Making
    BY <1>0, <1>4, CutBeside DEF Making
  <2> QED  BY <2>1, <2>2 DEF MarkInv, Making
<1> QED  BY <1>1, <1>2, <1>3, <1>4 DEF FileNext

(* The user's texts are in the file and in all a power cut may leave, and  *)
(* in what is about to be renamed.                                         *)
LEMMA KeptKept ==
  ASSUME FileInv, MarkInv, KeptInv, [FileNext]_fileVars
  PROVE  KeptInv'
<1>0. FileForm /\ DiskInv /\ kind' = kind /\ jobs' = jobs
  BY KindStays DEF FileInv
<1>b. jobs \in Seq(STRING) /\ Activation \subseteq Generation
  BY <1>0, ActivationAssumption DEF FileForm
<1>1. CASE UNCHANGED fileVars
  BY <1>1 DEF fileVars, KeptInv
<1>2. ASSUME NEW a \in Activation, Start(a) \/ ActivationStep(a) \/ Kill(a)
      PROVE  KeptInv'
  <2>0. Moves(a) /\ act[a].job \in DOMAIN jobs
    BY <1>0, <1>2, StepMoves, FormAt
  <2>1. kept' = kept \/ kept' = {}
    BY <2>0 DEF Moves, Begins, GivesUp, Locks, FindsRight, FindsWork, Writes, Compares,
               Renames, Syncs, Empties, Refills, Quiet
  <2>2. kind # "markdown" => kept' = {}
    BY <2>1 DEF KeptInv
  <2>3. ASSUME kind = "markdown", NEW c \in onDisk' \cup {file'}  PROVE kept' \subseteq UserTexts(jobs, c)
    <3>0. \A x \in onDisk \cup {file} : kept \subseteq UserTexts(jobs, x)
      BY <2>3 DEF KeptInv
    <3>1. CASE Begins(a) \/ GivesUp(a) \/ Locks(a) \/ FindsRight(a) \/ FindsWork(a) \/ Writes(a)
               \/ Compares(a) \/ Syncs(a)
      <4>1. kept' = kept /\ c \in onDisk \cup {file}
        BY <2>3, <3>1 DEF Begins, GivesUp, Locks, FindsRight, FindsWork, Writes, Compares, Syncs, Quiet
      <4> QED  BY <3>0, <4>1
    <3>2. CASE Renames(a)
      <4>1. kept' = kept /\ (c \in onDisk \/ c = act[a].merged) /\ act[a].pc = "replace"
        BY <2>3, <3>2 DEF Renames, Goes
      <4>2. kept \subseteq UserTexts(jobs, act[a].merged)
        BY <2>3, <4>1 DEF KeptInv
      <4> QED  BY <3>0, <4>1, <4>2
    <3>3. CASE Empties(a)
      BY <3>3 DEF Empties
    <3>4. CASE Refills(a)
      BY <3>4 DEF Refills, KeptInv
    <3> QED  BY <2>0, <3>1, <3>2, <3>3, <3>4 DEF Moves
  <2>4. ASSUME NEW b \in Activation, kind = "markdown", act'[b].pc = "replace"
        PROVE  kept' \subseteq UserTexts(jobs, act'[b].merged)
    <3>1. CASE b # a
      <4>1. act[b].pc = "replace" /\ act'[b].merged = act[b].merged
        BY <1>0, <1>2, <2>4, <3>1, Beside
      <4>2. kept \subseteq UserTexts(jobs, act[b].merged)
        BY <2>4, <4>1 DEF KeptInv
      <4> QED  BY <2>1, <4>1, <4>2
    <3>2. CASE b = a
      <4>1. Compares(a)
        BY <2>0, <2>4, <3>2 DEF Moves, Begins, GivesUp, Locks, FindsRight, FindsWork, Writes,
               Renames, Syncs, Empties, Refills, Goes, Proceeds
      <4>2. /\ kept' = kept /\ file = act[a].original /\ act'[a].merged = act[a].merged
            /\ act[a].pc = "compare"
        BY <4>1 DEF Compares, Quiet, Carries, Goes
      <4>3. MergeOf(jobs, a, act[a].job, act[a].original, act[a].merged)
        BY <2>4, <4>2 DEF MarkInv, Making
      <4>4. UserTexts(jobs, act[a].original) \subseteq UserTexts(jobs, act[a].merged)
        BY <1>b, <2>0, <4>3, MergeOfKeeps
      <4>5. kept \subseteq UserTexts(jobs, file)
        BY <2>4 DEF KeptInv
      <4> QED  BY <3>2, <4>2, <4>4, <4>5
    <3> QED  BY <3>1, <3>2
  <2>5. ASSUME NEW b \in Activation, act'[b].pc = "rewrite"
        PROVE  kept' = {}
    <3>1. CASE b # a
      <4>1. act[b].pc = "rewrite"
        BY <1>0, <1>2, <2>5, <3>1, Beside
      <4> QED  BY <2>1, <4>1 DEF KeptInv
    <3>2. CASE b = a
      <4>1. Empties(a)
        BY <2>0, <2>5, <3>2 DEF Moves, Begins, GivesUp, Locks, FindsRight, FindsWork, Writes, Compares,
               Renames, Syncs, Refills, Goes, Proceeds
      <4> QED  BY <4>1 DEF Empties
    <3> QED  BY <3>1, <3>2
  <2> QED  BY <1>0, <2>2, <2>3, <2>4, <2>5 DEF KeptInv
<1>3. ASSUME NEW contents \in Edits, AgentWrites(contents)
      PROVE  KeptInv'
  <2>1. kind = "markdown"
    BY DEF Edits
  <2>2. TextsOf(contents) = UserTexts(jobs, contents)
    BY <2>1 DEF TextsOf, UserTexts
  <2>3. /\ file' = contents /\ onDisk' = {contents}
        /\ kept' = IF Blind THEN kept \cap UserTexts(jobs, contents) ELSE UserTexts(jobs, contents)
    BY <1>3, <2>2 DEF AgentWrites
  <2>4. kept' \subseteq UserTexts(jobs, contents)
    BY <2>3
  <2>5. ASSUME NEW b \in Activation, act[b].pc \in {"replace", "rewrite"}  PROVE kept' \subseteq kept
    <3>1. Blind
      BY <2>5 DEF Blind
    <3> QED  BY <2>3, <3>1
  <2>6. ASSUME NEW b \in Activation, act'[b].pc = "replace"
        PROVE  kept' \subseteq UserTexts(jobs, act'[b].merged)
    <3>1. act[b].pc = "replace" /\ act'[b].merged = act[b].merged
      BY <1>0, <1>3, <2>6, AgentBeside
    <3>2. kept \subseteq UserTexts(jobs, act[b].merged)
      BY <2>1, <3>1 DEF KeptInv
    <3> QED  BY <2>5, <3>1, <3>2
  <2>7. ASSUME NEW b \in Activation, act'[b].pc = "rewrite"
        PROVE  kept' = {}
    <3>1. act[b].pc = "rewrite"
      BY <1>0, <1>3, <2>7, AgentBeside
    <3>2. kept = {}
      BY <3>1 DEF KeptInv
    <3> QED  BY <2>5, <3>1, <3>2
  <2> QED  BY <1>0, <2>1, <2>3, <2>4, <2>6, <2>7 DEF KeptInv
<1>4. CASE PowerCut
  <2>1. file' \in onDisk \cup {file} /\ onDisk' = {file'} /\ kept' = kept
    BY <1>0, <1>4, CutLeaves
  <2>2. \A b \in Activation : act'[b].pc \notin {"replace", "rewrite"}
    BY <1>0, <1>4, CutBeside
  <2> QED  BY <1>0, <2>1, <2>2 DEF KeptInv
<1> QED  BY <1>1, <1>2, <1>3, <1>4 DEF FileNext

(* Where a job that ends leaves an activation that is alone.               *)
LEMMA StandAfter ==
  ASSUME FileForm, NEW a \in Activation, Proceeds(a), NEW f \in Seq(Marks),
         DoneBy(jobs, a, act[a].found, f, act[a].job)
  PROVE  Stand(jobs, a, act'[a], f)
<1>1. act[a].job \in Nat
  BY FormAt
<1>2. CASE act[a].job = Len(jobs)
  BY <1>2 DEF Proceeds, Stand
<1>3. CASE act[a].job # Len(jobs)
  <2>1. act'[a].job - 1 = act[a].job
    BY <1>1, <1>3 DEF Proceeds
  <2> QED  BY <1>3, <2>1 DEF Proceeds, Stand
<1> QED  BY <1>2, <1>3

(* An activation that nobody writes beside has done the jobs it is through *)
(* with, and will write what its next one makes of the file.               *)
LEMMA AloneKept ==
  ASSUME FileInv, MarkInv, AloneInv, [FileNext]_fileVars
  PROVE  AloneInv'
<1> DEFINE Right(b) == act[b].alone =>
             /\ ~act[b].orphan
             /\ WellFormed(act[b].found, Range(jobs)) => Stand(jobs, b, act[b], file)
<1> SUFFICES ASSUME kind = "markdown", kind' = kind, jobs' = jobs, NEW b \in Activation, act'[b].alone
             PROVE  /\ ~act'[b].orphan
                    /\ WellFormed(act'[b].found, Range(jobs)) => Stand(jobs, b, act'[b], file')
  BY KindStays DEF AloneInv
<1>0. FileForm /\ DiskInv
  BY DEF FileInv
<1>b. jobs \in Seq(STRING) /\ Activation \subseteq Generation
  BY <1>0, ActivationAssumption DEF FileForm
<1>r. Right(b)
  BY DEF AloneInv
<1>1. CASE UNCHANGED fileVars
  BY <1>1, <1>r DEF fileVars
<1>2. ASSUME NEW a \in Activation, Start(a) \/ ActivationStep(a) \/ Kill(a), a # b
      PROVE  /\ ~act'[b].orphan
             /\ WellFormed(act'[b].found, Range(jobs)) => Stand(jobs, b, act'[b], file')
  <2>1. act'[b] = act[b] /\ file' = file
    BY <1>0, <1>2, Beside
  <2> QED  BY <1>r, <2>1
<1>3. CASE Start(b) \/ ActivationStep(b) \/ Kill(b)
  <2>0. Moves(b) /\ act[b].job \in DOMAIN jobs
    BY <1>0, <1>3, StepMoves, FormAt
  <2>m. act[b].pc \in Making => MergeOf(jobs, b, act[b].job, act[b].original, act[b].merged)
    BY DEF MarkInv, Making
  <2>1. CASE Begins(b)
    <3>1. act'[b].pc = "next" /\ act'[b].job - 1 = 0 /\ act'[b].found = file /\ file' = file /\ ~act'[b].orphan
      BY <2>1 DEF Begins, Quiet
    <3>2. WellFormed(file, Range(jobs)) => DoneBy(jobs, b, file, file, 0)
      BY DEF DoneBy
    <3> QED  BY <3>1, <3>2 DEF Stand
  <2>2. CASE GivesUp(b)
    BY <2>2 DEF GivesUp
  <2> DEFINE Kept == act'[b].found = act[b].found /\ act'[b].alone = act[b].alone
  <2>3. CASE Locks(b)
    <3>1. /\ Kept /\ file' = file /\ act[b].pc = "next" /\ act'[b].pc = "locked" /\ act'[b].job = act[b].job
          /\ act'[b].orphan = act[b].orphan
      BY <2>3 DEF Locks, Goes, Quiet
    <3> QED  BY <1>r, <3>1 DEF Stand
  <2>4. CASE FindsRight(b)
    <3>1. /\ Kept /\ file' = file /\ act[b].pc \in {"next", "locked"} /\ Proceeds(b) /\ ~act'[b].orphan
          /\ Merge(Job(b), b, file) = file /\ file # Refused
      BY <2>4 DEF FindsRight, Proceeds, Quiet
    <3>2. MergeOf(jobs, b, act[b].job, file, file)
      BY <3>1, MergeIsOf DEF MarkInv
    <3>3. ASSUME WellFormed(act[b].found, Range(jobs))  PROVE Stand(jobs, b, act'[b], file)
      <4>1. DoneBy(jobs, b, act[b].found, file, act[b].job - 1)
        BY <1>r, <3>1, <3>3 DEF Stand
      <4>2. DoneBy(jobs, b, act[b].found, file, act[b].job)
        BY <1>b, <2>0, <3>2, <4>1, MergeOfDoes
      <4>3. file \in Seq(Marks)
        BY <1>b, <2>0, <3>2, MergeOfKeeps
      <4> QED  BY <1>0, <3>1, <4>2, <4>3, StandAfter
    <3> QED  BY <3>1, <3>3
  <2>5. CASE FindsWork(b)
    <3>1. /\ Kept /\ file' = file /\ act[b].pc \in {"next", "locked"} /\ act'[b].pc \in {"write", "truncate"}
          /\ act'[b].job = act[b].job /\ act'[b].original = file /\ act'[b].orphan = act[b].orphan
      BY <2>5 DEF FindsWork, Goes, Quiet
    <3> QED  BY <1>r, <3>1 DEF Stand
  <2>6. CASE Writes(b) \/ Compares(b)
    <3>1. /\ Kept /\ file' = file /\ act[b].pc \in {"write", "compare"} /\ act'[b].pc \in {"compare", "replace"}
          /\ act'[b].job = act[b].job /\ act'[b].original = act[b].original /\ act'[b].orphan = act[b].orphan
      BY <2>6 DEF Writes, Compares, Goes, Carries, Quiet
    <3> QED  BY <1>r, <3>1 DEF Stand
  <2>7. CASE Renames(b)
    <3>1. /\ Kept /\ file' = act[b].merged /\ act[b].pc = "replace" /\ act'[b].pc = "sync"
          /\ act'[b].job = act[b].job /\ act'[b].orphan = act[b].orphan
      BY <2>7 DEF Renames, Goes
    <3>2. MergeOf(jobs, b, act[b].job, act[b].original, act[b].merged)
      BY <2>m, <3>1 DEF Making
    <3>3. ASSUME WellFormed(act[b].found, Range(jobs))
          PROVE  act[b].merged \in Seq(Marks) /\ DoneBy(jobs, b, act[b].found, act[b].merged, act[b].job)
      <4>1. DoneBy(jobs, b, act[b].found, act[b].original, act[b].job - 1)
        BY <1>r, <3>1, <3>3 DEF Stand
      <4> QED  BY <1>b, <2>0, <3>2, <4>1, MergeOfDoes, MergeOfKeeps
    <3> QED  BY <1>r, <3>1, <3>3 DEF Stand
  <2>8. CASE Syncs(b)
    <3>1. Kept /\ file' = file /\ act[b].pc = "sync" /\ Proceeds(b) /\ ~act'[b].orphan
      BY <2>8 DEF Syncs, Proceeds
    <3>2. ASSUME WellFormed(act[b].found, Range(jobs))  PROVE Stand(jobs, b, act'[b], file)
      <4>1. file \in Seq(Marks) /\ DoneBy(jobs, b, act[b].found, file, act[b].job)
        BY <1>r, <3>1, <3>2 DEF Stand
      <4> QED  BY <1>0, <3>1, <4>1, StandAfter
    <3> QED  BY <3>1, <3>2
  <2>9. CASE Empties(b)
    <3>1. /\ Kept /\ act[b].pc = "truncate" /\ act'[b].pc = "rewrite"
          /\ act'[b].job = act[b].job /\ act'[b].original = act[b].original /\ act'[b].orphan = act[b].orphan
      BY <2>9 DEF Empties, Goes, Carries
    <3> QED  BY <1>r, <3>1 DEF Stand
  <2>10. CASE Refills(b)
    <3>1. Kept /\ act[b].pc = "rewrite" /\ Proceeds(b) /\ ~act'[b].orphan
      BY <2>10 DEF Refills, Proceeds
    <3>2. file' = act[b].merged
      BY <1>r, <2>10, <3>1 DEF Refills
    <3>3. MergeOf(jobs, b, act[b].job, act[b].original, act[b].merged)
      BY <2>m, <3>1 DEF Making
    <3>4. ASSUME WellFormed(act[b].found, Range(jobs))  PROVE Stand(jobs, b, act'[b], act[b].merged)
      <4>1. DoneBy(jobs, b, act[b].found, act[b].original, act[b].job - 1)
        BY <1>r, <3>1, <3>4 DEF Stand
      <4>2. act[b].merged \in Seq(Marks) /\ DoneBy(jobs, b, act[b].found, act[b].merged, act[b].job)
        BY <1>b, <2>0, <3>3, <4>1, MergeOfDoes, MergeOfKeeps
      <4> QED  BY <1>0, <3>1, <4>2, StandAfter
    <3> QED  BY <3>1, <3>2, <3>4
  <2> QED  BY <2>0, <2>1, <2>2, <2>3, <2>4, <2>5, <2>6, <2>7, <2>8, <2>9, <2>10 DEF Moves
<1>4. ASSUME NEW contents \in Edits, AgentWrites(contents)  PROVE FALSE
  BY <1>0, <1>4, AgentBeside
<1>5. ~PowerCut
  BY <1>0, CutBeside
<1> QED  BY <1>1, <1>2, <1>3, <1>4, <1>5 DEF FileNext
-----------------------------------------------------------------------------
(* What a merge of a parsed file makes of it is one, and stays as it is or *)
(* is refused.                                                             *)
LEMMA ParsedMerged ==
  ASSUME NEW k \in Parsed, NEW c \in Parses(k), NEW gen \in Generation,
         NEW m, m = MergeParsed(k, gen, c), m # Refused
  PROVE  /\ m \in Parses(k) /\ MergeParsed(k, gen, m) \in {m, Refused}
         /\ (k = "toml" => Plain(c)) => MergeParsed(k, gen, m) = m
<1>1. CASE k = "toml"
  BY <1>1, ManagedAssumption, SettingsMerged DEF Parses, MergeParsed
<1>2. CASE k # "toml"
  <2>1. k \in Hooked /\ c \in Document /\ m = MergeHooks(k, gen, c)
    BY <1>2 DEF Parsed, Parses, MergeParsed
  <2>2. m \in Document /\ MergeHooks(k, gen, m) = m
    BY <2>1, DocumentMerged
  <2> QED  BY <1>2, <2>2 DEF Parses, MergeParsed
<1> QED  BY <1>1, <1>2

LEMMA ParsedContents ==
  ASSUME NEW k \in Parsed
  PROVE  \A c \in Parses(k) : c \notin {Symlink, Torn, Refused}
BY OtherContentsAssumption DEF Parses

LEMMA MergesParsed ==
  ASSUME kind \in Parsed, NEW job, NEW a, NEW c \in Parses(kind)
  PROVE  Merge(job, a, c) = MergeParsed(kind, a, c)
<1>1. c \notin {Symlink, Torn, Refused}
  BY ParsedContents
<1>2. CASE kind = "codex"
  BY <1>1, <1>2 DEF Merge, MergeParsed, MergeHooks
<1>3. CASE kind = "claude"
  BY <1>1, <1>3 DEF Merge, MergeParsed, MergeHooks
<1>4. CASE kind = "toml"
  BY <1>1, <1>4 DEF Merge, MergeParsed
<1> QED  BY <1>2, <1>3, <1>4 DEF Parsed, Hooked

LEMMA MergesContents ==
  ASSUME kind \in Parsed, NEW job, NEW a, NEW c \in Parses(kind) \cup {Symlink}, Merge(job, a, c) # Refused
  PROVE  c \in Parses(kind) /\ Merge(job, a, c) = MergeParsed(kind, a, c)
<1>1. c \in Parses(kind)
  BY DEF Merge
<1> QED  BY <1>1, MergesParsed

(* One merge more comes to the same.                                       *)
LEMMA MergedAgain ==
  ASSUME NEW k \in Parsed, NEW a \in Generation, NEW found, NEW f \in Parses(k), MergeParsed(k, a, f) # Refused,
         NEW n \in Nat, NEW m \in Nat \ {0}, Merged(k, a, found, f, n)
  PROVE  Merged(k, a, found, MergeParsed(k, a, f), m)
<1>1. CASE n = 0
  BY <1>1 DEF Merged
<1>2. CASE n # 0
  <2>1. found \in Parses(k) /\ f = MergeParsed(k, a, found) /\ f # Refused
    BY <1>2 DEF Merged
  <2>2. MergeParsed(k, a, f) \in {f, Refused}
    BY <2>1, ParsedMerged
  <2> QED  BY <2>1, <2>2 DEF Merged
<1> QED  BY <1>1, <1>2

LEMMA ParsedAfter ==
  ASSUME FileForm, NEW a \in Activation, Proceeds(a), NEW f,
         \A n \in Nat \ {0} : Merged(kind, a, act[a].found, f, n)
  PROVE  ParsedStand(kind, jobs, a, act'[a], f)
<1>1. act[a].job \in Nat \ {0} /\ Len(jobs) \in Nat \ {0}
  <2>1. jobs \in Seq(STRING) /\ jobs # <<>> /\ act[a].job \in DOMAIN jobs
    BY FormAt
  <2> QED  BY <2>1
<1>2. CASE act[a].job = Len(jobs)
  BY <1>1, <1>2 DEF Proceeds, ParsedStand
<1>3. CASE act[a].job # Len(jobs)
  <2>1. act'[a].job - 1 = act[a].job
    BY <1>1, <1>3 DEF Proceeds
  <2> QED  BY <1>1, <1>3, <2>1 DEF Proceeds, ParsedStand
<1> QED  BY <1>2, <1>3

LEMMA ParsedKept ==
  ASSUME FileInv, ParsedInv, [FileNext]_fileVars
  PROVE  ParsedInv'
<1> DEFINE Docs == Parses(kind) \cup {Symlink}
           Makes(r, b) == r.pc \in {"write", "compare", "replace"} =>
              ToWrite(kind, b, r)
<1> SUFFICES ASSUME kind \in Parsed, kind' = kind, jobs' = jobs  PROVE ParsedInv'
  BY KindStays DEF ParsedInv
<1>0. FileForm /\ DiskInv /\ file \in Docs /\ (\A c \in onDisk : c \in Docs) /\ Retirement \notin Range(jobs)
  BY DEF FileInv, ParsedInv
<1>r. ASSUME NEW b \in Activation
      PROVE  /\ act[b].pc \notin {"truncate", "rewrite"} /\ Makes(act[b], b)
             /\ act[b].alone => ParsedStand(kind, jobs, b, act[b], file)
             /\ b \in Generation
  <2>1. b \in Generation
    BY ActivationAssumption
  <2> QED  BY <2>1 DEF ParsedInv
<1> HIDE DEF Docs
<1>1. CASE UNCHANGED fileVars
  BY <1>1 DEF fileVars, ParsedInv
<1>2. ASSUME NEW a \in Activation, Start(a) \/ ActivationStep(a) \/ Kill(a)
      PROVE  ParsedInv'
  <2>0. Moves(a) /\ act[a].job \in DOMAIN jobs /\ Job(a) # Retirement
    BY <1>0, <1>2, StepMoves, FormAt DEF Job, Range
  <2>d. act[a].pc \in {"write", "compare", "replace"} => act[a].merged \in Parses(kind)
    BY <1>r, ParsedMerged DEF ToWrite
  <2>j. act[a].job \in Nat /\ act[a].job # 0 /\ act[a].job - 1 \in Nat
    <3>1. jobs \in Seq(STRING)
      BY <1>0, FormAt
    <3> QED  BY <2>0, <3>1
  <2>1. file' \in Docs /\ \A c \in onDisk' : c \in Docs
    <3>1. act[a].pc = "replace" => act[a].merged \in Docs
      BY <2>d DEF Docs
    <3> QED  BY <1>0, <1>r, <2>0, <3>1 DEF Moves, Begins, GivesUp, Locks, FindsRight, FindsWork, Writes, Compares,
               Renames, Syncs, Empties, Refills, Quiet, Goes
  <2>m. ASSUME NEW c \in Docs, Merge(Job(a), a, c) # Refused
        PROVE  c \in Parses(kind) /\ Merge(Job(a), a, c) = MergeParsed(kind, a, c)
    BY <2>m, MergesContents DEF Docs
  <2>2. /\ act'[a].pc \notin {"truncate", "rewrite"}
        /\ act'[a].pc \in {"write", "compare", "replace"} =>
             ToWrite(kind, a, act'[a])
    <3>1. CASE FindsWork(a)
      BY <1>0, <2>0, <2>m, <3>1 DEF FindsWork, Goes, ToWrite
    <3>2. CASE Writes(a) \/ Compares(a)
      BY <1>r, <3>2 DEF Writes, Compares, Goes, Carries, ToWrite
    <3>3. CASE Begins(a) \/ GivesUp(a) \/ Locks(a) \/ FindsRight(a) \/ Renames(a) \/ Syncs(a)
      <4>1. act'[a].pc \in {"next", "failed", "locked", "done", "sync"}
        BY <3>3 DEF Begins, GivesUp, Locks, FindsRight, Renames, Syncs, Goes, Proceeds
      <4> QED  BY <4>1
    <3>4. ~Empties(a) /\ ~Refills(a)
      BY <1>r DEF Empties, Refills, Goes
    <3> QED  BY <2>0, <3>1, <3>2, <3>3, <3>4 DEF Moves
  <2>3. ASSUME act'[a].alone
        PROVE  ParsedStand(kind, jobs, a, act'[a], file')
    <3> DEFINE Kept == act'[a].found = act[a].found /\ act'[a].alone = act[a].alone
    <3>1. CASE Begins(a)
      <4>1. act'[a].pc = "next" /\ act'[a].job - 1 = 0 /\ act'[a].found = file /\ file' = file
        BY <3>1 DEF Begins, Quiet
      <4> QED  BY <4>1 DEF ParsedStand, Merged
    <3>2. CASE GivesUp(a)
      BY <2>3, <3>2 DEF GivesUp
    <3>3. CASE Locks(a)
      <4>1. Kept /\ file' = file /\ act[a].pc = "next" /\ act'[a].pc = "locked" /\ act'[a].job = act[a].job
        BY <3>3 DEF Locks, Goes, Quiet
      <4> QED  BY <1>r, <2>3, <4>1 DEF ParsedStand
    <3>4. CASE FindsRight(a)
      <4>1. Kept /\ file' = file /\ act[a].pc \in {"next", "locked"} /\ Proceeds(a)
            /\ Merge(Job(a), a, file) = file /\ file # Refused
        BY <3>4 DEF FindsRight, Proceeds, Quiet
      <4>2. file \in Parses(kind) /\ file = MergeParsed(kind, a, file)
        BY <1>0, <2>m, <4>1
      <4>3. Merged(kind, a, act[a].found, file, act[a].job - 1)
        BY <1>r, <2>3, <4>1 DEF ParsedStand
      <4>4. \A n \in Nat \ {0} : Merged(kind, a, act[a].found, file, n)
        <5>1. ASSUME NEW n \in Nat \ {0}  PROVE Merged(kind, a, act[a].found, file, n)
          <6>1. Merged(kind, a, act[a].found, MergeParsed(kind, a, file), n)
            <7>1. MergeParsed(kind, a, file) # Refused /\ a \in Generation /\ act[a].job - 1 \in Nat
              BY <1>r, <2>j, <4>1, <4>2
            <7> QED  BY <4>2, <4>3, <7>1, MergedAgain
          <6> QED  BY <4>2, <6>1
        <5> QED  BY <5>1
      <4> QED  BY <1>0, <4>1, <4>4, ParsedAfter
    <3>5. CASE FindsWork(a)
      <4>1. /\ Kept /\ file' = file /\ act[a].pc \in {"next", "locked"} /\ act'[a].pc = "write"
            /\ act'[a].job = act[a].job /\ act'[a].original = file
        BY <2>2, <3>5 DEF FindsWork, Goes, Quiet, ToWrite
      <4> QED  BY <1>r, <2>3, <4>1 DEF ParsedStand
    <3>6. CASE Writes(a) \/ Compares(a)
      <4>1. /\ Kept /\ file' = file /\ act[a].pc \in {"write", "compare"} /\ act'[a].pc \in {"compare", "replace"}
            /\ act'[a].job = act[a].job /\ act'[a].original = act[a].original
        BY <3>6 DEF Writes, Compares, Goes, Carries, Quiet
      <4> QED  BY <1>r, <2>3, <4>1 DEF ParsedStand
    <3>7. CASE Renames(a)
      <4>1. /\ Kept /\ file' = act[a].merged /\ act[a].pc = "replace" /\ act'[a].pc = "sync"
            /\ act'[a].job = act[a].job
        BY <3>7 DEF Renames, Goes
      <4>2. /\ act[a].original \in Parses(kind) /\ act[a].merged = MergeParsed(kind, a, act[a].original)
            /\ act[a].merged # Refused /\ Merged(kind, a, act[a].found, act[a].original, act[a].job - 1)
        BY <1>r, <2>3, <4>1 DEF ParsedStand, ToWrite
      <4>3. Merged(kind, a, act[a].found, file', act[a].job)
        <5>1. /\ act[a].job \in Nat \ {0} /\ act[a].job - 1 \in Nat /\ a \in Generation
              /\ MergeParsed(kind, a, act[a].original) # Refused
          BY <1>r, <2>j, <4>2
        <5>2. Merged(kind, a, act[a].found, MergeParsed(kind, a, act[a].original), act[a].job)
          BY <4>2, <5>1, MergedAgain
        <5> QED  BY <4>1, <4>2, <5>2
      <4> QED  BY <4>1, <4>3 DEF ParsedStand
    <3>8. CASE Syncs(a)
      <4>1. Kept /\ file' = file /\ act[a].pc = "sync" /\ Proceeds(a)
        BY <3>8 DEF Syncs, Proceeds
      <4>2. Merged(kind, a, act[a].found, file, act[a].job)
        BY <1>r, <2>3, <4>1 DEF ParsedStand
      <4>3. \A n \in Nat \ {0} : Merged(kind, a, act[a].found, file, n)
        BY <2>j, <4>2 DEF Merged
      <4> QED  BY <1>0, <4>1, <4>3, ParsedAfter
    <3>9. ~Empties(a) /\ ~Refills(a)
      BY <1>r DEF Empties, Refills, Goes
    <3> QED  BY <2>0, <3>1, <3>2, <3>3, <3>4, <3>5, <3>6, <3>7, <3>8, <3>9 DEF Moves
  <2>4. ASSUME NEW b \in Activation, b # a
        PROVE  /\ act'[b].pc \notin {"truncate", "rewrite"}
               /\ act'[b].pc \in {"write", "compare", "replace"} =>
                    ToWrite(kind, b, act'[b])
               /\ act'[b].alone => ParsedStand(kind, jobs, b, act'[b], file')
    <3>1. /\ act'[b].pc = act[b].pc /\ act'[b].original = act[b].original /\ act'[b].merged = act[b].merged
          /\ (act'[b] = act[b] /\ file' = file) \/ act'[b].alone = FALSE
      BY <1>0, <1>2, <2>4, Beside
    <3> QED  BY <1>r, <3>1 DEF ToWrite
  <2> QED  BY <1>0, <2>1, <2>2, <2>3, <2>4 DEF ParsedInv, Docs
<1>3. ASSUME NEW contents \in Edits, AgentWrites(contents)  PROVE FALSE
  BY <1>3 DEF Edits, Parsed, Hooked
<1>4. CASE PowerCut
  <2>1. file' \in Docs /\ \A c \in onDisk' : c \in Docs
    BY <1>0, <1>4, CutLeaves
  <2>2. \A b \in Activation : act'[b].pc \in {"off", "done", "failed"} /\ act'[b].alone = FALSE
    BY <1>0, <1>4, CutBeside
  <2> QED  BY <1>0, <2>1, <2>2 DEF ParsedInv, Docs
<1> QED  BY <1>1, <1>2, <1>3, <1>4 DEF FileNext

LEMMA ParsedInit ==
  ASSUME FileInit
  PROVE  ParsedInv
<1>1. PICK s \in Scenarios : kind = s.kind /\ jobs \in s.jobs /\ file \in s.files /\ left = s.left
  BY DEF FileInit
<1>2. kind \in Parsed => file \in Parses(kind) \cup {Symlink}
  <2>1. kind = "toml" => file \in Seq(TomlLine) \cup {Symlink}
    BY <1>1, ScenariosAssumption
  <2>2. kind \in {"codex", "claude"} => file \in Document \cup {Symlink}
    BY <1>1, ScenariosAssumption
  <2> QED  BY <2>1, <2>2 DEF Parsed, Hooked, Parses
<1>3. kind \in Parsed => Retirement \notin Range(jobs)
  BY <1>1, ScenariosAssumption DEF Parsed, Hooked
<1>4. onDisk = {file}
  BY DEF FileInit
<1>5. \A a \in Activation : act[a].pc = "off"
  BY DEF FileInit, Fresh
<1> QED  BY <1>2, <1>3, <1>4, <1>5 DEF ParsedInv, ParsedStand

(* What an activation leaves that nobody wrote beside.                     *)
LEMMA ParsedLeft ==
  ASSUME FileInv, ParsedInv, kind \in Parsed, NEW a \in Activation, Finished(a)
  PROVE  /\ a \in Generation /\ act[a].found \in Parses(kind) /\ file \in Parses(kind) /\ file # Refused
         /\ file = MergeParsed(kind, a, act[a].found)
         /\ \A job \in Range(jobs) : Merge(job, a, file) \in {file, Refused}
         /\ (kind = "toml" => Plain(act[a].found)) => Settled(a)
<1>1. jobs # <<>> /\ jobs \in Seq(STRING)
  BY DEF FileInv, FileForm
<1>2. Len(jobs) # 0
  BY <1>1
<1>3. Merged(kind, a, act[a].found, file, Len(jobs))
  BY DEF ParsedInv, ParsedStand, Finished
<1>4. act[a].found \in Parses(kind) /\ file = MergeParsed(kind, a, act[a].found) /\ file # Refused
  BY <1>2, <1>3 DEF Merged
<1>5. a \in Generation
  BY ActivationAssumption
<1>6. /\ file \in Parses(kind) /\ MergeParsed(kind, a, file) \in {file, Refused}
      /\ (kind = "toml" => Plain(act[a].found)) => MergeParsed(kind, a, file) = file
  BY <1>4, <1>5, ParsedMerged
<1>7. \A job \in Range(jobs) : Merge(job, a, file) = MergeParsed(kind, a, file)
  BY <1>6, MergesParsed
<1> QED  BY <1>4, <1>5, <1>6, <1>7 DEF Settled

LEMMA HooksFollow ==
  ASSUME FileInv, ParsedInv
  PROVE  HooksRight
<1> SUFFICES ASSUME NEW a \in Activation, kind \in Hooked, Finished(a)
             PROVE  /\ \A e \in DOMAIN file.hooks : Flat(file.hooks[e]) = HooksOf(kind, e, act[a].found.hooks[e], a)
                    /\ Settled(a)
  BY DEF HooksRight, HooksOf, Asks, Ours, Hooked
<1>1. kind \in Parsed /\ kind # "toml"
  BY DEF Parsed, Hooked
<1>2. /\ act[a].found \in Document /\ file = MergeHooks(kind, a, act[a].found)
      /\ file \in Document /\ a \in Generation /\ Settled(a)
  BY <1>1, ParsedLeft DEF Parses, MergeParsed
<1>3. \A e \in Events : Flat(file.hooks[e]) = HooksOf(kind, e, act[a].found.hooks[e], a)
  BY <1>2, DocumentMerged
<1>4. DOMAIN file.hooks = Events
  BY <1>2 DEF Document, Events
<1> QED  BY <1>2, <1>3, <1>4

LEMMA TomlFollows ==
  ASSUME FileInv, ParsedInv
  PROVE  TomlRight
<1> SUFFICES ASSUME NEW a \in Activation, kind = "toml", Finished(a)
             PROVE  /\ Valid(file)
                    /\ \A job \in Range(jobs) : Merge(job, a, file) \in {file, Refused}
                    /\ Plain(act[a].found) => TomlMerged(act[a].found, file, a) /\ Settled(a)
  BY DEF TomlRight, TomlMerged
<1>1. kind \in Parsed
  BY DEF Parsed
<1>2. /\ act[a].found \in Seq(TomlLine) /\ file = MergeSettings(act[a].found, a)
      /\ file # Refused /\ a \in Generation
      /\ \A job \in Range(jobs) : Merge(job, a, file) \in {file, Refused}
      /\ Plain(act[a].found) => Settled(a)
  BY <1>1, ParsedLeft DEF Parses, MergeParsed
<1> QED  BY <1>2, ManagedAssumption, SettingsMerged
-----------------------------------------------------------------------------

(* The early cutoff is Ahead days before the late one. *)
LEMMA Cutoffs == CutoffEarly \in Nat /\ CutoffLate = Days /\ Days = CutoffEarly + Ahead /\ Ahead \in Nat /\ Days \in Nat
BY RetentionAssumption DEF CutoffEarly, CutoffLate

(* Between runs nothing is listed and nothing is marked. *)
LEMMA NoRunForm == NoRetention \in Run /\ NoRetention.pc = "off" /\ NoRetention.left = {}
                   /\ NoRetention.marks = [f \in File |-> 0]
BY DEF NoRetention, Run, Phase

(* What an append brings: the rows it is given can be read, but for one    *)
(* whose line runs into a torn one, and nothing else changes.              *)
LEMMA AppendedGrows ==
  ASSUME NEW f \in File, NEW n \in Nat, Appended(f, n), ledger \in SUBSET (File \X Nat)
  PROVE  /\ ledger \subseteq ledger' /\ glued \subseteq glued'
         /\ ledger' \in SUBSET (File \X Nat)
         /\ \A k \in 1..n : <<f, k>> \in ledger' \cup glued'
<1>1. CASE tornTail[LedgerOf(f)]
  <2>1. ledger' = ledger \cup {<<f, k>> : k \in 2..n}
    BY <1>1 DEF Appended
  <2>2. glued' = IF n > 0 THEN glued \cup {<<f, 1>>} ELSE glued
    BY <1>1 DEF Appended
  <2>3. ASSUME NEW k \in 1..n  PROVE <<f, k>> \in ledger' \cup glued'
    <3>1. CASE k = 1
      BY <2>2, <3>1
    <3>2. CASE k # 1
      <4>1. k \in 2..n
        BY <3>2
      <4> QED  BY <2>1, <4>1
    <3> QED  BY <3>1, <3>2
  <2> QED  BY <2>1, <2>2, <2>3
<1>2. CASE ~tornTail[LedgerOf(f)]
  <2>1. ledger' = ledger \cup {<<f, k>> : k \in 1..n} /\ glued' = glued
    BY <1>2 DEF Appended
  <2> QED  BY <2>1
<1> QED  BY <1>1, <1>2

(* Where a look takes the run. *)
LEMMA LookAt ==
  ASSUME RetentionForm, NEW f \in File, Look(f)
  PROVE  /\ run.pc \in {"claude", "codex"} /\ f \in run.left
         /\ UNCHANGED <<today, there, rows, day, ledger, tornTail, saved, lastRun, history, todo, late, glued>>
         /\ run' \in Run /\ run'.left = run.left \ {f} /\ run'.now = run.now
         /\ run'.marks = run.marks /\ run'.lines = run.lines
         /\ \/ /\ run'.pc = run.pc /\ run'.f = run.f /\ run'.seen = run.seen
               /\ run.pc = "claude" => f \notin there \/ ~Older(day[f], CutoffEarly, run.now)
            \/ /\ run'.f = f /\ run'.seen = rows[f] /\ run.marks[f] = rows[f]
               /\ run'.pc = IF run.pc = "claude" THEN "claude" ELSE "remove"
            \/ /\ run'.f = f /\ run'.seen = rows[f]
               /\ run'.pc = IF run.pc = "claude" THEN "readclaude" ELSE "readcodex"
<1> DEFINE age == IF run.pc = "claude" THEN CutoffEarly ELSE CutoffLate
           skip == [run EXCEPT !.left = @ \ {f}]
           r == [run EXCEPT !.left = @ \ {f}, !.f = f, !.seen = rows[f]]
           Old == f \in there /\ Older(day[f], age, run.now)
<1>0. run \in Run /\ rows[f] \in Nat
  BY DEF RetentionForm
<1>1. run.pc \in {"claude", "codex"} /\ f \in run.left
      /\ UNCHANGED <<today, there, rows, day, ledger, tornTail, saved, lastRun, history, todo, late, glued>>
  BY DEF Look, Go
<1>2. \/ ~Old /\ run' = skip
      \/ Old /\ run.marks[f] = rows[f] /\ run' = [r EXCEPT !.pc = After(run.pc)]
      \/ run' = [r EXCEPT !.pc = IF run.pc = "codex" THEN "readcodex" ELSE "readclaude"]
  <2>1. run' = CASE f \notin there \/ ~Older(day[f], age, run.now) -> skip
                 [] f \in there /\ Older(day[f], age, run.now) /\ run.marks[f] = rows[f] ->
                      [r EXCEPT !.pc = After(run.pc)]
                 [] OTHER -> [r EXCEPT !.pc = IF run.pc = "codex" THEN "readcodex" ELSE "readclaude"]
    BY DEF Look, Go
  <2> HIDE DEF age, skip, r
  <2>2. CASE ~Old
    BY <2>1, <2>2
  <2>3. CASE Old /\ run.marks[f] = rows[f]
    BY <2>1, <2>3
  <2>4. CASE Old /\ run.marks[f] # rows[f]
    BY <2>1, <2>4
  <2> QED  BY <2>2, <2>3, <2>4
<1>3. CASE ~Old /\ run' = skip
  <2>1. /\ skip \in Run /\ skip.left = run.left \ {f} /\ skip.now = run.now /\ skip.marks = run.marks
        /\ skip.lines = run.lines /\ skip.pc = run.pc /\ skip.f = run.f /\ skip.seen = run.seen
    BY <1>0 DEF Run
  <2> QED  BY <1>1, <1>3, <2>1
<1>4. CASE Old /\ run.marks[f] = rows[f] /\ run' = [r EXCEPT !.pc = After(run.pc)]
  <2>1. After(run.pc) = IF run.pc = "claude" THEN "claude" ELSE "remove"
    BY <1>1 DEF After
  <2>2. After(run.pc) \in Phase
    BY <2>1 DEF Phase, Claudes, Codexes
  <2>3. /\ run' \in Run /\ run'.left = run.left \ {f} /\ run'.now = run.now /\ run'.marks = run.marks
        /\ run'.lines = run.lines /\ run'.pc = After(run.pc) /\ run'.f = f /\ run'.seen = rows[f]
    BY <1>0, <1>4, <2>2 DEF Run
  <2> QED  BY <1>1, <1>4, <2>1, <2>3
<1>5. CASE run' = [r EXCEPT !.pc = IF run.pc = "codex" THEN "readcodex" ELSE "readclaude"]
  <2> DEFINE p == IF run.pc = "codex" THEN "readcodex" ELSE "readclaude"
  <2>1. p \in Phase
    BY DEF Phase, Claudes, Codexes
  <2> HIDE DEF p
  <2>2. run' = [r EXCEPT !.pc = p]
    BY <1>5 DEF p
  <2>3. /\ run' \in Run /\ run'.left = run.left \ {f} /\ run'.now = run.now /\ run'.marks = run.marks
        /\ run'.lines = run.lines /\ run'.pc = p /\ run'.f = f /\ run'.seen = rows[f]
    BY <1>0, <2>1, <2>2 DEF Run
  <2> QED  BY <1>1, <2>3 DEF p
<1> QED  BY <1>2, <1>3, <1>4, <1>5

(* No step of an agent, of a run or of the clock spoils the form. *)
LEMMA RetentionFormKept ==
  ASSUME RetentionForm, InPhase, [RetentionNext]_retentionVars
  PROVE  RetentionForm'
<1> DEFINE Budget == [days : Nat, writes : Nat, prompts : Nat, runs : Nat, kills : Nat]
<1>0. /\ run \in Run /\ todo \in Budget /\ rows \in [File -> Nat] /\ day \in [File -> Nat]
      /\ saved \in [File -> Nat] /\ today \in Nat /\ lastRun \in Nat /\ there \in SUBSET File
      /\ ledger \in SUBSET (File \X Nat) /\ history \in SUBSET (Nat \X Nat)
      /\ tornTail \in [{"codex", "claude"} -> BOOLEAN]
  BY DEF RetentionForm
<1>1. CASE UNCHANGED retentionVars
  BY <1>1 DEF retentionVars, RetentionForm
<1>2. CASE Tick
  BY <1>0, <1>2 DEF Tick, RetentionForm
<1>3. ASSUME NEW f \in File, AgentWritesRow(f)  PROVE RetentionForm'
  <2>1. todo' \in Budget
    BY <1>0, <1>3 DEF AgentWritesRow
  <2> QED  BY <1>0, <1>3, <2>1 DEF AgentWritesRow, RetentionForm
<1>4. ASSUME NEW f \in File, ClaudeCleansUp(f)  PROVE RetentionForm'
  BY <1>0, <1>4 DEF ClaudeCleansUp, RetentionForm
<1>5. CASE AgentPrompts
  <2>1. todo' \in Budget /\ history' \in SUBSET (Nat \X Nat)
    BY <1>0, <1>5 DEF AgentPrompts
  <2> QED  BY <1>0, <1>5, <2>1 DEF AgentPrompts, RetentionForm
<1>6. CASE StartRetention
  <2>1. todo' \in Budget
    BY <1>0, <1>6 DEF StartRetention
  <2>2. run' \in Run
    BY <1>0, <1>6, NoRunForm DEF StartRetention, Run, Phase, Claudes, File
  <2> QED  BY <1>0, <1>6, <2>1, <2>2 DEF StartRetention, RetentionForm
<1>7. ASSUME NEW f \in File, Look(f)  PROVE RetentionForm'
  BY <1>0, <1>7, LookAt DEF RetentionForm
<1>8. ASSUME NEW f \in File, LookAtJob(f)  PROVE RetentionForm'
  <2>1. PICK p \in {"removejob", "jobs"} : run' = [run EXCEPT !.left = @ \ {f}, !.f = f, !.pc = p]
    BY <1>8 DEF LookAtJob, Go
  <2>2. run' \in Run
    BY <1>0, <2>1 DEF Run, Phase
  <2> QED  BY <1>0, <1>8, <2>2 DEF LookAtJob, Go, RetentionForm
<1>9. CASE ReadRows
  <2>1. PICK p \in {"markcodex", "markclaude"} : run' = [run EXCEPT !.pc = p]
    BY <1>9 DEF ReadRows
  <2>2. run' \in Run
    BY <1>0, <2>1 DEF Run, Phase, Codexes, Claudes
  <2>3. run.f \in File /\ rows[run.f] \in Nat
    BY <1>0, <1>9 DEF ReadRows
  <2>4. ledger' \in SUBSET (File \X Nat)
    BY <1>0, <1>9, <2>3, AppendedGrows DEF ReadRows
  <2>5. tornTail' \in [{"codex", "claude"} -> BOOLEAN]
    BY <1>0, <1>9 DEF ReadRows
  <2> QED  BY <1>0, <1>9, <2>2, <2>4, <2>5 DEF ReadRows, RetentionForm
<1>10. CASE MarkRows
  <2>1. run.f \in File
    BY <1>10 DEF MarkRows, InPhase, File
  <2>2. PICK p \in {"remove", "claude"} : run' = [run EXCEPT !.marks[run.f] = Mark, !.pc = p]
    BY <1>10 DEF MarkRows, Go
  <2>3. run' = [run EXCEPT !.marks = [run.marks EXCEPT ![run.f] = run.seen], !.pc = p]
    BY <1>0, <2>2 DEF Mark
  <2>4. [run.marks EXCEPT ![run.f] = run.seen] \in [File -> Nat]
    BY <1>0 DEF Run
  <2>5. run' \in Run
    BY <1>0, <2>3, <2>4 DEF Run, Phase, Codexes, Claudes
  <2> QED  BY <1>0, <1>10, <2>5 DEF MarkRows, Go, RetentionForm
<1>11. CASE FileVanished
  BY <1>0, <1>11, NoRunForm DEF FileVanished, Go, RetentionForm
<1>12. CASE TurnToJobs
  <2>1. run' = [run EXCEPT !.pc = "jobs", !.left = Jobs \cap there]
    BY <1>12 DEF TurnToJobs, Go
  <2>2. run' \in Run
    BY <1>0, <2>1 DEF Run, Phase
  <2> QED  BY <1>0, <1>12, <2>2 DEF TurnToJobs, Go, RetentionForm
<1>13. CASE TurnToRollouts
  <2>1. run' = [run EXCEPT !.pc = "codex", !.left = Rollouts \cap there]
    BY <1>13 DEF TurnToRollouts, Go
  <2>2. run' \in Run
    BY <1>0, <2>1 DEF Run, Phase, Codexes
  <2> QED  BY <1>0, <1>13, <2>2 DEF TurnToRollouts, Go, RetentionForm
<1>14. CASE RemoveFile
  <2>1. PICK p \in {"codex", "jobs"} : run' = [run EXCEPT !.pc = p]
    BY <1>14 DEF RemoveFile
  <2>2. run' \in Run
    BY <1>0, <2>1 DEF Run, Phase, Codexes
  <2> QED  BY <1>0, <1>14, <2>2 DEF RemoveFile, RetentionForm
<1>15. CASE ReadHistory
  <2>1. run' = [run EXCEPT !.pc = "trim", !.lines = history]
    BY <1>15 DEF ReadHistory, Go
  <2>2. run' \in Run
    BY <1>0, <2>1 DEF Run, Phase
  <2> QED  BY <1>0, <1>15, <2>2 DEF ReadHistory, Go, RetentionForm
<1>16. CASE TrimHistory
  <2>1. run' = [run EXCEPT !.pc = "save"]
    BY <1>16 DEF TrimHistory
  <2>2. run' \in Run
    BY <1>0, <2>1 DEF Run, Phase
  <2>3. KeptLines(run.lines) \in SUBSET (Nat \X Nat)
    BY <1>0 DEF Run, KeptLines
  <2> QED  BY <1>0, <1>16, <2>2, <2>3 DEF TrimHistory, RetentionForm
<1>17. CASE SaveMarks
  <2>1. run.marks \in [File -> Nat] /\ run.now \in Nat
    BY <1>0 DEF Run
  <2>2. saved' \in [File -> Nat]
    BY <1>17, <2>1 DEF SaveMarks
  <2> QED  BY <1>0, <1>17, <2>1, <2>2, NoRunForm DEF SaveMarks, RetentionForm
<1>18. CASE KillRetention
  <2>1. todo' \in Budget /\ run' \in Run
    BY <1>0, <1>18, NoRunForm DEF KillRetention
  <2>2. ledger' \in SUBSET (File \X Nat) /\ tornTail' \in [{"codex", "claude"} -> BOOLEAN]
    <3>1. CASE run.pc \in {"readcodex", "readclaude"} /\ run.f \in there
      <4>1. PICK n \in 0..rows[run.f] - 1, torn \in BOOLEAN :
              /\ Appended(run.f, n)
              /\ tornTail' = [tornTail EXCEPT ![LedgerOf(run.f)] = torn \/ (n = 0 /\ @)]
        BY <1>18, <3>1 DEF KillRetention
      <4>2. run.f \in File /\ rows[run.f] \in Nat
        BY <1>0, <3>1
      <4>3. ledger' \in SUBSET (File \X Nat)
        BY <1>0, <4>1, <4>2, AppendedGrows
      <4>4. tornTail' \in [{"codex", "claude"} -> BOOLEAN]
        BY <1>0, <4>1
      <4> QED  BY <4>3, <4>4
    <3>2. CASE ~(run.pc \in {"readcodex", "readclaude"} /\ run.f \in there)
      BY <1>0, <1>18, <3>2 DEF KillRetention
    <3> QED  BY <3>1, <3>2
  <2> QED  BY <1>0, <1>18, <2>1, <2>2 DEF KillRetention, RetentionForm
<1> QED  BY <1>1, <1>2, <1>3, <1>4, <1>5, <1>6, <1>7, <1>8, <1>9, <1>10, <1>11, <1>12, <1>13, <1>14,
            <1>15, <1>16, <1>17, <1>18 DEF RetentionNext, RetentionStep

Keeps == run'.now = run.now /\ run'.marks = run.marks
KeepsFile == Keeps /\ run'.f = run.f /\ run'.seen = run.seen

(* What the steps of a run change of it. *)
LEMMA RunSteps ==
  ASSUME RetentionForm
  PROVE  /\ StartRetention => /\ run'.pc = "claude" /\ run'.now = today /\ run'.marks = saved
                              /\ run'.left = (Transcripts \cup Jobs) \cap there
         /\ \A f \in File : LookAtJob(f) =>
              /\ Keeps /\ run'.left = run.left \ {f} /\ run'.f = f
              /\ run'.pc = IF Older(day[f], CutoffLate, run.now) THEN "removejob" ELSE "jobs"
         /\ ReadRows => /\ KeepsFile /\ run'.left = run.left
                        /\ run'.pc = IF run.pc = "readcodex" THEN "markcodex" ELSE "markclaude"
         /\ MarkRows => /\ run'.marks = [run.marks EXCEPT ![run.f] = run.seen]
                        /\ run'.now = run.now /\ run'.f = run.f /\ run'.seen = run.seen
                        /\ run'.left = run.left
                        /\ run'.pc = IF run.pc = "markcodex" THEN "remove" ELSE "claude"
         /\ TurnToJobs => KeepsFile /\ run'.pc = "jobs" /\ run'.left = Jobs \cap there
         /\ TurnToRollouts => KeepsFile /\ run'.pc = "codex" /\ run'.left = Rollouts \cap there
         /\ RemoveFile => /\ KeepsFile /\ run'.left = run.left
                          /\ run'.pc = IF run.pc = "remove" THEN "codex" ELSE "jobs"
         /\ ReadHistory => KeepsFile /\ run'.pc = "trim" /\ run'.left = {} /\ run'.lines = history
         /\ TrimHistory => KeepsFile /\ run'.pc = "save" /\ run'.left = run.left
<1>0. run \in Run
  BY DEF RetentionForm
<1>1. StartRetention => /\ run'.pc = "claude" /\ run'.now = today /\ run'.marks = saved
                        /\ run'.left = (Transcripts \cup Jobs) \cap there
  BY NoRunForm DEF StartRetention, Run
<1>2. ASSUME NEW f \in File, LookAtJob(f)
      PROVE  /\ Keeps /\ run'.left = run.left \ {f} /\ run'.f = f
             /\ run'.pc = IF Older(day[f], CutoffLate, run.now) THEN "removejob" ELSE "jobs"
  BY <1>0, <1>2 DEF LookAtJob, Go, Run, Keeps
<1>3. ReadRows => /\ KeepsFile /\ run'.left = run.left
                  /\ run'.pc = IF run.pc = "readcodex" THEN "markcodex" ELSE "markclaude"
  BY <1>0 DEF ReadRows, Run, Keeps, KeepsFile
<1>4. ASSUME MarkRows
      PROVE  /\ run'.marks = [run.marks EXCEPT ![run.f] = run.seen]
             /\ run'.now = run.now /\ run'.f = run.f /\ run'.seen = run.seen
             /\ run'.left = run.left
             /\ run'.pc = IF run.pc = "markcodex" THEN "remove" ELSE "claude"
  <2> DEFINE p == IF run.pc = "markcodex" THEN "remove" ELSE "claude"
             marks == [run.marks EXCEPT ![run.f] = run.seen]
  <2>1. run' = [run EXCEPT !.marks = marks, !.pc = p]
    BY <1>0, <1>4 DEF MarkRows, Go, Mark
  <2> HIDE DEF p, marks
  <2>2. /\ run'.marks = marks /\ run'.pc = p /\ run'.now = run.now /\ run'.f = run.f
        /\ run'.seen = run.seen /\ run'.left = run.left
    BY <1>0, <2>1 DEF Run
  <2> QED  BY <2>2 DEF p, marks
<1>5. /\ TurnToJobs => KeepsFile /\ run'.pc = "jobs" /\ run'.left = Jobs \cap there
      /\ TurnToRollouts => KeepsFile /\ run'.pc = "codex" /\ run'.left = Rollouts \cap there
  BY <1>0 DEF TurnToJobs, TurnToRollouts, Go, Run, Keeps, KeepsFile
<1>6. RemoveFile => /\ KeepsFile /\ run'.left = run.left
                    /\ run'.pc = IF run.pc = "remove" THEN "codex" ELSE "jobs"
  BY <1>0 DEF RemoveFile, Run, Keeps, KeepsFile
<1>7. ReadHistory => KeepsFile /\ run'.pc = "trim" /\ run'.left = {} /\ run'.lines = history
  BY <1>0 DEF ReadHistory, Go, Run, Keeps, KeepsFile
<1>8. TrimHistory => KeepsFile /\ run'.pc = "save" /\ run'.left = run.left
  BY <1>0 DEF TrimHistory, Run, Keeps, KeepsFile
<1> QED  BY <1>1, <1>2, <1>3, <1>4, <1>5, <1>6, <1>7, <1>8

Elsewhere == Tick \/ AgentPrompts \/ \E f \in File : AgentWritesRow(f) \/ ClaudeCleansUp(f)

(* Who is not the run leaves it alone. *)
LEMMA ElsewhereLeavesRun ==
  ASSUME Elsewhere
  PROVE  run' = run /\ UNCHANGED <<ledger, glued, saved, lastRun>>
BY DEF Elsewhere, Tick, AgentPrompts, AgentWritesRow, ClaudeCleansUp

(* No file comes back, no row is unwritten, and nothing leaves the ledger. *)
LEMMA Grows ==
  ASSUME RetentionForm, InPhase, RetentionNext
  PROVE  /\ ledger \subseteq ledger' /\ glued \subseteq glued' /\ late \subseteq late'
         /\ there' \subseteq there /\ today <= today'
         /\ \A f \in File : rows[f] <= rows'[f] /\ (~Elsewhere => rows'[f] = rows[f] /\ day'[f] = day[f])
<1>0. /\ rows \in [File -> Nat] /\ day \in [File -> Nat] /\ today \in Nat /\ there \in SUBSET File
      /\ ledger \in SUBSET (File \X Nat)
  BY DEF RetentionForm
<1>1. CASE Elsewhere
  <2>1. today <= today' /\ there' \subseteq there /\ UNCHANGED <<ledger, glued>> /\ late \subseteq late'
    BY <1>0, <1>1 DEF Elsewhere, Tick, AgentPrompts, AgentWritesRow, ClaudeCleansUp
  <2>2. ASSUME NEW f \in File  PROVE rows[f] <= rows'[f]
    BY <1>0, <1>1 DEF Elsewhere, Tick, AgentPrompts, AgentWritesRow, ClaudeCleansUp
  <2> QED  BY <1>1, <2>1, <2>2
<1>2. CASE ~Elsewhere
  <2>0. StartRetention \/ RetentionStep \/ KillRetention
    BY <1>2 DEF RetentionNext, Elsewhere
  <2>1. UNCHANGED <<rows, day, today, late>> /\ there' \subseteq there
    BY <2>0 DEF StartRetention, RetentionStep, KillRetention, Look, LookAtJob, ReadRows, MarkRows,
                FileVanished, TurnToJobs, TurnToRollouts, RemoveFile, ReadHistory, TrimHistory,
                SaveMarks, Go
  <2>2. ledger \subseteq ledger' /\ glued \subseteq glued'
    <3>1. CASE ReadRows
      BY <1>0, <3>1, AppendedGrows DEF ReadRows
    <3>2. CASE KillRetention
      BY <1>0, <3>2, AppendedGrows DEF KillRetention
    <3>3. CASE UNCHANGED <<ledger, glued>>
      BY <3>3
    <3> QED  BY <2>0, <3>1, <3>2, <3>3
             DEF StartRetention, RetentionStep, Look, LookAtJob, MarkRows, FileVanished, TurnToJobs,
                 TurnToRollouts, RemoveFile, ReadHistory, TrimHistory, SaveMarks, Go
  <2> QED  BY <1>0, <2>1, <2>2
<1> QED  BY <1>1, <1>2

(* The phases follow each other. *)
LEMMA InPhaseKept ==
  ASSUME RetentionForm, InPhase, [RetentionNext]_retentionVars
  PROVE  InPhase'
<1> USE DEF InPhase, Claudes, Codexes
<1>1. CASE UNCHANGED retentionVars
  BY <1>1 DEF retentionVars
<1>2. CASE Elsewhere
  BY <1>2, ElsewhereLeavesRun
<1>3. CASE StartRetention
  BY <1>3, RunSteps
<1>4. ASSUME NEW f \in File, Look(f)  PROVE InPhase'
  <2>1. run.left \subseteq IF run.pc = "claude" THEN Transcripts \cup Jobs ELSE Rollouts
    BY <1>4, LookAt
  <2> QED  BY <1>4, <2>1, LookAt
<1>5. ASSUME NEW f \in File, LookAtJob(f)  PROVE InPhase'
  <2>1. run.pc = "jobs" /\ f \in run.left /\ run.left \subseteq Jobs
    BY <1>5 DEF LookAtJob
  <2> QED  BY <1>5, <2>1, RunSteps
<1>6. CASE ReadRows
  BY <1>6, RunSteps DEF ReadRows, KeepsFile, Keeps
<1>7. CASE MarkRows
  BY <1>7, RunSteps DEF MarkRows
<1>8. CASE TurnToJobs \/ TurnToRollouts \/ ReadHistory
  BY <1>8, RunSteps
<1>9. CASE TrimHistory
  <2>1. run.left = {}
    BY <1>9 DEF TrimHistory
  <2> QED  BY <1>9, <2>1, RunSteps
<1>10. CASE RemoveFile
  <2>1. run.pc = "remove" \/ run.pc = "removejob"
    BY <1>10 DEF RemoveFile
  <2> QED  BY <1>10, <2>1, RunSteps
<1>11. CASE FileVanished \/ SaveMarks \/ KillRetention
  <2>1. run' = NoRetention
    BY <1>11 DEF FileVanished, SaveMarks, KillRetention, Go
  <2> QED  BY <2>1, NoRunForm
<1> QED  BY <1>1, <1>2, <1>3, <1>4, <1>5, <1>6, <1>7, <1>8, <1>9, <1>10, <1>11
         DEF RetentionNext, RetentionStep, Elsewhere

(* The clock goes on, and no further than the timer lets it. *)
LEMMA ClockKept ==
  ASSUME RetentionForm, InPhase, Clock, [RetentionNext]_retentionVars
  PROVE  Clock'
<1>0. /\ today \in Nat /\ lastRun \in Nat /\ day \in [File -> Nat] /\ run.now \in Nat
      /\ CutoffEarly \in Nat /\ Ahead \in Nat
  BY Cutoffs DEF RetentionForm, Run
<1>1. CASE UNCHANGED retentionVars
  BY <1>1 DEF retentionVars, Clock
<1>2. CASE Tick
  BY <1>0, <1>2 DEF Tick, Clock
<1>3. ASSUME NEW f \in File, AgentWritesRow(f)  PROVE Clock'
  BY <1>0, <1>3 DEF AgentWritesRow, Clock
<1>4. CASE AgentPrompts \/ \E f \in File : ClaudeCleansUp(f)
  BY <1>4 DEF AgentPrompts, ClaudeCleansUp, Clock
<1>5. CASE StartRetention
  <2>1. run'.now = today /\ UNCHANGED <<today, lastRun, day>>
    BY <1>5, RunSteps DEF StartRetention
  <2> QED  BY <1>0, <2>1 DEF Clock
<1>6. CASE RetentionStep /\ ~FileVanished /\ ~SaveMarks
  <2>1. run'.now = run.now
    BY <1>6, RunSteps, LookAt DEF RetentionStep, Keeps, KeepsFile
  <2>2. run.pc # "off" /\ UNCHANGED <<today, lastRun, day>>
    BY <1>6 DEF RetentionStep, Look, LookAtJob, ReadRows, MarkRows, TurnToJobs, TurnToRollouts,
                RemoveFile, ReadHistory, TrimHistory, Go
  <2> QED  BY <2>1, <2>2 DEF Clock
<1>7. CASE FileVanished \/ KillRetention
  <2>1. run' = NoRetention /\ UNCHANGED <<today, lastRun, day>>
    BY <1>7 DEF FileVanished, KillRetention, Go
  <2> QED  BY <2>1, NoRunForm DEF Clock
<1>8. CASE SaveMarks
  <2>1. run' = NoRetention /\ lastRun' = run.now /\ UNCHANGED <<today, day>> /\ run.pc # "off"
    BY <1>8 DEF SaveMarks
  <2> QED  BY <1>0, <2>1, NoRunForm DEF Clock
<1> QED  BY <1>1, <1>2, <1>3, <1>4, <1>5, <1>6, <1>7, <1>8 DEF RetentionNext

(* Rows that can be read stay readable. *)
LEMMA UptoKept ==
  ASSUME RetentionForm, InPhase, RetentionNext, NEW f, NEW n, Upto(f, n)
  PROVE  Upto(f, n)'
BY Grows DEF Upto

(* Marks: a run that starts takes the saved ones, each file is marked at   *)
(* the time it was looked at, not read, and the saved ones are those of a  *)
(* run that got to its end.                                                *)
LEMMA MarksKept ==
  ASSUME RetentionForm, InPhase, MarksInv, [RetentionNext]_retentionVars
  PROVE  MarksInv'
<1>0. /\ rows \in [File -> Nat] /\ rows' \in [File -> Nat] /\ saved \in [File -> Nat] /\ run \in Run
      /\ there \subseteq File /\ run.marks \in [File -> Nat] /\ run.seen \in Nat
  BY RetentionFormKept DEF RetentionForm, Run
<1>1. CASE UNCHANGED retentionVars
  BY <1>1 DEF retentionVars, MarksInv, Upto
<1>2. CASE RetentionNext
  <2>0. \A f \in File : rows[f] <= rows'[f]
    BY <1>2, Grows
  <2>00. \A f, n : Upto(f, n) => Upto(f, n)'
    BY <1>2, UptoKept
  <2>1. \A f \in File : saved'[f] <= rows'[f] /\ Upto(f, saved[f])'
    <3>1. CASE saved' = saved
      <4>1. ASSUME NEW f \in File  PROVE saved'[f] <= rows'[f] /\ Upto(f, saved[f])'
        <5>1. saved[f] <= rows[f] /\ Upto(f, saved[f])
          BY DEF MarksInv
        <5>2. PICK n : n = saved[f]
          OBVIOUS
        <5>3. saved'[f] = n /\ Upto(f, n)'
          BY <2>00, <3>1, <5>1, <5>2
        <5>4. saved'[f] <= rows'[f]
          BY <1>0, <2>0, <3>1, <5>1
        <5> QED  BY <5>3, <5>4 DEF Upto
      <4> QED  BY <4>1
    <3>2. CASE SaveMarks
      <4>1. ASSUME NEW f \in File  PROVE saved'[f] <= rows'[f] /\ Upto(f, saved[f])'
        <5>1. run.marks[f] <= rows[f] /\ Upto(f, run.marks[f])
          BY DEF MarksInv
        <5>2. PICK n : n = run.marks[f]
          OBVIOUS
        <5>3. saved'[f] = n \/ saved'[f] = 0
          BY <3>2, <5>2 DEF SaveMarks
        <5>4. Upto(f, n)'
          BY <2>00, <5>1, <5>2
        <5>5. n \in Nat /\ n <= rows'[f] /\ rows'[f] \in Nat
          BY <1>0, <2>0, <5>1, <5>2
        <5> QED  BY <5>3, <5>4, <5>5 DEF Upto
      <4> QED  BY <4>1
    <3> QED  BY <1>2, <3>1, <3>2
             DEF RetentionNext, RetentionStep, Tick, AgentWritesRow, ClaudeCleansUp, AgentPrompts,
                 StartRetention, KillRetention, Look, LookAtJob, ReadRows, MarkRows, FileVanished,
                 TurnToJobs, TurnToRollouts, RemoveFile, ReadHistory, TrimHistory, Go
  <2>2. \A f \in File : run'.marks[f] <= rows'[f] /\ Upto(f, run.marks[f])'
    <3>1. \A f \in File : \/ run'.marks[f] = run.marks[f]
                          \/ run'.marks[f] = saved[f]
                          \/ run'.marks[f] = 0
                          \/ MarkRows /\ f = run.f /\ run'.marks[f] = run.seen
      <4>1. CASE Elsewhere
        BY <4>1, ElsewhereLeavesRun
      <4>2. CASE StartRetention
        BY <4>2, RunSteps
      <4>3. CASE RetentionStep /\ ~MarkRows /\ ~FileVanished /\ ~SaveMarks
        <5>1. run'.marks = run.marks
          BY <4>3, RunSteps, LookAt DEF RetentionStep, Keeps, KeepsFile
        <5> QED  BY <5>1
      <4>4. CASE MarkRows
        <5>1. run'.marks = [run.marks EXCEPT ![run.f] = run.seen]
          BY <4>4, RunSteps
        <5> QED  BY <1>0, <4>4, <5>1
      <4>5. CASE FileVanished \/ SaveMarks \/ KillRetention
        <5>1. run' = NoRetention
          BY <4>5 DEF FileVanished, SaveMarks, KillRetention, Go
        <5> QED  BY <5>1, NoRunForm
      <4> QED  BY <1>2, <4>1, <4>2, <4>3, <4>4, <4>5 DEF RetentionNext, Elsewhere
    <3>2. ASSUME NEW f \in File  PROVE run'.marks[f] <= rows'[f] /\ Upto(f, run.marks[f])'
      <4>1. PICK n : n = run'.marks[f]
        OBVIOUS
      <4>2. n \in Nat /\ n <= rows[f] /\ Upto(f, n)
        <5>1. CASE n = run.marks[f] \/ n = saved[f]
          BY <1>0, <5>1 DEF MarksInv
        <5>2. CASE n = 0
          BY <1>0, <5>2 DEF Upto
        <5>3. CASE MarkRows /\ f = run.f /\ n = run.seen
          BY <1>0, <5>3 DEF MarksInv, MarkRows
        <5> QED  BY <3>1, <4>1, <5>1, <5>2, <5>3
      <4>3. Upto(f, n)' /\ n <= rows'[f]
        BY <1>0, <2>0, <2>00, <4>2
      <4> QED  BY <4>1, <4>3 DEF Upto
    <3> QED  BY <3>2
  <2>3. /\ run'.pc \in {"readcodex", "readclaude", "markcodex", "markclaude"} => run'.seen <= rows'[run'.f]
        /\ run'.pc \in {"markcodex", "markclaude"} => Upto(run.f, run.seen)'
    <3>1. CASE \E f \in File : Look(f)
      <4>1. PICK f \in File : Look(f)
        BY <3>1
      <4>2. run'.pc \in {"readcodex", "readclaude"} => run'.f = f /\ run'.seen = rows[f]
        BY <4>1, LookAt
      <4>3. run'.pc \notin {"markcodex", "markclaude"}
        BY <4>1, LookAt
      <4> QED  BY <1>0, <2>0, <4>2, <4>3
    <3>2. CASE ReadRows
      <4>1. /\ run'.f = run.f /\ run'.seen = run.seen /\ rows' = rows /\ run.f \in File
            /\ run.seen <= rows[run.f]
        BY <1>0, <3>2, RunSteps DEF ReadRows, KeepsFile, MarksInv
      <4>2. \A k \in 1..rows[run.f] : <<run.f, k>> \in ledger' \cup glued'
        BY <1>0, <3>2, <4>1, AppendedGrows DEF ReadRows, RetentionForm
      <4> QED  BY <1>0, <4>1, <4>2 DEF Upto
    <3>3. CASE Elsewhere
      <4>1. run' = run /\ UNCHANGED <<ledger, glued>>
        BY <3>3, ElsewhereLeavesRun
      <4>2. run.pc \in {"readcodex", "readclaude", "markcodex", "markclaude"} => run.f \in File
        BY DEF InPhase, File
      <4> QED  BY <1>0, <2>0, <4>1, <4>2 DEF MarksInv, Upto
    <3>4. CASE StartRetention \/ MarkRows \/ TurnToJobs \/ TurnToRollouts \/ RemoveFile \/ ReadHistory
               \/ TrimHistory \/ \E f \in File : LookAtJob(f)
      <4>1. run'.pc \notin {"readcodex", "readclaude", "markcodex", "markclaude"}
        BY <3>4, RunSteps
      <4> QED  BY <4>1
    <3>5. CASE FileVanished \/ SaveMarks \/ KillRetention
      <4>1. run' = NoRetention
        BY <3>5 DEF FileVanished, SaveMarks, KillRetention, Go
      <4> QED  BY <4>1, NoRunForm
    <3> QED  BY <1>2, <3>1, <3>2, <3>3, <3>4, <3>5 DEF RetentionNext, RetentionStep, Elsewhere
  <2> QED  BY <2>1, <2>2, <2>3 DEF MarksInv
<1> QED  BY <1>1, <1>2

(* What is safe stays so: an agent that writes to a file that is about to  *)
(* go writes a late row.                                                   *)
LEMMA SafeKept ==
  ASSUME RetentionForm, InPhase, RetentionNext, NEW f \in File, Safe(f),
         AgentWritesRow(f) => run.pc \in {"markcodex", "remove", "removejob"} /\ run.f = f
  PROVE  Safe(f)'
<1>0. rows \in [File -> Nat] /\ rows' \in [File -> Nat]
  BY RetentionFormKept DEF RetentionForm
<1>1. ledger \subseteq ledger' /\ glued \subseteq glued' /\ late \subseteq late'
  BY Grows
<1>2. CASE AgentWritesRow(f)
  <2>1. rows'[f] = rows[f] + 1 /\ <<f, rows[f] + 1>> \in late'
    BY <1>0, <1>2 DEF AgentWritesRow
  <2>2. ASSUME NEW k \in 1..rows'[f]  PROVE <<f, k>> \in ledger' \cup late' \cup glued'
    <3>1. k \in 1..rows[f] \/ k = rows[f] + 1
      BY <1>0, <2>1
    <3> QED  BY <1>1, <2>1, <3>1 DEF Safe
  <2> QED  BY <2>2 DEF Safe
<1>3. CASE ~AgentWritesRow(f)
  <2>1. rows'[f] = rows[f]
    BY <1>0, <1>3, Grows DEF Elsewhere, Tick, AgentPrompts, AgentWritesRow, ClaudeCleansUp
  <2> QED  BY <1>1, <2>1 DEF Safe
<1> QED  BY <1>2, <1>3

(* What is removed is archived first: a rollout up to the run's last look, *)
(* a job by the first pass over Claude's files.                            *)
LEMMA RemovalKept ==
  ASSUME RetentionForm, InPhase, Clock, LedgerInv, [RetentionNext]_retentionVars
  PROVE  RemovalInv'
<1>0. /\ rows \in [File -> Nat] /\ day \in [File -> Nat] /\ run \in Run /\ there \subseteq File
      /\ CutoffEarly \in Nat /\ CutoffLate = CutoffEarly + Ahead /\ Ahead \in Nat /\ run.now \in Nat
      /\ Rollouts \subseteq File /\ Jobs \subseteq File
  BY Cutoffs DEF RetentionForm, Run, File
<1>1. CASE UNCHANGED retentionVars
  BY <1>1 DEF retentionVars, LedgerInv, RemovalInv, Safe
<1>2. CASE Elsewhere
  <2>1. run' = run
    BY <1>2, ElsewhereLeavesRun
  <2>2. ASSUME run.pc \in {"markcodex", "remove", "removejob"}  PROVE Safe(run.f)'
    <3>1. PICK f \in File : f = run.f
      BY <1>0, <2>2 DEF InPhase
    <3>2. Safe(f)
      BY <2>2, <3>1 DEF LedgerInv, RemovalInv
    <3>3. RetentionNext
      BY <1>2 DEF Elsewhere, RetentionNext
    <3>4. Safe(f)'
      BY <2>2, <3>1, <3>2, <3>3, SafeKept
    <3> QED  BY <2>1, <3>1, <3>4 DEF Safe
  <2> QED  BY <2>1, <2>2 DEF RemovalInv
<1>3. ASSUME NEW f \in File, Look(f)  PROVE RemovalInv'
  <2>1. run'.pc \in {"markcodex", "remove", "removejob"} => run.marks[f] = rows[f] /\ run'.f = f
    BY <1>3, LookAt
  <2>2. run.marks[f] = rows[f] => Safe(f)
    <3>1. Upto(f, run.marks[f])
      BY DEF LedgerInv, MarksInv
    <3> QED  BY <3>1 DEF Safe, Upto
  <2>3. UNCHANGED <<rows, ledger, late, glued>>
    BY <1>3, LookAt
  <2> QED  BY <2>1, <2>2, <2>3 DEF RemovalInv, Safe
<1>4. ASSUME NEW f \in File, LookAtJob(f)  PROVE RemovalInv'
  <2>1. UNCHANGED <<rows, ledger, late, glued>> /\ run.pc = "jobs" /\ f \in run.left
    BY <1>4 DEF LookAtJob, Go
  <2>2. run'.f = f /\ (run'.pc = "removejob" => Older(day[f], CutoffLate, run.now))
    BY <1>4, RunSteps
  <2>3. run'.pc \in {"removejob", "jobs"}
    BY <1>4, RunSteps
  <2>4. f \in Jobs
    BY <2>1 DEF InPhase
  <2>5. ASSUME Older(day[f], CutoffLate, run.now)  PROVE Safe(f)
    <3>1. Older(day[f], CutoffEarly, run.now)
      BY <1>0, <2>5 DEF Older
    <3>2. CASE f \in there
      <4>1. Archived(f)
        BY <2>1, <2>4, <3>1, <3>2 DEF LedgerInv, EarlyInv, Behind, Claudes
      <4> QED  BY <4>1 DEF Archived, Upto, Safe
    <3>3. CASE f \notin there
      BY <3>3 DEF LedgerInv, Survival
    <3> QED  BY <3>2, <3>3
  <2> QED  BY <2>1, <2>2, <2>3, <2>5 DEF RemovalInv, Safe
<1>5. CASE ReadRows
  <2>1. run.f \in File /\ UNCHANGED <<rows, late>>
    BY <1>0, <1>5 DEF ReadRows
  <2>2. \A k \in 1..rows[run.f] : <<run.f, k>> \in ledger' \cup glued'
    BY <1>0, <1>5, <2>1, AppendedGrows DEF ReadRows, RetentionForm
  <2>3. run'.f = run.f
    BY <1>5, RunSteps DEF KeepsFile
  <2> QED  BY <2>1, <2>2, <2>3 DEF RemovalInv, Safe
<1>6. CASE MarkRows
  <2>1. UNCHANGED <<rows, ledger, late, glued>> /\ run.pc \in {"markcodex", "markclaude"}
    BY <1>6 DEF MarkRows, Go
  <2>2. run'.f = run.f /\ run'.pc = IF run.pc = "markcodex" THEN "remove" ELSE "claude"
    BY <1>6, RunSteps
  <2> QED  BY <2>1, <2>2 DEF LedgerInv, RemovalInv, Safe
<1>7. CASE StartRetention \/ TurnToJobs \/ TurnToRollouts \/ RemoveFile \/ ReadHistory \/ TrimHistory
  <2>1. run'.pc \notin {"markcodex", "remove", "removejob"}
    BY <1>7, RunSteps
  <2> QED  BY <2>1 DEF RemovalInv
<1>8. CASE FileVanished \/ SaveMarks \/ KillRetention
  <2>1. run' = NoRetention
    BY <1>8 DEF FileVanished, SaveMarks, KillRetention, Go
  <2> QED  BY <2>1, NoRunForm DEF RemovalInv
<1> QED  BY <1>1, <1>2, <1>3, <1>4, <1>5, <1>6, <1>7, <1>8 DEF RetentionNext, RetentionStep, Elsewhere

(* What goes was safe: the run removes what it archived, and Claude what   *)
(* the last run archived early.                                            *)
LEMMA SurvivalKept ==
  ASSUME RetentionForm, InPhase, Clock, LedgerInv, [RetentionNext]_retentionVars
  PROVE  Survival'
<1>0. /\ rows \in [File -> Nat] /\ day \in [File -> Nat] /\ there \subseteq File /\ there' \subseteq File
      /\ CutoffEarly \in Nat /\ Days = CutoffEarly + Ahead /\ Ahead \in Nat /\ today \in Nat /\ lastRun \in Nat
  BY Cutoffs, RetentionFormKept DEF RetentionForm
<1>1. CASE UNCHANGED retentionVars
  BY <1>1 DEF retentionVars, LedgerInv, Survival, Safe
<1>2. ASSUME RetentionNext, NEW f \in File \ there  PROVE Safe(f)'
  <2>1. Safe(f)
    BY DEF LedgerInv, Survival
  <2>2. ~AgentWritesRow(f)
    BY <1>2 DEF AgentWritesRow
  <2> QED  BY <1>2, <2>1, <2>2, SafeKept
<1>3. ASSUME NEW f \in File, ClaudeCleansUp(f)  PROVE Safe(f) /\ f \in there /\ there' = there \ {f}
  <2>1. f \in there \cap Transcripts /\ Older(day[f], Days, today) /\ there' = there \ {f}
    BY <1>3 DEF ClaudeCleansUp
  <2>2. Older(day[f], CutoffEarly, lastRun)
    BY <1>0, <2>1 DEF Older, Clock
  <2>3. Archived(f)
    BY <2>1, <2>2 DEF LedgerInv, EarlyInv
  <2> QED  BY <2>1, <2>3 DEF Archived, Upto, Safe
<1>4. ASSUME RetentionNext, NEW f \in there, f \notin there'  PROVE Safe(f)'
  <2>1. ClaudeCleansUp(f) \/ (RemoveFile /\ f = run.f)
    BY <1>4 DEF RetentionNext, RetentionStep, Tick, AgentWritesRow, ClaudeCleansUp, AgentPrompts,
                StartRetention, KillRetention, Look, LookAtJob, ReadRows, MarkRows, FileVanished,
                TurnToJobs, TurnToRollouts, RemoveFile, ReadHistory, TrimHistory, SaveMarks, Go
  <2>2. Safe(f) /\ UNCHANGED <<rows, ledger, late, glued>>
    <3>1. CASE ClaudeCleansUp(f)
      BY <1>0, <1>3, <3>1 DEF ClaudeCleansUp
    <3>2. CASE RemoveFile /\ f = run.f
      BY <3>2 DEF RemoveFile, LedgerInv, RemovalInv
    <3> QED  BY <2>1, <3>1, <3>2
  <2> QED  BY <2>2 DEF Safe
<1> QED  BY <1>0, <1>1, <1>2, <1>4 DEF Survival

(* A row that an agent writes makes its file young again. *)
LEMMA OldStaysArchived ==
  ASSUME RetentionForm, InPhase, Clock, RetentionNext, NEW f \in File, NEW now \in Nat,
         now <= today, Older(day[f], CutoffEarly, now)'
  PROVE  Older(day[f], CutoffEarly, now) /\ rows'[f] = rows[f] /\ (Archived(f) => Archived(f)')
<1>0. /\ rows \in [File -> Nat] /\ day \in [File -> Nat] /\ today \in Nat /\ CutoffEarly \in Nat
  BY Cutoffs DEF RetentionForm
<1>1. ~AgentWritesRow(f)
  <2>1. CASE AgentWritesRow(f)
    <3>1. day'[f] = today
      BY <1>0, <2>1 DEF AgentWritesRow
    <3>2. day'[f] + CutoffEarly < now
      BY DEF Older, CutoffEarly
    <3> QED  BY <1>0, <3>1, <3>2
  <2> QED  BY <2>1
<1>2. rows'[f] = rows[f] /\ day'[f] = day[f]
  BY <1>0, <1>1, Grows DEF Elsewhere, Tick, AgentPrompts, AgentWritesRow, ClaudeCleansUp
<1>3. Archived(f) => Archived(f)'
  BY <1>2, Grows DEF Archived, Upto
<1> QED  BY <1>2, <1>3 DEF Older, CutoffEarly

(* The run leaves no old file of Claude's behind it that is not archived,  *)
(* though agents write and Claude deletes between its steps.               *)
LEMMA EarlyKept ==
  ASSUME RetentionForm, InPhase, Clock, LedgerInv, [RetentionNext]_retentionVars
  PROVE  EarlyInv'
<1> DEFINE Mine == Transcripts \cup Jobs
<1>0. /\ rows \in [File -> Nat] /\ day \in [File -> Nat] /\ run \in Run /\ there \subseteq File
      /\ CutoffEarly \in Nat /\ run.now \in Nat /\ lastRun \in Nat /\ Mine \subseteq File
      /\ Transcripts \subseteq File
  BY Cutoffs DEF RetentionForm, Run, File
<1>1. CASE UNCHANGED retentionVars
  BY <1>1 DEF retentionVars, LedgerInv, EarlyInv, Behind, Archived, Upto, Older, CutoffEarly
<1>2. ASSUME RetentionNext
      PROVE  \A f \in Transcripts \cap there' : Older(day[f], CutoffEarly, lastRun)' => Archived(f)'
  <2>0. there' \subseteq there
    BY <1>2, Grows
  <2>1. CASE lastRun' = lastRun
    <3>1. ASSUME NEW f \in Transcripts \cap there', Older(day[f], CutoffEarly, lastRun)'
          PROVE  Archived(f)'
      <4>1. PICK now \in Nat : now = lastRun
        BY <1>0
      <4>2. Older(day[f], CutoffEarly, now)' /\ now <= today /\ f \in File
        BY <1>0, <2>1, <3>1, <4>1 DEF Older, CutoffEarly, Clock
      <4>3. Older(day[f], CutoffEarly, now) /\ (Archived(f) => Archived(f)')
        BY <1>2, <4>2, OldStaysArchived
      <4>4. Archived(f)
        BY <2>0, <4>1, <4>3 DEF LedgerInv, EarlyInv
      <4> QED  BY <4>3, <4>4
    <3> QED  BY <3>1
  <2>2. CASE SaveMarks
    <3>1. run.pc = "save" /\ lastRun' = run.now /\ UNCHANGED <<there, day, rows, ledger, glued>>
      BY <2>2 DEF SaveMarks
    <3>2. \A f \in Transcripts \cap there : Older(day[f], CutoffEarly, run.now) => Archived(f)
      BY <3>1 DEF LedgerInv, EarlyInv, Behind, Claudes
    <3> QED  BY <3>1, <3>2 DEF Older, CutoffEarly, Archived, Upto
  <2> QED  BY <1>2, <2>1, <2>2
           DEF RetentionNext, RetentionStep, Tick, AgentWritesRow, ClaudeCleansUp, AgentPrompts,
               StartRetention, KillRetention, Look, LookAtJob, ReadRows, MarkRows, FileVanished,
               TurnToJobs, TurnToRollouts, RemoveFile, ReadHistory, TrimHistory, Go
<1>3. ASSUME RetentionNext, run'.pc # "off", NEW f \in Mine \cap there', Older(day[f], CutoffEarly, run.now)'
      PROVE  Archived(f)' \/ Behind(f)'
  <2>0. f \in File /\ f \in there /\ f \in Mine
    BY <1>0, <1>3, Grows
  <2>1. CASE StartRetention
    <3>1. run'.pc = "claude" /\ run'.left = Mine \cap there
      BY <2>1, RunSteps
    <3> QED  BY <2>0, <3>1 DEF Behind, Claudes
  <2>2. CASE ~StartRetention
    <3>1. run.pc # "off" /\ run'.now = run.now
      <4>1. CASE Elsewhere
        BY <1>3, <4>1, ElsewhereLeavesRun
      <4>2. CASE RetentionStep /\ ~FileVanished /\ ~SaveMarks
        <5>1. run'.now = run.now
          BY <4>2, RunSteps, LookAt DEF RetentionStep, Keeps, KeepsFile
        <5>2. run.pc # "off"
          BY <4>2 DEF RetentionStep, Look, LookAtJob, ReadRows, MarkRows, TurnToJobs, TurnToRollouts,
                      RemoveFile, ReadHistory, TrimHistory
        <5> QED  BY <5>1, <5>2
      <4>3. ~FileVanished /\ ~SaveMarks /\ ~KillRetention
        BY <1>3, NoRunForm DEF FileVanished, SaveMarks, KillRetention, Go
      <4> QED  BY <1>3, <2>2, <4>1, <4>2, <4>3 DEF RetentionNext, Elsewhere
    <3>2. PICK now \in Nat : now = run.now
      BY <1>0
    <3>3. Older(day[f], CutoffEarly, now)' /\ now <= today
      BY <1>3, <3>1, <3>2 DEF Older, CutoffEarly, Clock
    <3>4. /\ Older(day[f], CutoffEarly, run.now) /\ rows'[f] = rows[f]
          /\ Archived(f) => Archived(f)'
      BY <1>3, <2>0, <3>2, <3>3, OldStaysArchived
    <3>5. CASE Archived(f)
      BY <3>4, <3>5
    <3>6. CASE ~Archived(f)
      <4>0. Behind(f)
        BY <2>0, <3>1, <3>4, <3>6 DEF LedgerInv, EarlyInv
      <4>1. CASE Elsewhere
        BY <4>0, <4>1, ElsewhereLeavesRun DEF Behind
      <4>2. ASSUME NEW g \in File, Look(g)  PROVE Archived(f)' \/ Behind(f)'
        <5>0. run.pc \in {"claude", "codex"} /\ run'.left = run.left \ {g}
          BY <4>2, LookAt
        <5>1. run.pc = "claude" /\ f \in run.left
          BY <4>0, <5>0 DEF Behind, Claudes
        <5>2. CASE f # g
          <6>1. run'.pc \in {"claude", "readclaude"}
            BY <4>2, <5>1, LookAt
          <6> QED  BY <5>0, <5>1, <5>2, <6>1 DEF Behind, Claudes
        <5>3. CASE f = g
          <6>1. \/ run.marks[f] = rows[f]
                \/ run'.f = f /\ run'.pc = "readclaude"
            BY <2>0, <3>4, <4>2, <5>1, <5>3, LookAt
          <6>2. run.marks[f] # rows[f]
            <7>1. Upto(f, run.marks[f])
              BY <2>0 DEF LedgerInv, MarksInv
            <7> QED  BY <3>6, <7>1 DEF Archived, Upto
          <6> QED  BY <6>1, <6>2 DEF Behind
        <5> QED  BY <5>2, <5>3
      <4>3. CASE ReadRows
        <5>0. KeepsFile /\ run'.left = run.left /\ run.pc \in {"readcodex", "readclaude"}
          BY <4>3, RunSteps DEF ReadRows
        <5>1. run.pc = "readclaude" /\ run'.pc = "markclaude"
          BY <4>0, <4>3, <5>0, RunSteps DEF Behind, Claudes
        <5>2. CASE f \in run.left
          BY <5>0, <5>1, <5>2 DEF Behind, Claudes
        <5>3. CASE f = run.f
          <6>1. \A k \in 1..rows[f] : <<f, k>> \in ledger' \cup glued'
            BY <1>0, <2>0, <4>3, <5>3, AppendedGrows DEF ReadRows, RetentionForm
          <6> QED  BY <3>4, <6>1 DEF Archived, Upto
        <5> QED  BY <4>0, <5>2, <5>3 DEF Behind
      <4>4. CASE MarkRows
        <5>1. run.pc = "markclaude" /\ f \in run.left
          BY <4>0, <4>4 DEF MarkRows, Behind, Claudes
        <5>2. run'.pc = "claude" /\ run'.left = run.left
          BY <4>4, <5>1, RunSteps
        <5> QED  BY <5>1, <5>2 DEF Behind, Claudes
      <4>5. run.pc \in Claudes /\ (f \in run.left \/ run.pc = "readclaude")
        BY <4>0 DEF Behind, Claudes
      <4>6. ~TurnToJobs /\ ~TurnToRollouts /\ ~RemoveFile /\ ~ReadHistory /\ ~TrimHistory
            /\ ~SaveMarks /\ \A g \in File : ~LookAtJob(g)
        BY <4>5 DEF TurnToJobs, TurnToRollouts, RemoveFile, ReadHistory, TrimHistory, SaveMarks,
                    LookAtJob, Claudes
      <4>7. ~FileVanished /\ ~KillRetention
        BY <1>3, NoRunForm DEF FileVanished, KillRetention, Go
      <4> QED  BY <1>3, <2>2, <4>1, <4>2, <4>3, <4>4, <4>6, <4>7 DEF RetentionNext, RetentionStep, Elsewhere
    <3> QED  BY <3>5, <3>6
  <2> QED  BY <2>1, <2>2
<1> QED  BY <1>1, <1>2, <1>3 DEF EarlyInv

(* What retention begins with. *)
LEMMA RetentionInitInv ==
  ASSUME NEW limits \in Limits, RetentionInit(limits)
  PROVE  RetentionInv
<1>0. limits \in [days : Nat, writes : Nat, prompts : Nat, runs : Nat, kills : Nat]
  BY LimitsAssumption
<1>1. RetentionForm
  BY <1>0, NoRunForm DEF RetentionInit, RetentionForm
<1>2. InPhase
  BY NoRunForm DEF RetentionInit, InPhase, Claudes, Codexes
<1>3. Clock
  BY NoRunForm, Cutoffs DEF RetentionInit, Clock
<1>4. MarksInv
  BY NoRunForm DEF RetentionInit, MarksInv, Upto
<1>5. RemovalInv /\ Survival
  BY NoRunForm DEF RetentionInit, RemovalInv, Survival
<1>6. EarlyInv
  <2>1. \A f \in File : ~Older(day[f], CutoffEarly, lastRun)
    BY Cutoffs DEF RetentionInit, Older
  <2> QED  BY <2>1, NoRunForm DEF RetentionInit, EarlyInv, File
<1> QED  BY <1>1, <1>2, <1>3, <1>4, <1>5, <1>6 DEF RetentionInv, LedgerInv

(* No step breaks what the ledger promises. *)
LEMMA RetentionKept ==
  ASSUME RetentionInv, [RetentionNext]_retentionVars
  PROVE  RetentionInv'
BY RetentionFormKept, InPhaseKept, ClockKept, MarksKept, RemovalKept, EarlyKept, SurvivalKept
   DEF RetentionInv, LedgerInv

(* A prompt that leaves the history was read, and is over its age.         *)
LEMMA TrimStep ==
  ASSUME RetentionInv, [RetentionNext]_retentionVars, NEW h \in history \ history'
  PROVE  Older(h[1], Days, today) \/ h \notin run.lines
<1>0. /\ today \in Nat /\ run.now \in Nat /\ history \subseteq Nat \X Nat /\ run.lines \subseteq Nat \X Nat
      /\ CutoffLate = Days /\ Days \in Nat
  BY Cutoffs DEF RetentionInv, RetentionForm, Run
<1>1. TrimHistory
  <2>1. history' # history /\ ~(history \subseteq history')
    OBVIOUS
  <2> QED  BY <2>1 DEF retentionVars, RetentionNext, RetentionStep, Tick, AgentWritesRow, ClaudeCleansUp,
              AgentPrompts, StartRetention, KillRetention, Look, LookAtJob, ReadRows, MarkRows,
              FileVanished, TurnToJobs, TurnToRollouts, RemoveFile, ReadHistory, SaveMarks, Go
<1>2. h \in run.lines => Older(h[1], CutoffLate, run.now)
  BY <1>1 DEF TrimHistory, KeptLines
<1>3. run.now <= today
  BY <1>1 DEF TrimHistory, RetentionInv, Clock
<1>4. h[1] \in Nat
  BY <1>0
<1> QED  BY <1>0, <1>2, <1>3, <1>4 DEF Older
-----------------------------------------------------------------------------
(* The files an activation begins with, and the user's texts in them.      *)
LEMMA MarkdownInit ==
  ASSUME FileInit
  PROVE  MarkdownInv
<1>1. PICK s \in Scenarios : kind = s.kind /\ jobs \in s.jobs /\ file \in s.files /\ left = s.left
  BY DEF FileInit
<1>2. kind = "markdown" => file \in Contents
  BY <1>1, ScenariosAssumption DEF Contents
<1>3. onDisk = {file} /\ kept = TextsOf(file)
  BY DEF FileInit
<1>4. \A a \in Activation : act[a].pc = "off" /\ ~act[a].orphan
  BY DEF FileInit, Fresh
<1>5. MarkInv
  BY <1>2, <1>3, <1>4 DEF MarkInv, Making
<1>6. KeptInv
  BY <1>3, <1>4 DEF KeptInv, TextsOf, UserTexts
<1>7. AloneInv
  BY <1>4 DEF AloneInv, Stand
<1> QED  BY <1>5, <1>6, <1>7 DEF MarkdownInv

LEMMA MarkdownKept ==
  ASSUME FileInv, MarkdownInv, [FileNext]_fileVars
  PROVE  MarkdownInv'
BY MarkKept, KeptKept, AloneKept DEF MarkdownInv

(* Every step keeps the two halves of a home directory.                    *)
LEMMA Inductive ==
  /\ Init => IInv
  /\ IInv /\ [Next]_homeVars => IInv' /\ [FileNext]_fileVars /\ [RetentionNext]_retentionVars
<1>1. Init => IInv
  BY FileInitInv, MarkdownInit, ParsedInit, RetentionInitInv DEF Init, IInv
<1>2. ASSUME IInv, [Next]_homeVars
      PROVE  IInv' /\ [FileNext]_fileVars /\ [RetentionNext]_retentionVars
  <2>1. [FileNext]_fileVars /\ [RetentionNext]_retentionVars
    BY <1>2 DEF Next, homeVars
  <2>2. FileInv' /\ MarkdownInv' /\ ParsedInv' /\ RetentionInv'
    BY <1>2, <2>1, FormKept, DiskKept, MarkdownKept, ParsedKept, RetentionKept DEF IInv, FileInv
  <2> QED  BY <2>1, <2>2 DEF IInv
<1> QED  BY <1>1, <1>2

(* The inductive invariant holds of every behaviour. *)
LEMMA Invariant == Spec => []IInv
<1>1. IInv /\ [Next]_homeVars => IInv'
  BY Inductive
<1>2. Init => IInv
  BY Inductive
<1> QED  BY <1>1, <1>2, PTL DEF Spec

(* Whoever holds the lock is at work behind it, through kills and power    *)
(* cuts, and a run is in the phase its files belong to (merge_file, main). *)
THEOREM TypeCorrect == Spec => []TypeOK
<1>1. IInv => TypeOK
  <2>1. IInv => FileTypeOK
    BY DEF IInv, FileInv, FileForm
  <2>2. ASSUME IInv  PROVE RetentionTypeOK
    <3>1. RetentionForm /\ InPhase /\ \A f \in File : saved[f] <= rows[f]
      BY <2>2 DEF IInv, RetentionInv, LedgerInv, MarksInv
    <3>2. run.pc \in Phase
      BY <3>1 DEF RetentionForm, Run
    <3> QED  BY <3>1, <3>2 DEF RetentionForm, InPhase, RetentionTypeOK, Phase, Claudes, Codexes
  <2> QED  BY <2>1, <2>2 DEF TypeOK
<1> QED  BY <1>1, Invariant, PTL

(* What a user or an agent writes next to the managed blocks stays in the  *)
(* file, through merges, edits, kills and power cuts, but for what the     *)
(* property names (merge_file, merge_text).                                *)
THEOREM FilesStaySound == Spec => []FilesSound
<1>1. ASSUME IInv  PROVE UsersTextStays
  <2>1. KeptInv
    BY <1>1 DEF IInv, MarkdownInv
  <2>2. CASE kind = "markdown"
    <3>1. TextsOf(file) = UserTexts(jobs, file)
      BY <2>2 DEF TextsOf, UserTexts
    <3> QED  BY <2>1, <2>2, <3>1 DEF KeptInv, UsersTextStays
  <2>3. CASE kind # "markdown"
    BY <2>1, <2>3 DEF KeptInv, UsersTextStays
  <2> QED  BY <2>2, <2>3
<1>2. Spec => []TypeOK
  BY TypeCorrect
<1> QED  BY <1>1, <1>2, Invariant, PTL DEF FilesSound

(* An activation that nobody wrote beside leaves each block once and of    *)
(* its own generation, no retired one and the user's texts in their order, *)
(* and another of its generation would write nothing (merge_text).         *)
THEOREM MarkdownStaysRight == Spec => []MarkdownRight
<1>1. ASSUME IInv  PROVE MarkdownRight
  <2> SUFFICES ASSUME NEW a \in Activation, kind = "markdown", Finished(a),
                      WellFormed(act[a].found, Range(jobs))
               PROVE  /\ \A name \in Range(jobs) \ {Retirement} : BlockRight(file, name, a)
                      /\ Retirement \in Range(jobs) => Places(file, Begin(Retirement)) = {}
                      /\ Outside(file, Range(jobs)) = Outside(act[a].found, Range(jobs))
                      /\ Settled(a)
    BY DEF MarkdownRight, BlockRight
  <2>1. file \in Seq(Marks) /\ DoneBy(jobs, a, act[a].found, file, Len(jobs))
    BY <1>1 DEF IInv, MarkdownInv, AloneInv, Stand, Finished
  <2>2. jobs \in Seq(STRING) /\ a \in Generation
    BY <1>1, ActivationAssumption DEF IInv, FileInv, FileForm
  <2>3. ASSUME NEW name \in Range(jobs)
        PROVE  name \in STRING /\ JobDone(file, name, a)
    <3>1. PICK j \in DOMAIN jobs : name = jobs[j]
      BY DEF Range
    <3>2. j \in 1..Len(jobs) /\ jobs[j] \in STRING
      BY <2>2
    <3> QED  BY <2>1, <3>1, <3>2 DEF DoneBy
  <2>4. WellFormed(file, Range(jobs)) /\ Outside(file, Range(jobs)) = Outside(act[a].found, Range(jobs))
    BY <2>1 DEF DoneBy
  <2>5. ASSUME NEW name \in Range(jobs)  PROVE Merge(name, a, file) = file
    <3>1. Balanced(file, name) /\ InOrder(file, name)
      BY <2>4 DEF WellFormed
    <3>2. MergeMarkdown(name, a, file) = file
      BY <2>1, <2>2, <2>3, <3>1, MergeSettles
    <3>3. file \notin {Symlink, Torn, Refused}
      BY <2>1, OtherContentsAssumption
    <3> QED  BY <3>2, <3>3 DEF Merge
  <2> QED  BY <2>3, <2>4, <2>5 DEF JobDone, Settled
<1> QED  BY <1>1, Invariant, PTL

(* It leaves a file of settings that parses, and another one would write   *)
(* nothing.  Unless lines in a value of the file look like its tables and  *)
(* keys, the managed keys have their values, no retired table is left, and *)
(* every other key is as it was.  In a file of hooks, the handlers that    *)
(* are not ours stay under their matchers and in order, ours is there once *)
(* where an agent waits for an answer, no ping of old is left, and another *)
(* one would write nothing (merge_text, merge_settings, merge_hooks).      *)
THEOREM MergesStayRight == Spec => []MergedRight
<1>1. IInv => TomlRight /\ HooksRight
  BY TomlFollows, HooksFollow DEF IInv
<1>2. IInv => MergedRight
  BY <1>1 DEF MergedRight
<1> QED  BY <1>2, Invariant, PTL

(* No usage is lost with a file that goes, and no mark says more than the  *)
(* ledger holds, however agents write, Claude cleans up and runs are       *)
(* killed: all but rows written after the run's last look, and rows that   *)
(* run into a line a kill has torn (archive, remove, main).                *)
THEOREM UsageIsKept == Spec => []UsageKept
<1>1. ASSUME IInv  PROVE UsageKept
  <2>1. MarksInv /\ Survival /\ there \subseteq File
    BY <1>1 DEF IInv, RetentionInv, LedgerInv, RetentionForm
  <2>2. UsageSurvives
    BY <2>1 DEF UsageSurvives, Survival, Safe, RowsOf
  <2>3. MarkedIsArchived
    BY <2>1 DEF MarkedIsArchived, MarksInv, Upto
  <2> QED  BY <2>2, <2>3 DEF UsageKept
<1> QED  BY <1>1, Invariant, PTL

(* A prompt that leaves the history is older than the limit, or came while *)
(* it was rewritten (trim_history).                                        *)
THEOREM PromptsStay == Spec => RecentPromptsStay
<1>1. IInv /\ [Next]_homeVars =>
        [ \A h \in history \ history' : Older(h[1], Days, today) \/ h \notin run.lines ]_retentionVars
  BY Inductive, TrimStep DEF IInv
<1> QED  BY <1>1, Invariant, PTL DEF Spec, RecentPromptsStay

(* A power cut leaves the file whole, and undoes no merge that returned    *)
(* but one that found its text in place after a merge that was killed      *)
(* between its rename and its sync (merge_file).                           *)
THEOREM PowerCutsSpare == Spec => PowerCutKeepsWhole
<1>1. IInv /\ [Next]_homeVars =>
        [ (left'.kills < left.kills /\ file' # file /\ Cardinality(onDisk) = 1) =>
            /\ onDisk = {file'}
            /\ unsynced \/ \E a \in Activation : act[a].pc = "sync" ]_fileVars
  BY Inductive, PowerCutStep DEF IInv
<1> QED  BY <1>1, Invariant, PTL DEF Spec, PowerCutKeepsWhole
=============================================================================
