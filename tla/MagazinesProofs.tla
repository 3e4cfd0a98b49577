--------------------------- MODULE MagazinesProofs ---------------------------
(***************************************************************************)
(* What Magazines promises for every archive index, offer, assignment of   *)
(* issues to archivers and number of failures.                             *)
(***************************************************************************)
EXTENDS Magazines, SequenceTheorems, WellFoundedInduction, TLAPS

-----------------------------------------------------------------------------
(* Sequences and their members.                                            *)
Below == {p \in Nat \X Nat : p[1] < p[2]}

(* A set of naturals has a least element.                                  *)
LEMMA Smallest ==
  ASSUME NEW T \in SUBSET Nat, T # {}
  PROVE  \E x \in T : \A y \in T : x <= y
<1>1. OpToRel(<, Nat) = Below
  BY DEF OpToRel, Below
<1>2. IsWellFoundedOn(Below, Nat)
  BY <1>1, NatLessThanWellFounded
<1>3. PICK x \in T : \A y \in T : ~(<<y, x>> \in Below)
  BY <1>2, WFMin
<1>4. ASSUME NEW y \in T PROVE x <= y
  <2>1. <<y, x>> \in Nat \X Nat /\ <<y, x>>[1] = y /\ <<y, x>>[2] = x
    OBVIOUS
  <2>2. ~(y < x)
    BY <1>3, <2>1 DEF Below
  <2> QED
    BY <2>2
<1> QED
  BY <1>4

Members(s) == {s[k] : k \in 1..Len(s)}

(* The members of a sequence are its head and those of its tail.           *)
LEMMA TailMembers ==
  ASSUME NEW S, NEW s \in Seq(S), s # <<>>
  PROVE  /\ Head(s) \in Members(s) /\ Tail(s) \in Seq(S)
         /\ Members(s) = {Head(s)} \cup Members(Tail(s))
<1>1. /\ Len(s) \in Nat /\ Len(s) >= 1 /\ Tail(s) \in Seq(S) /\ Len(Tail(s)) = Len(s) - 1
      /\ \A k \in 1..Len(Tail(s)) : Tail(s)[k] = s[k + 1]
      /\ Head(s) = s[1]
  BY HeadTailProperties, EmptySeq
<1>2. Head(s) \in Members(s)
  BY <1>1 DEF Members
<1>3. Members(Tail(s)) \subseteq Members(s)
  <2> SUFFICES ASSUME NEW k \in 1..Len(Tail(s)) PROVE Tail(s)[k] \in Members(s)
    BY DEF Members
  <2>1. k + 1 \in 1..Len(s) /\ Tail(s)[k] = s[k + 1]
    BY <1>1
  <2> QED
    BY <2>1 DEF Members
<1>4. Members(s) \subseteq {Head(s)} \cup Members(Tail(s))
  <2> SUFFICES ASSUME NEW k \in 1..Len(s), k # 1 PROVE s[k] \in Members(Tail(s))
    BY <1>1 DEF Members
  <2>1. k - 1 \in 1..Len(Tail(s)) /\ Tail(s)[k - 1] = s[k]
    BY <1>1
  <2> QED
    BY <2>1 DEF Members
<1> QED
  BY <1>1, <1>2, <1>3, <1>4

(* The members of two sequences, one after the other ...                   *)
LEMMA ConcatMembers ==
  ASSUME NEW S, NEW s \in Seq(S), NEW t \in Seq(S)
  PROVE  s \o t \in Seq(S) /\ Members(s \o t) = Members(s) \cup Members(t)
<1>1. /\ s \o t \in Seq(S) /\ Len(s) \in Nat /\ Len(t) \in Nat /\ Len(s \o t) = Len(s) + Len(t)
      /\ \A k \in 1..Len(s) + Len(t) :
           (s \o t)[k] = IF k <= Len(s) THEN s[k] ELSE t[k - Len(s)]
  BY ConcatProperties
<1>2. \A k \in 1..Len(s \o t) : (s \o t)[k] \in Members(s) \cup Members(t)
  <2> SUFFICES ASSUME NEW k \in 1..Len(s) + Len(t)
               PROVE  (s \o t)[k] \in Members(s) \cup Members(t)
    BY <1>1
  <2>1. CASE k <= Len(s)
    BY <1>1, <2>1 DEF Members
  <2>2. CASE ~(k <= Len(s))
    <3>1. k - Len(s) \in 1..Len(t) /\ (s \o t)[k] = t[k - Len(s)]
      BY <1>1, <2>2
    <3> QED
      BY <3>1 DEF Members
  <2> QED
    BY <2>1, <2>2
<1>3. \A k \in 1..Len(s) : s[k] \in Members(s \o t)
  <2> SUFFICES ASSUME NEW k \in 1..Len(s) PROVE s[k] \in Members(s \o t)
    OBVIOUS
  <2>1. k \in 1..Len(s \o t) /\ (s \o t)[k] = s[k]
    BY <1>1
  <2> QED
    BY <2>1 DEF Members
<1>4. \A k \in 1..Len(t) : t[k] \in Members(s \o t)
  <2> SUFFICES ASSUME NEW k \in 1..Len(t) PROVE t[k] \in Members(s \o t)
    OBVIOUS
  <2>1. Len(s) + k \in 1..Len(s \o t) /\ (s \o t)[Len(s) + k] = t[k]
    BY <1>1
  <2> QED
    BY <2>1 DEF Members
<1> QED
  BY <1>1, <1>2, <1>3, <1>4 DEF Members

(* ... of one with an element more ...                                     *)
LEMMA AppendMembers ==
  ASSUME NEW S, NEW s \in Seq(S), NEW e \in S
  PROVE  Append(s, e) \in Seq(S) /\ Members(Append(s, e)) = Members(s) \cup {e}
<1>1. Append(s, e) = s \o <<e>> /\ <<e>> \in Seq(S)
  BY AppendIsConcat
<1>2. Members(<<e>>) = {e}
  BY DEF Members
<1>3. \A t \in Seq(S) : s \o t \in Seq(S) /\ Members(s \o t) = Members(s) \cup Members(t)
  BY ConcatMembers
<1> QED
  BY <1>1, <1>2, <1>3, Zenon

(* ... and of one read backwards.                                          *)
LEMMA ReversedMembers ==
  ASSUME NEW S, NEW s \in Seq(S)
  PROVE  Reversed(s) \in Seq(S) /\ Members(Reversed(s)) = Members(s)
<1> DEFINE r == [k \in 1..Len(s) |-> s[Len(s) + 1 - k]]
<1>1. /\ Len(s) \in Nat /\ s \in [1..Len(s) -> S] /\ Reversed(s) = r
  BY LenProperties DEF Reversed
<1>2. \A k \in 1..Len(s) : Len(s) + 1 - k \in 1..Len(s) /\ r[k] \in S
  BY <1>1
<1>3. r \in Seq(S) /\ Len(r) = Len(s)
  <2>1. r \in [1..Len(s) -> S]
    BY <1>2
  <2> HIDE DEF r
  <2> QED
    BY <1>1, <2>1
<1>4. \A k \in 1..Len(s) : r[k] \in Members(s)
  BY <1>2 DEF Members
<1>5. \A k \in 1..Len(s) : s[k] \in Members(r)
  <2> SUFFICES ASSUME NEW k \in 1..Len(s) PROVE s[k] \in Members(r)
    OBVIOUS
  <2>1. Len(s) + 1 - k \in 1..Len(r) /\ r[Len(s) + 1 - k] = s[k]
    BY <1>1, <1>2, <1>3
  <2> HIDE DEF r
  <2> QED
    BY <2>1 DEF Members
<1> HIDE DEF r
<1>6. Members(r) \subseteq Members(s)
  BY <1>3, <1>4 DEF Members
<1>7. Members(s) \subseteq Members(r)
  BY <1>1, <1>5 DEF Members
<1>8. Members(r) = Members(s)
  BY <1>6, <1>7
<1> QED
  BY <1>1, <1>3, <1>8

(* The function by which Within picks, and that there is one.              *)
Picks(s, c, f, top) ==
  f = [n \in 0..top |->
         IF n = 0 THEN <<>>
         ELSE IF s[n] \in c THEN Append(f[n - 1], s[n]) ELSE f[n - 1]]

(* The part of a queue within a set, as the function that picks it ...     *)
LEMMA WithinPicks ==
  ASSUME NEW s, NEW c
  PROVE  Within(s, c) = (CHOOSE f : Picks(s, c, f, Len(s)))[Len(s)]
BY DEF Within, Picks

(* ... which there is.                                                     *)
LEMMA PicksExist ==
  ASSUME NEW s, NEW c, NEW top \in Nat
  PROVE  \E f : Picks(s, c, f, top)
<1> DEFINE T == {n \in Nat : ~\E f : Picks(s, c, f, n)}
<1> SUFFICES ASSUME T # {} PROVE FALSE
  OBVIOUS
<1>1. PICK n \in T : \A m \in T : n <= m
  BY Smallest
<1>2. CASE n = 0
  <2> DEFINE f == [k \in 0..0 |-> <<>>]
  <2>1. Picks(s, c, f, 0)
    BY DEF Picks
  <2> QED
    BY <1>2, <2>1
<1>3. CASE n # 0
  <2>1. n - 1 \in Nat /\ n - 1 \notin T
    BY <1>1, <1>3
  <2>2. PICK g : Picks(s, c, g, n - 1)
    BY <2>1
  <2> DEFINE step(a, k) == IF s[k] \in c THEN Append(a, s[k]) ELSE a
             f == [k \in 0..n |-> IF k = n THEN step(g[n - 1], n) ELSE g[k]]
  <2>3. \A k \in 0..n - 1 : g[k] = IF k = 0 THEN <<>> ELSE step(g[k - 1], k)
    BY <2>2 DEF Picks
  <2>4. ASSUME NEW k \in 0..n PROVE f[k] = IF k = 0 THEN <<>> ELSE step(f[k - 1], k)
    <3>1. CASE k = n
      <4>1. f[k] = step(g[n - 1], n) /\ f[k - 1] = g[n - 1]
        BY <1>3, <2>1, <3>1
      <4> HIDE DEF f, step
      <4> QED
        BY <1>3, <3>1, <4>1
    <3>2. CASE k # n
      <4>1. k \in 0..n - 1 /\ f[k] = g[k]
        BY <3>2
      <4>2. k # 0 => f[k - 1] = g[k - 1]
        BY <3>2
      <4> HIDE DEF f
      <4> QED
        BY <2>3, <4>1, <4>2
    <3> QED
      BY <3>1, <3>2
  <2>5. Picks(s, c, f, n)
    <3>1. f = [k \in 0..n |-> f[k]]
      OBVIOUS
    <3> HIDE DEF f
    <3> QED
      BY <2>4, <3>1 DEF Picks
  <2> QED
    BY <2>5
<1> QED
  BY <1>2, <1>3

(* What Within picks: the members that are in the set.                     *)
LEMMA WithinMembers ==
  ASSUME NEW S, NEW s \in Seq(S), NEW c
  PROVE  Within(s, c) \in Seq(S) /\ Members(Within(s, c)) = Members(s) \cap c
<1> DEFINE f == CHOOSE g : Picks(s, c, g, Len(s))
           some(n) == {s[k] : k \in 1..n} \cap c
           Right(n) == f[n] \in Seq(S) /\ Members(f[n]) = some(n)
           T == {n \in 0..Len(s) : ~Right(n)}
<1>1. Len(s) \in Nat /\ \A k \in 1..Len(s) : s[k] \in S
  OBVIOUS
<1>2. Picks(s, c, f, Len(s)) /\ Within(s, c) = f[Len(s)]
  BY <1>1, PicksExist, WithinPicks
<1> HIDE DEF f
<1>3. \A n \in 0..Len(s) :
         f[n] = IF n = 0 THEN <<>>
                ELSE IF s[n] \in c THEN Append(f[n - 1], s[n]) ELSE f[n - 1]
  BY <1>2 DEF Picks
<1>4. Right(0)
  <2>1. f[0] = <<>> /\ Len(<<>>) = 0 /\ <<>> \in Seq(S)
    BY <1>1, <1>3, EmptySeq
  <2> QED
    BY <2>1 DEF Members
<1>5. ASSUME NEW n \in 1..Len(s), Right(n - 1) PROVE Right(n)
  <2>1. some(n) = some(n - 1) \cup ({s[n]} \cap c)
    <3>1. {s[k] : k \in 1..n} = {s[k] : k \in 1..n - 1} \cup {s[n]}
      BY <1>1
    <3> QED
      BY <3>1
  <2>4. n \in 0..Len(s) /\ n # 0 /\ s[n] \in S
    BY <1>1
  <2>2. CASE s[n] \in c
    <3>1. f[n] = Append(f[n - 1], s[n])
      <4> HIDE DEF Right
      <4> QED
        BY <1>3, <2>4, <2>2
    <3>2. f[n - 1] \in Seq(S)
      BY <1>5
    <3>3. f[n] \in Seq(S) /\ Members(f[n]) = Members(f[n - 1]) \cup {s[n]}
      <4> HIDE DEF Right
      <4> QED
        BY <3>1, <3>2, <2>4, AppendMembers
    <3> QED
      BY <1>5, <2>1, <2>2, <3>3
  <2>3. CASE s[n] \notin c
    <3>1. f[n] = f[n - 1]
      BY <1>1, <1>3, <2>3
    <3> QED
      BY <1>5, <2>1, <2>3, <3>1
  <2> QED
    BY <2>2, <2>3
<1>6. Right(Len(s))
  <2> HIDE DEF Right
  <2> SUFFICES ASSUME T # {} PROVE FALSE
    BY <1>1
  <2>1. T \in SUBSET Nat
    BY <1>1
  <2>2. PICK n \in T : \A m \in T : n <= m
    BY <2>1, Smallest
  <2>3. n \in 1..Len(s)
    BY <1>1, <1>4, <2>1, <2>2
  <2>4. n - 1 \notin T /\ n - 1 \in 0..Len(s)
    BY <1>1, <2>1, <2>2, <2>3
  <2> QED
    BY <1>5, <2>2, <2>3, <2>4
<1> QED
  BY <1>2, <1>6 DEF Members

(* The index has every issue.                                              *)
LEMMA IndexMembers == Index \in Seq(Issue) /\ Members(Index) = Issue
<1>1. Index \in Seq(Issue)
  BY IndexAssumption
<1> QED
  BY <1>1 DEF Members, Issue

(* A queue has the issues it is made of, and no other.                     *)
LEMMA OwnQueues ==
  ASSUME NEW listed \in SUBSET Issue
  PROVE  /\ GwmIssues(listed) \in Seq(Issue) /\ Members(GwmIssues(listed)) = listed
         /\ WvjIssues(listed) \in Seq(Issue) /\ Members(WvjIssues(listed)) = listed
<1>1. Reversed(Index) \in Seq(Issue) /\ Members(Reversed(Index)) = Issue
  BY IndexMembers, ReversedMembers
<1>2. ASSUME NEW s \in Seq(Issue), Members(s) = Issue
      PROVE  Within(s, listed) \in Seq(Issue) /\ Members(Within(s, listed)) = listed
  <2>1. Within(s, listed) \in Seq(Issue) /\ Members(Within(s, listed)) = Members(s) \cap listed
    BY <1>2, WithinMembers
  <2> QED
    BY <1>2, <2>1
<1> QED
  BY <1>1, <1>2, IndexMembers DEF GwmIssues, WvjIssues

-----------------------------------------------------------------------------
(* The archive: its types, and what is true of the disk and of the run.    *)
Statuses ==
  {"error", "no-pdf", "skip-complete", "sidecar-only", "synthesised", "downloaded"}
Working == {"full", "download", "rename", "articles", "merge", "merging", "sidecar"}
SomeContents == UNION {SUBSET Article(i) : i \in Issue}
SomePage == UNION {IssuePages(i) : i \in Issue}
JobState ==
  [ mode : Mode \cup {None},
    pc : Working \cup {"off", "next", "report"},
    queue : Seq(Issue), held : Seq(Issue), cur : Issue \cup {None}, fresh : BOOLEAN,
    page : SomePage \cup {None}, listed : SUBSET Issue, records : SomeContents \cup {None},
    status : Statuses \cup {None}, printed : SUBSET Issue, absent : SUBSET Issue,
    error : BOOLEAN ]

DiskState ==
  [ pdf : Pdf \cup {None}, sidecar : SomeContents \cup {None}, staged : BOOLEAN \cup {None},
    unsized : BOOLEAN ]

ArchiveTyped ==
  /\ owner \in [Issue -> Mode] /\ owner \in Owners
  /\ served \subseteq Issue
  /\ disk \in [Issue -> DiskState]
  /\ job \in JobState
  /\ announced \subseteq Issue
  /\ unheard \subseteq Issue
  /\ faults \in 0..MaxFaults

(* What an issue's files are: a sidecar is of its own articles and never   *)
(* without its PDF, and beside a download lists all of them, where every   *)
(* body told its length.                                                   *)
FilesRight(i, d) ==
  /\ d.sidecar # None => d.sidecar \subseteq Article(i) /\ d.pdf # None
  /\ owner[i] # "wvj" /\ d.pdf # None /\ d.pdf.name # "synthetic" /\ ~d.unsized =>
       d.pdf.whole /\ d.sidecar \in {None, Article(i)}

(* What a run knows of the issue it works on: it has no sidecar yet; from  *)
(* a merge on, the records are those of the issue, and the PDF is merged.  *)
CurRight(j, d) ==
  /\ j.pc \in Working => d.sidecar = None /\ j.page \in IssuePages(j.cur)
  /\ j.pc \in {"full", "download", "rename", "articles"} => j.records = None
  /\ j.pc \in {"full", "download"} => d.pdf = None
  /\ j.pc \in {"merge", "merging"} => j.records # None
  /\ j.pc \in Working /\ j.records # None => j.records \subseteq Article(j.cur)
  /\ j.pc = "rename" =>
       IF j.mode = "wvj" THEN d.pdf # None
       ELSE d.staged \in BOOLEAN /\ (~d.unsized => d.staged = TRUE)
  /\ j.pc \in {"merging", "sidecar"} => d.pdf # None
  /\ j.pc = "merging" \/ (j.pc = "sidecar" /\ j.records # None) => d.pdf.name = "synthetic"
  /\ j.pc = "report" =>
       \/ j.status \in {"error", "no-pdf"}
       \/ j.status \in Statuses /\ d.pdf # None /\ d.sidecar # None

AtIssue == Working \cup {"report"}
CurSound ==
  /\ job.pc \in AtIssue =>
       job.cur \in Issue /\ owner[job.cur] = job.mode /\ CurRight(job, disk[job.cur])
  /\ job.pc \in Working \/ (job.pc = "report" /\ job.status \in Recovered) =>
       job.cur \notin announced

(* A run walks issues of its own. *)
QueuesOwn == Members(job.queue) \cup Members(job.held) \subseteq {i \in Issue : owner[i] = job.mode}

(* Where a backfill has got to with every issue its index listed.          *)
SweepSound ==
  /\ job.mode = "backfill" =>
       \A i \in job.listed :
         \/ Complete(i) \/ i \in job.absent \/ job.error
         \/ i \in Members(job.queue) \cup Members(job.held)
         \/ job.pc \in AtIssue /\ i = job.cur
  /\ job.mode = "backfill" /\ job.printed # {} => job.held = <<>>

(* A run there is not holds nothing. *)
Idle == job.mode = None => job = NoRun

ArchiveInv ==
  /\ ArchiveTyped
  /\ Idle
  /\ \A i \in Issue : FilesRight(i, disk[i])
  /\ CurSound
  /\ QueuesOwn
  /\ \A i \in announced \cup job.printed : Complete(i)
  /\ CompleteIsAnnounced
  /\ SweepSound

(* A step keeps all that, touches no file of a complete issue, removes no  *)
(* PDF, and prints a NEW_ISSUE line once, for an issue that is complete.   *)
ArchiveKept ==
  /\ ArchiveInv'
  /\ owner' = owner
  /\ \A i \in Issue :
       /\ Complete(i) => disk'[i] = disk[i]
       /\ disk[i].pdf # None => disk'[i].pdf # None
  /\ \A i \in job'.printed \ job.printed : i \notin announced /\ Complete(i)
  /\ announced \subseteq announced'

-----------------------------------------------------------------------------
(* What changes nothing but the publisher's side, or puts an end to a run. *)
LEMMA OutsideKeeps ==
  ASSUME ArchiveInv, UNCHANGED <<owner, disk, job, announced, unheard>>, served' \subseteq Issue,
         faults' \in 0..MaxFaults
  PROVE  ArchiveKept
<1>1. ArchiveInv'
  BY DEF ArchiveInv, ArchiveTyped, FilesRight, CurSound, CurRight, QueuesOwn, SweepSound, Complete,
     CompleteIsAnnounced, Unprinted, Idle
<1> QED
  BY <1>1 DEF ArchiveKept

(* A job that does not run is well formed.                                 *)
LEMMA NoRunTyped ==
  /\ NoRun \in JobState /\ NoRun.pc = "off" /\ NoRun.mode = None /\ NoRun.printed = {}
  /\ NoRun.listed = {}
  /\ NoRun.queue = <<>> /\ NoRun.held = <<>>
  /\ Members(<<>>) = {} /\ <<>> \in Seq(Issue) /\ None \notin Mode
<1>1. <<>> \in Seq(Issue) /\ Len(<<>>) = 0
  BY EmptySeq
<1>2. Members(<<>>) = {}
  BY <1>1 DEF Members
<1>3. NoRun \in JobState
  BY <1>1 DEF NoRun, JobState, Working
<1> QED
  BY <1>1, <1>2, <1>3, NoneAssumption DEF NoRun

(* A run that ends leaves the archive as it was, and its lines announced   *)
(* or lost.                                                                *)
LEMMA RunEnds ==
  ASSUME ArchiveInv, UNCHANGED <<owner, served, disk>>, job' = NoRun,
         announced' \in {announced, announced \cup job.printed},
         unheard \subseteq unheard', unheard' \subseteq unheard \cup job.printed \cup Unprinted,
         job.printed \cup Unprinted \subseteq announced' \cup unheard',
         faults' \in 0..MaxFaults
  PROVE  ArchiveKept
<1>1. job.printed \subseteq Issue /\ Unprinted \subseteq Issue
  BY DEF ArchiveInv, ArchiveTyped, JobState, Unprinted, CurSound, AtIssue
<1>2. ArchiveTyped'
  BY <1>1, NoRunTyped DEF ArchiveInv, ArchiveTyped
<1>3. \A i \in Issue : FilesRight(i, disk[i])'
  BY DEF ArchiveInv, FilesRight
<1>4. CurSound' /\ QueuesOwn' /\ SweepSound'
  <2>1. None # "backfill"
    BY NoneAssumption DEF Mode
  <2> QED
    BY <2>1, NoRunTyped DEF CurSound, QueuesOwn, SweepSound, AtIssue, Working
<1>5. \A i \in announced' \cup job'.printed : Complete(i)'
  BY NoRunTyped DEF ArchiveInv, Complete
<1>6. CompleteIsAnnounced'
  <2> SUFFICES ASSUME NEW i \in Issue, owner[i] # "wvj", Complete(i)
               PROVE  i \in announced' \cup unheard'
    BY DEF CompleteIsAnnounced, Complete
  <2>1. i \in announced \cup job.printed \cup Unprinted \cup unheard
    BY DEF ArchiveInv, CompleteIsAnnounced
  <2> QED
    BY <2>1
<1> QED
  <2>1. ArchiveInv'
    BY <1>2, <1>3, <1>4, <1>5, <1>6 DEF ArchiveInv, Idle
  <2> QED
    BY <2>1, NoRunTyped DEF ArchiveKept

(* A step of a run on the issue it works on.                               *)
LEMMA WorkKeeps ==
  ASSUME ArchiveInv, job.pc \in Working, UNCHANGED <<owner, served, announced, unheard>>,
         faults' \in 0..MaxFaults,
         NEW new \in JobState, job' = new, new.pc \in AtIssue,
         new.mode = job.mode, new.cur = job.cur, new.queue = job.queue, new.held = job.held,
         new.printed = job.printed, new.absent = job.absent, new.error = job.error,
         new.listed = job.listed,
         NEW d \in DiskState, disk' = [disk EXCEPT ![job.cur] = d],
         disk[job.cur].pdf # None => d.pdf # None,
         d.sidecar # None => new.pc = "report" /\ new.status \in Recovered,
         FilesRight(job.cur, d), CurRight(new, d)
  PROVE  ArchiveKept
<1> DEFINE c == job.cur
<1>1. c \in Issue /\ owner[c] = job.mode /\ disk[c].sidecar = None /\ c \notin announced
  BY DEF ArchiveInv, CurSound, CurRight, AtIssue
<1>2. disk' \in [Issue -> DiskState] /\ disk'[c] = d /\ \A i \in Issue \ {c} : disk'[i] = disk[i]
  BY <1>1 DEF ArchiveInv, ArchiveTyped
<1>3. ArchiveTyped'
  BY <1>2 DEF ArchiveInv, ArchiveTyped
<1>4. \A i \in Issue : FilesRight(i, disk[i])'
  BY <1>2 DEF ArchiveInv, FilesRight
<1>5. CurSound'
  BY <1>1, <1>2 DEF CurSound, CurRight
<1>6. QueuesOwn'
  BY DEF ArchiveInv, QueuesOwn
<1>7. \A i \in Issue : Complete(i) => Complete(i)'
  BY <1>1, <1>2 DEF Complete
<1>8. \A i \in announced' \cup job'.printed : Complete(i)'
  BY <1>7 DEF ArchiveInv, ArchiveTyped, JobState
<1>9. SweepSound'
  <2>1. job.listed \subseteq Issue
    BY DEF ArchiveInv, ArchiveTyped, JobState
  <2> QED
    BY <1>7, <2>1 DEF ArchiveInv, SweepSound, AtIssue
<1>10. CompleteIsAnnounced'
  <2> SUFFICES ASSUME NEW i \in Issue, owner[i] # "wvj", Complete(i)'
               PROVE  i \in announced \cup job.printed \cup Unprinted' \cup unheard
    BY DEF CompleteIsAnnounced
  <2>1. CASE i = c
    BY <1>1, <1>2, <2>1 DEF Unprinted, Complete
  <2>2. CASE i # c
    <3>1. Complete(i) /\ Unprinted = {}
      BY <1>2, <2>2 DEF Unprinted, Complete, Working
    <3> QED
      BY <3>1 DEF ArchiveInv, CompleteIsAnnounced
  <2> QED
    BY <2>1, <2>2
<1>11. Idle'
  BY NoRunTyped DEF ArchiveInv, Idle, Working
<1> QED
  <2>1. ArchiveInv'
    BY <1>3, <1>4, <1>5, <1>6, <1>8, <1>9, <1>10, <1>11 DEF ArchiveInv
  <2>2. \A i \in Issue :
          /\ Complete(i) => disk'[i] = disk[i]
          /\ disk[i].pdf # None => disk'[i].pdf # None
    BY <1>1, <1>2 DEF Complete
  <2> QED
    BY <2>1, <2>2 DEF ArchiveKept

(* What a run knows of the issue it is at.                                 *)
LEMMA AtWork ==
  ASSUME ArchiveInv, job.pc \in Working
  PROVE  /\ job \in JobState /\ job.cur \in Issue /\ owner[job.cur] = job.mode
         /\ disk \in [Issue -> DiskState] /\ disk[job.cur] \in DiskState
         /\ disk[job.cur].sidecar = None /\ FilesRight(job.cur, disk[job.cur])
         /\ CurRight(job, disk[job.cur])
         /\ disk = [disk EXCEPT ![job.cur] = disk[job.cur]]
<1>1. job.cur \in Issue /\ disk \in [Issue -> DiskState] /\ CurRight(job, disk[job.cur])
  BY DEF ArchiveInv, ArchiveTyped, CurSound, AtIssue
<1>2. disk = [disk EXCEPT ![job.cur] = disk[job.cur]]
  BY <1>1
<1> QED
  BY <1>1, <1>2 DEF ArchiveInv, ArchiveTyped, CurSound, CurRight, AtIssue

(* The bound on failures stays one.                                        *)
LEMMA FaultsBounded ==
  ASSUME ArchiveInv, Fault \/ NoFault
  PROVE  faults' \in 0..MaxFaults
BY BoundsAssumption DEF ArchiveInv, ArchiveTyped, Fault, NoFault

(* Steps that leave the disk as it is.                                     *)
LEMMA ThoughtKeeps ==
  ASSUME ArchiveInv, job.pc \in Working, UNCHANGED <<owner, served, disk, announced, unheard>>,
         Fault \/ NoFault,
         NEW new \in JobState, job' = new, new.pc \in AtIssue,
         new.mode = job.mode, new.cur = job.cur, new.queue = job.queue, new.held = job.held,
         new.printed = job.printed, new.absent = job.absent, new.error = job.error,
         new.listed = job.listed, CurRight(new, disk[job.cur])
  PROVE  ArchiveKept
<1>1. disk' = [disk EXCEPT ![job.cur] = disk[job.cur]]
  BY AtWork
<1> QED
  BY <1>1, AtWork, FaultsBounded, WorkKeeps

(* A report of failure is right whatever is on the disk.                   *)
LEMMA ReportTyped ==
  ASSUME job \in JobState, NEW status \in Statuses
  PROVE  LET new == Report(status) IN
         /\ new \in JobState /\ new.pc = "report" /\ new.status = status
         /\ new.mode = job.mode /\ new.cur = job.cur
         /\ new.queue = job.queue /\ new.held = job.held
         /\ new.printed = job.printed /\ new.absent = job.absent /\ new.error = job.error
         /\ new.listed = job.listed /\ new.page = job.page
BY DEF Report, JobState

(* A run that gives an issue up leaves the archive as it was.              *)
LEMMA GivesUp ==
  ASSUME ArchiveInv, job.pc \in Working, UNCHANGED <<owner, served, disk, announced, unheard>>,
         Fault \/ NoFault, NEW status \in {"error", "no-pdf"}, job' = Report(status)
  PROVE  ArchiveKept
<1> DEFINE new == Report(status)
<1>1. status \in Statuses
  BY DEF Statuses
<1>2. /\ new \in JobState /\ new.pc = "report" /\ new.status = status
      /\ new.mode = job.mode /\ new.cur = job.cur
      /\ new.queue = job.queue /\ new.held = job.held
      /\ new.printed = job.printed /\ new.absent = job.absent /\ new.error = job.error
      /\ new.listed = job.listed /\ new.page = job.page
  BY <1>1, AtWork, ReportTyped
<1> HIDE DEF new
<1>3. CurRight(new, disk[job.cur]) /\ new.pc \in AtIssue
  BY <1>2 DEF CurRight, Working, AtIssue
<1>4. job' = new
  BY DEF new
<1> QED
  BY <1>2, <1>3, <1>4, ThoughtKeeps

(* The step to another part of the work leaves what is known.              *)
LEMMA GoesOn ==
  ASSUME ArchiveInv, job.pc \in Working, NEW pc \in Working
  PROVE  LET new == [job EXCEPT !.pc = pc] IN
         /\ new \in JobState /\ new.pc = pc /\ new.pc \in AtIssue
         /\ new.mode = job.mode /\ new.cur = job.cur
         /\ new.queue = job.queue /\ new.held = job.held /\ new.records = job.records
         /\ new.printed = job.printed /\ new.absent = job.absent /\ new.error = job.error
         /\ new.listed = job.listed /\ new.page = job.page
BY AtWork DEF JobState, AtIssue

(* The link is looked up, and a file to stage in is opened.                *)
LEMMA FindKeeps ==
  ASSUME ArchiveInv, FindFullIssue
  PROVE  ArchiveKept
<1> DEFINE c == job.cur
           link == FullIssue(c, job.page)
           d == [disk[c] EXCEPT !.staged = FALSE, !.unsized = FALSE]
<1>1. job.pc = "full" /\ job.pc \in Working /\ UNCHANGED <<owner, served, announced, unheard>>
  BY DEF FindFullIssue, Working
<1>2. /\ Fault \/ NoFault
      /\ \/ job' = [job EXCEPT !.pc = "articles"] /\ disk' = disk
         \/ job' = [job EXCEPT !.pc = "download"] /\ disk' = [disk EXCEPT ![c] = d]
         \/ job' = Report("error") /\ disk' = disk
  BY DEF FindFullIssue
<1> HIDE DEF link
<1>3. CASE job' = Report("error") /\ disk' = disk
  BY <1>1, <1>2, <1>3, GivesUp
<1>4. CASE job' = [job EXCEPT !.pc = "articles"] /\ disk' = disk
  <2> DEFINE new == [job EXCEPT !.pc = "articles"]
  <2>1. /\ new \in JobState /\ new.pc = "articles" /\ new.pc \in AtIssue
        /\ new.mode = job.mode /\ new.cur = job.cur
        /\ new.queue = job.queue /\ new.held = job.held /\ new.records = job.records
        /\ new.printed = job.printed /\ new.absent = job.absent /\ new.error = job.error
        /\ new.listed = job.listed /\ new.page = job.page
    BY <1>1, GoesOn DEF Working
  <2>2. job' = new
    BY <1>4
  <2> HIDE DEF new
  <2>3. CurRight(new, disk[c])
    BY <1>1, <2>1, AtWork DEF CurRight, Working
  <2> QED
    BY <1>1, <1>2, <1>4, <2>1, <2>2, <2>3, ThoughtKeeps
<1>5. CASE job' = [job EXCEPT !.pc = "download"] /\ disk' = [disk EXCEPT ![c] = d]
  <2> DEFINE new == [job EXCEPT !.pc = "download"]
  <2>1. /\ new \in JobState /\ new.pc = "download" /\ new.pc \in AtIssue
        /\ new.mode = job.mode /\ new.cur = job.cur
        /\ new.queue = job.queue /\ new.held = job.held /\ new.records = job.records
        /\ new.printed = job.printed /\ new.absent = job.absent /\ new.error = job.error
        /\ new.listed = job.listed /\ new.page = job.page
    BY <1>1, GoesOn DEF Working
  <2>2. job' = new
    BY <1>5
  <2>3. d \in DiskState /\ d.pdf = disk[c].pdf /\ d.sidecar = None
    BY <1>1, AtWork DEF DiskState
  <2>4. disk[c].pdf = None
    BY <1>1, AtWork DEF CurRight
  <2> HIDE DEF new, d
  <2>5. FilesRight(c, d)
    BY <2>3, <2>4 DEF FilesRight
  <2>6. CurRight(new, d)
    BY <1>1, <2>1, <2>3, <2>4, AtWork DEF CurRight, Working
  <2> QED
    BY <1>1, <1>2, <1>5, <2>1, <2>2, <2>3, <2>5, <2>6, FaultsBounded, WorkKeeps
<1> QED
  BY <1>2, <1>3, <1>4, <1>5

(* A body that comes with its length is staged whole or not at all.        *)
LEMMA DownloadKeeps ==
  ASSUME ArchiveInv, DownloadFullIssue
  PROVE  ArchiveKept
<1> DEFINE c == job.cur
<1>1. job.pc = "download" /\ job.pc \in Working /\ UNCHANGED <<owner, served, announced, unheard>>
  BY DEF DownloadFullIssue, Working
<1>2. PICK t \in Trouble :
        LET whole == BodyWhole(job.mode, t)
            bare == [disk[c] EXCEPT !.staged = None]
        IN  /\ Fault \/ NoFault
            /\ \/ /\ job' = Report("error")
                  /\ disk' = [disk EXCEPT ![c] = bare]
               \/ /\ job' = [job EXCEPT !.pc = "articles"]
                  /\ disk' = [disk EXCEPT ![c] = bare]
               \/ /\ job' = [job EXCEPT !.pc = "rename"]
                  /\ disk' = [disk EXCEPT ![c] =
                        IF job.mode = "wvj"
                        THEN [bare EXCEPT !.pdf = [name |-> "DOWNLOADING", whole |-> whole]]
                        ELSE [disk[c] EXCEPT !.staged = whole, !.unsized = t = "unsized"]]
  BY DEF DownloadFullIssue, FaultIf
<1> DEFINE whole == BodyWhole(job.mode, t)
           bare == [disk[c] EXCEPT !.staged = None]
           cut == t = "unsized"
<1>3. whole \in BOOLEAN /\ cut \in BOOLEAN /\ (job.mode # "wvj" /\ ~cut => whole = TRUE)
  BY DEF BodyWhole
<1>4. /\ bare \in DiskState /\ bare.pdf = disk[c].pdf /\ bare.sidecar = None
      /\ bare.unsized = disk[c].unsized
  BY <1>1, AtWork DEF DiskState
<1>5. FilesRight(c, bare)
  BY <1>1, <1>4, AtWork DEF FilesRight
<1> HIDE DEF whole, cut
<1>6. CASE job' = Report("error") /\ disk' = [disk EXCEPT ![c] = bare]
  <2> DEFINE new == Report("error")
  <2>1. /\ new \in JobState /\ new.pc = "report" /\ new.status = "error"
        /\ new.mode = job.mode /\ new.cur = job.cur
        /\ new.queue = job.queue /\ new.held = job.held
        /\ new.printed = job.printed /\ new.absent = job.absent /\ new.error = job.error
        /\ new.listed = job.listed /\ new.page = job.page
    BY <1>1, AtWork, ReportTyped DEF Statuses
  <2>2. job' = new
    BY <1>6
  <2> HIDE DEF new, bare
  <2>3. CurRight(new, bare) /\ new.pc \in AtIssue
    BY <2>1 DEF CurRight, Working, AtIssue
  <2> QED
    BY <1>1, <1>2, <1>4, <1>5, <1>6, <2>1, <2>2, <2>3, FaultsBounded, WorkKeeps
<1>7. CASE job' = [job EXCEPT !.pc = "articles"] /\ disk' = [disk EXCEPT ![c] = bare]
  <2> DEFINE new == [job EXCEPT !.pc = "articles"]
  <2>1. /\ new \in JobState /\ new.pc = "articles" /\ new.pc \in AtIssue
        /\ new.mode = job.mode /\ new.cur = job.cur
        /\ new.queue = job.queue /\ new.held = job.held /\ new.records = job.records
        /\ new.printed = job.printed /\ new.absent = job.absent /\ new.error = job.error
        /\ new.listed = job.listed /\ new.page = job.page
    BY <1>1, GoesOn DEF Working
  <2>2. job' = new
    BY <1>7
  <2> HIDE DEF new, bare
  <2>3. CurRight(new, bare)
    BY <1>1, <1>4, <2>1, AtWork DEF CurRight, Working
  <2> QED
    BY <1>1, <1>2, <1>4, <1>5, <1>7, <2>1, <2>2, <2>3, FaultsBounded, WorkKeeps
<1>8. CASE /\ job' = [job EXCEPT !.pc = "rename"]
           /\ disk' = [disk EXCEPT ![c] =
                 IF job.mode = "wvj"
                 THEN [bare EXCEPT !.pdf = [name |-> "DOWNLOADING", whole |-> whole]]
                 ELSE [disk[c] EXCEPT !.staged = whole, !.unsized = cut]]
  <2> DEFINE pdf == [name |-> "DOWNLOADING", whole |-> whole]
             d == IF job.mode = "wvj" THEN [bare EXCEPT !.pdf = pdf]
                  ELSE [disk[c] EXCEPT !.staged = whole, !.unsized = cut]
             new == [job EXCEPT !.pc = "rename"]
  <2>1. /\ new \in JobState /\ new.pc = "rename" /\ new.pc \in AtIssue
        /\ new.mode = job.mode /\ new.cur = job.cur
        /\ new.queue = job.queue /\ new.held = job.held /\ new.records = job.records
        /\ new.printed = job.printed /\ new.absent = job.absent /\ new.error = job.error
        /\ new.listed = job.listed /\ new.page = job.page
    BY <1>1, GoesOn DEF Working
  <2>2. job' = new /\ disk' = [disk EXCEPT ![c] = d]
    BY <1>8
  <2>3. pdf \in Pdf /\ pdf # None
    <3>1. pdf \in Pdf
      BY <1>3 DEF Pdf
    <3> HIDE DEF pdf
    <3> QED
      BY <3>1, NoneAssumption
  <2> HIDE DEF pdf, new
  <2>4. /\ d \in DiskState /\ d.sidecar = None /\ (disk[c].pdf # None => d.pdf # None)
        /\ IF job.mode = "wvj" THEN d.pdf # None
           ELSE /\ d.staged \in BOOLEAN /\ (~d.unsized => d.staged = TRUE)
                /\ d.pdf = disk[c].pdf
    <3>1. CASE job.mode = "wvj"
      <4>1. d = [bare EXCEPT !.pdf = pdf]
        BY <3>1
      <4> HIDE DEF d, bare
      <4> QED
        BY <1>4, <2>3, <3>1, <4>1 DEF DiskState
    <3>2. CASE job.mode # "wvj"
      <4>1. d = [disk[c] EXCEPT !.staged = whole, !.unsized = cut]
        BY <3>2
      <4>2. disk[c] \in DiskState /\ disk[c].sidecar = None
        BY <1>1, AtWork
      <4> HIDE DEF d, bare
      <4>3. d \in DiskState /\ d.sidecar = None /\ d.pdf = disk[c].pdf
        BY <1>3, <4>1, <4>2 DEF DiskState
      <4>4. d.staged = whole /\ d.unsized = cut
        BY <4>1, <4>2 DEF DiskState
      <4> QED
        BY <1>3, <3>2, <4>3, <4>4
    <3> QED
      BY <3>1, <3>2
  <2> HIDE DEF d, bare
  <2>5. disk[c].pdf = None /\ owner[c] = job.mode /\ CurRight(job, disk[c]) /\ c \in Issue
    BY <1>1, AtWork DEF CurRight
  <2>6. FilesRight(c, d)
    BY <2>4, <2>5 DEF FilesRight
  <2>7. CurRight(new, d)
    BY <1>1, <2>1, <2>4, <2>5 DEF CurRight, Working
  <2> QED
    BY <1>1, <1>2, <2>1, <2>2, <2>4, <2>6, <2>7, FaultsBounded, WorkKeeps
<1> QED
  BY <1>2, <1>6, <1>7, <1>8 DEF whole, cut

(* The rename puts a whole download under the PDF's name.                  *)
LEMMA RenameKeeps ==
  ASSUME ArchiveInv, RenameStaged
  PROVE  ArchiveKept
<1> DEFINE c == job.cur
           new == [job EXCEPT !.pc = "sidecar"]
           whole == IF job.mode = "wvj" THEN disk[c].pdf.whole ELSE disk[c].staged
           pdf == [name |-> "full", whole |-> whole]
           d == [disk[c] EXCEPT !.pdf = pdf, !.staged = None]
<1>1. /\ job.pc = "rename" /\ job.pc \in Working
      /\ UNCHANGED <<owner, served, announced, unheard, faults>>
      /\ job' = new /\ disk' = [disk EXCEPT ![c] = d]
  BY DEF RenameStaged, Working
<1>2. /\ new \in JobState /\ new.pc = "sidecar" /\ new.pc \in AtIssue
      /\ new.mode = job.mode /\ new.cur = job.cur
      /\ new.queue = job.queue /\ new.held = job.held /\ new.records = job.records
      /\ new.printed = job.printed /\ new.absent = job.absent /\ new.error = job.error
      /\ new.listed = job.listed /\ new.page = job.page
  BY <1>1, GoesOn DEF Working
<1>3. /\ disk[c] \in DiskState /\ disk[c].sidecar = None /\ CurRight(job, disk[c])
      /\ owner[c] = job.mode /\ c \in Issue
  BY <1>1, AtWork
<1>4. whole \in BOOLEAN /\ (job.mode # "wvj" /\ ~disk[c].unsized => whole = TRUE)
  <2>1. CASE job.mode = "wvj"
    <3>1. disk[c].pdf \in Pdf
      BY <1>1, <1>3, <2>1 DEF CurRight, DiskState
    <3> QED
      BY <2>1, <3>1 DEF Pdf
  <2>2. CASE job.mode # "wvj"
    BY <1>1, <1>3, <2>2 DEF CurRight
  <2> QED
    BY <2>1, <2>2
<1> HIDE DEF whole
<1>5. pdf \in Pdf /\ pdf.whole = whole
  BY <1>4 DEF Pdf
<1>6. pdf # None
  BY <1>5, NoneAssumption
<1> HIDE DEF pdf
<1>7. /\ d \in DiskState /\ d.pdf = pdf /\ d.sidecar = None /\ d.unsized = disk[c].unsized
  BY <1>3, <1>5 DEF DiskState
<1> HIDE DEF new, d
<1>8. FilesRight(c, d)
  BY <1>3, <1>4, <1>5, <1>7 DEF FilesRight
<1>9. CurRight(new, d)
  BY <1>1, <1>2, <1>3, <1>6, <1>7 DEF CurRight, Working
<1> QED
  BY <1>1, <1>2, <1>6, <1>7, <1>8, <1>9, FaultsBounded, WorkKeeps DEF NoFault

(* A page lists articles of its issue ...                                  *)
LEMMA PageArticles ==
  ASSUME NEW i \in Issue, NEW page \in IssuePages(i)
  PROVE  page.articles \subseteq Article(i)
<1>1. Offer[i].articles \in Seq({"pdf", "empty", "noform"})
  BY OfferAssumption DEF OfferType
<1>2. Len(Offer[i].articles) \in Nat /\ Article(i) = 1..Len(Offer[i].articles)
  BY <1>1 DEF Article
<1>3. PICK n \in 0..Len(Offer[i].articles) : page.articles = 1..n
  BY DEF IssuePages
<1> QED
  BY <1>2, <1>3

(* ... and what walking them comes to is records of the issue.             *)
LEMMA PartsAreArticles ==
  ASSUME NEW i \in Issue, NEW page \in IssuePages(i), NEW got \in Walks(i, page)
  PROVE  Parts(got) \subseteq Article(i) /\ Parts(got) # None
<1>1. DOMAIN got = page.articles
  BY DEF Walks
<1>2. Parts(got) \subseteq Article(i)
  BY <1>1, PageArticles DEF Parts
<1> QED
  BY <1>2, NoneAssumption

(* The articles of an issue without a PDF are listed and fetched.          *)
LEMMA SynthesiseKeeps ==
  ASSUME ArchiveInv, SynthesiseFromArticles
  PROVE  ArchiveKept
<1> DEFINE c == job.cur
<1>1. job.pc = "articles" /\ job.pc \in Working /\ UNCHANGED <<owner, served, disk, announced, unheard>>
  BY DEF SynthesiseFromArticles, Working
<1>2. PICK got \in Walks(c, job.page) :
        /\ Fault \/ NoFault
        /\ job' = CASE Raises(got) -> Report("error")
                    [] ~Raises(got) /\ Parts(got) = {} ->
                         Report(IF job.mode = "current" THEN "error" ELSE "no-pdf")
                    [] OTHER -> [job EXCEPT !.pc = "merge", !.records = Parts(got)]
  BY DEF SynthesiseFromArticles, FaultIf
<1>3. CASE Raises(got)
  BY <1>1, <1>2, <1>3, GivesUp
<1>4. CASE ~Raises(got) /\ Parts(got) = {}
  <2>1. \E status \in {"error", "no-pdf"} : job' = Report(status)
    BY <1>2, <1>4
  <2> QED
    BY <1>1, <1>2, <2>1, GivesUp
<1>5. CASE ~Raises(got) /\ Parts(got) # {}
  <2> DEFINE parts == Parts(got)
             new == [job EXCEPT !.pc = "merge", !.records = parts]
  <2>1. job' = new
    BY <1>2, <1>5
  <2>2. parts \subseteq Article(c) /\ parts # None /\ c \in Issue
    <3>1. c \in Issue /\ job.page \in IssuePages(c)
      BY <1>1, AtWork DEF CurRight
    <3> QED
      BY <3>1, PartsAreArticles
  <2> HIDE DEF parts
  <2>3. parts \in SomeContents
    BY <2>2 DEF SomeContents
  <2>4. /\ new \in JobState /\ new.pc = "merge" /\ new.mode = job.mode /\ new.cur = c
        /\ new.queue = job.queue /\ new.held = job.held /\ new.records = parts
        /\ new.printed = job.printed /\ new.absent = job.absent /\ new.error = job.error
        /\ new.listed = job.listed /\ new.page = job.page
    BY <1>1, <2>3, AtWork DEF JobState, Working
  <2> HIDE DEF new
  <2>5. CurRight(new, disk[c]) /\ new.pc \in AtIssue
    BY <1>1, <2>2, <2>4, AtWork DEF CurRight, Working, AtIssue
  <2> QED
    BY <1>1, <1>2, <2>1, <2>4, <2>5, ThoughtKeeps
<1> QED
  BY <1>3, <1>4, <1>5

(* The articles are merged into one PDF, which is renamed into place.      *)
LEMMA MergeKeeps ==
  ASSUME ArchiveInv, BeginMerge \/ EndMerge
  PROVE  ArchiveKept
<1> DEFINE c == job.cur
<1>1. job.pc \in {"merge", "merging"} /\ job.pc \in Working /\ UNCHANGED <<owner, served, announced, unheard>>
  BY DEF BeginMerge, EndMerge, Working
<1>2. /\ job.records # None /\ job.records \subseteq Article(c) /\ c \in Issue
      /\ job.page \in IssuePages(c)
  BY <1>1, AtWork DEF CurRight
<1>3. CASE BeginMerge
  <2> DEFINE new == [job EXCEPT !.pc = "merging"]
             pdf == [name |-> "synthetic", whole |-> FALSE]
             d == [disk[c] EXCEPT !.pdf = pdf]
  <2>1. job' = new /\ disk' = [disk EXCEPT ![c] = d] /\ NoFault
    BY <1>3 DEF BeginMerge, NoFault
  <2>2. /\ new \in JobState /\ new.pc = "merging" /\ new.mode = job.mode /\ new.cur = c
        /\ new.queue = job.queue /\ new.held = job.held /\ new.records = job.records
        /\ new.printed = job.printed /\ new.absent = job.absent /\ new.error = job.error
        /\ new.listed = job.listed /\ new.page = job.page
    BY <1>1, AtWork DEF JobState, Working
  <2>3. pdf \in Pdf /\ pdf # None /\ pdf.name = "synthetic"
    <3>1. pdf \in Pdf /\ pdf.name = "synthetic"
      BY DEF Pdf
    <3> HIDE DEF pdf
    <3> QED
      BY <3>1, NoneAssumption
  <2>4. d \in DiskState /\ d.pdf = pdf /\ d.sidecar = None
    BY <1>1, <2>3, AtWork DEF DiskState
  <2> HIDE DEF new, d, pdf
  <2>5. FilesRight(c, d)
    BY <2>3, <2>4 DEF FilesRight
  <2>6. CurRight(new, d) /\ new.pc \in AtIssue
    BY <1>2, <2>2, <2>3, <2>4 DEF CurRight, Working, AtIssue
  <2> QED
    BY <1>1, <2>1, <2>2, <2>3, <2>4, <2>5, <2>6, FaultsBounded, WorkKeeps
<1>4. CASE EndMerge
  <2>1. PICK ok \in BOOLEAN, whole \in BOOLEAN :
          /\ Fault \/ NoFault
          /\ disk' = [disk EXCEPT ![c].pdf.whole = whole]
          /\ job' = IF ok THEN [job EXCEPT !.pc = "sidecar"] ELSE Report("error")
    BY <1>4 DEF EndMerge, FaultIf
  <2> DEFINE pdf == [disk[c].pdf EXCEPT !.whole = whole]
             d == [disk[c] EXCEPT !.pdf = pdf]
             new == IF ok THEN [job EXCEPT !.pc = "sidecar"] ELSE Report("error")
  <2>2. job' = new /\ disk' = [disk EXCEPT ![c] = d]
    BY <2>1
  <2>3. disk[c].pdf \in Pdf /\ disk[c].pdf.name = "synthetic"
    BY <1>1, <1>4, AtWork DEF DiskState, CurRight, EndMerge
  <2>4. pdf \in Pdf /\ pdf # None /\ pdf.name = "synthetic"
    <3>1. pdf \in Pdf /\ pdf.name = "synthetic"
      <4>1. whole \in BOOLEAN
        BY <2>1
      <4>2. /\ disk[c].pdf = [name |-> "synthetic", whole |-> disk[c].pdf.whole]
        BY <2>3 DEF Pdf
      <4>3. pdf = [name |-> "synthetic", whole |-> whole]
        BY <4>2
      <4> HIDE DEF pdf
      <4> QED
        BY <4>1, <4>3 DEF Pdf
    <3> HIDE DEF pdf
    <3> QED
      BY <3>1, NoneAssumption
  <2>5. d \in DiskState /\ d.pdf = pdf /\ d.sidecar = None
    BY <1>1, <2>4, AtWork DEF DiskState
  <2>6. /\ new \in JobState /\ new.mode = job.mode /\ new.cur = c
        /\ new.queue = job.queue /\ new.held = job.held /\ new.records = job.records
        /\ new.printed = job.printed /\ new.absent = job.absent /\ new.error = job.error
        /\ new.listed = job.listed /\ new.page = job.page
        /\ \/ new.pc = "sidecar"
           \/ new.pc = "report" /\ new.status = "error"
    BY <1>1, AtWork DEF JobState, Working, Report, Statuses
  <2> HIDE DEF new, d, pdf
  <2>7. FilesRight(c, d)
    BY <2>4, <2>5 DEF FilesRight
  <2>8. CurRight(new, d) /\ new.pc \in AtIssue
    BY <1>2, <2>4, <2>5, <2>6 DEF CurRight, Working, AtIssue
  <2> QED
    BY <1>1, <2>1, <2>2, <2>4, <2>5, <2>6, <2>7, <2>8, FaultsBounded, WorkKeeps
<1> QED
  BY <1>3, <1>4

(* The sidecar lists the records of the merge it is of, or what the pages  *)
(* showed; wvj-archive alone leaves out what it could not fetch.           *)
LEMMA SaveKeeps ==
  ASSUME ArchiveInv, job.pc = "sidecar", UNCHANGED <<owner, served, announced, unheard>>,
         Fault \/ NoFault,
         NEW toc \in SUBSET Article(job.cur), NEW cut \in BOOLEAN, SaveSidecar(toc, cut),
         job.records = None /\ job.mode # "wvj" /\ ~cut => toc = Article(job.cur)
  PROVE  ArchiveKept
<1> DEFINE c == job.cur
           d == [disk[c] EXCEPT !.sidecar = toc, !.unsized = disk[c].unsized \/ cut]
           new == Report(Status)
<1>1. job.pc \in Working
  BY DEF Working
<1>2. /\ c \in Issue /\ disk[c] \in DiskState /\ disk[c].sidecar = None /\ disk[c].pdf # None
      /\ CurRight(job, disk[c]) /\ owner[c] = job.mode /\ FilesRight(c, disk[c])
  BY <1>1, AtWork DEF CurRight
<1>3. job' = new /\ disk' = [disk EXCEPT ![c] = d]
  BY <1>2 DEF SaveSidecar
<1>4. toc # None /\ toc \in SomeContents
  BY <1>2, NoneAssumption DEF SomeContents
<1>5. disk[c].unsized \in BOOLEAN
  BY <1>2 DEF DiskState
<1>6. d \in DiskState /\ d.pdf = disk[c].pdf /\ d.sidecar = toc
      /\ (d.unsized <=> disk[c].unsized \/ cut)
  BY <1>2, <1>4, <1>5 DEF DiskState
<1>7. Status \in Statuses \ {"error", "no-pdf"} /\ Status \in Recovered
  BY DEF Status, Statuses, Recovered
<1>8. /\ new \in JobState /\ new.pc = "report" /\ new.status \in Statuses
      /\ new.status \in Recovered
      /\ new.mode = job.mode /\ new.cur = c
      /\ new.queue = job.queue /\ new.held = job.held
      /\ new.printed = job.printed /\ new.absent = job.absent /\ new.error = job.error
      /\ new.listed = job.listed /\ new.page = job.page
  BY <1>1, <1>7, AtWork, ReportTyped
<1> HIDE DEF new, d
<1>9. FilesRight(c, d)
  <2>1. owner[c] # "wvj" /\ d.pdf.name # "synthetic" /\ ~d.unsized => toc = Article(c)
    BY <1>2, <1>6 DEF CurRight
  <2> QED
    BY <1>2, <1>6, <2>1 DEF FilesRight
<1>10. CurRight(new, d) /\ new.pc \in AtIssue
  BY <1>2, <1>4, <1>6, <1>8 DEF CurRight, Working, AtIssue
<1> QED
  BY <1>1, <1>2, <1>3, <1>6, <1>8, <1>9, <1>10, FaultsBounded, WorkKeeps

LEMMA SidecarKeeps ==
  ASSUME ArchiveInv, WriteSidecar
  PROVE  ArchiveKept
<1> DEFINE c == job.cur
<1>1. job.pc = "sidecar" /\ job.pc \in Working /\ UNCHANGED <<owner, served, announced, unheard>>
  BY DEF WriteSidecar, Working
<1>2. CurRight(job, disk[c]) /\ c \in Issue /\ job.page \in IssuePages(c)
  BY <1>1, AtWork DEF CurRight
<1>3. CASE Fault /\ job' = Report("error") /\ disk' = disk
  BY <1>1, <1>3, GivesUp
<1>4. CASE job.records # None /\ NoFault /\ SaveSidecar(job.records, FALSE)
  <2>1. job.records \subseteq Article(c)
    BY <1>1, <1>2, <1>4 DEF CurRight
  <2> QED
    BY <1>1, <1>4, <2>1, SaveKeeps
<1>5. CASE /\ job.records = None
           /\ \E t \in {"ok", "outage", "unsized"}, gap \in Gaps(job.page) :
                /\ t = "ok" <=> gap = {}
                /\ ~PageEnds(job.mode, t)
                /\ FaultIf(t # "ok")
                /\ SaveSidecar(job.page.articles \ gap,
                               t = "unsized" \/ job.page.articles # Article(job.cur))
  <2>1. PICK t \in {"ok", "outage", "unsized"}, gap \in Gaps(job.page) :
          /\ t = "ok" <=> gap = {}
          /\ ~PageEnds(job.mode, t)
          /\ Fault \/ NoFault
          /\ SaveSidecar(job.page.articles \ gap,
                         t = "unsized" \/ job.page.articles # Article(job.cur))
    BY <1>5 DEF FaultIf
  <2> DEFINE toc == job.page.articles \ gap
             cut == t = "unsized" \/ job.page.articles # Article(c)
  <2>2. toc \subseteq Article(c) /\ cut \in BOOLEAN
    BY <1>2, PageArticles
  <2>3. job.mode # "wvj" /\ ~cut => toc = Article(c)
    BY <2>1 DEF PageEnds
  <2>4. SaveSidecar(toc, cut)
    BY <2>1
  <2> HIDE DEF toc, cut
  <2> QED
    BY <1>1, <2>1, <2>2, <2>3, <2>4, SaveKeeps
<1> QED
  BY <1>3, <1>4, <1>5 DEF WriteSidecar

-----------------------------------------------------------------------------
(* What a run is given to walk: issues of its own, and for a backfill all  *)
(* that are not complete, now or held back.                                *)
LEMMA QueuesRight ==
  ASSUME NEW mode \in Mode, NEW listed \in SUBSET Issue, NEW queues \in Queues(mode, listed)
  PROVE  /\ queues[1] \in Seq(Issue) /\ queues[2] \in Seq(Issue)
         /\ Members(queues[1]) \cup Members(queues[2]) \subseteq listed
         /\ mode = "backfill" =>
              Members(queues[1]) \cup Members(queues[2]) = {i \in listed : ~Complete(i)}
<1>1. <<>> \in Seq(Issue) /\ Members(<<>>) = {}
  BY NoRunTyped
<1>2. CASE mode = "wvj"
  <2>1. queues = <<WvjIssues(listed), <<>>>>
    BY <1>2 DEF Queues
  <2>2. queues[1] = WvjIssues(listed) /\ queues[2] = <<>>
    BY <2>1
  <2>3. queues[1] \in Seq(Issue) /\ Members(queues[1]) = listed
    BY <1>2, <2>2, OwnQueues
  <2> QED
    BY <1>1, <1>2, <2>2, <2>3
<1>3. CASE mode = "current"
  <2>1. queues = <<GwmIssues(listed), <<>>>>
    BY <1>3 DEF Queues
  <2>2. queues[1] = GwmIssues(listed) /\ queues[2] = <<>>
    BY <2>1
  <2>3. queues[1] \in Seq(Issue) /\ Members(queues[1]) = listed
    BY <2>2, OwnQueues
  <2> QED
    BY <1>1, <1>3, <2>2, <2>3
<1>4. CASE mode = "backfill"
  <2> DEFINE own == GwmIssues(listed)
             gaps == Missing(own)
  <2>1. own \in Seq(Issue) /\ Members(own) = listed
    BY OwnQueues
  <2>2. gaps \in Seq(Issue) /\ Members(gaps) = {i \in listed : ~Complete(i)}
    <3>1. gaps = Within(own, {i \in Issue : ~Complete(i)})
      BY DEF Missing
    <3> HIDE DEF own
    <3>2. gaps \in Seq(Issue) /\ Members(gaps) = Members(own) \cap {i \in Issue : ~Complete(i)}
      BY <2>1, <3>1, WithinMembers
    <3> HIDE DEF gaps
    <3> QED
      BY <2>1, <3>2
  <2> HIDE DEF gaps, own
  <2>3. PICK c \in Samples(gaps) : queues = <<Within(gaps, c), Without(gaps, c)>>
    BY <1>4 DEF Queues, SplitBackfillSample, gaps, own
  <2> DEFINE first == Within(gaps, c)
             rest == Within(gaps, Issue \ c)
  <2>4. first \in Seq(Issue) /\ Members(first) = Members(gaps) \cap c
    BY <2>2, WithinMembers
  <2>5. rest \in Seq(Issue) /\ Members(rest) = Members(gaps) \cap (Issue \ c)
    BY <2>2, WithinMembers
  <2>6. queues[1] = first /\ queues[2] = rest
    BY <2>3 DEF Without
  <2> HIDE DEF first, rest
  <2>7. Members(gaps) \subseteq Issue
    BY <2>2
  <2> QED
    BY <1>4, <2>2, <2>4, <2>5, <2>6, <2>7
<1> QED
  BY <1>2, <1>3, <1>4 DEF Mode

(* A run starts with a queue of its own issues that are not archived.      *)
LEMMA StartKeeps ==
  ASSUME ArchiveInv, NEW mode \in Mode, StartRun(mode)
  PROVE  ArchiveKept
<1>1. UNCHANGED <<owner, served, disk, announced, unheard>> /\ job.mode = None
  BY DEF StartRun
<1>2. PICK listed \in (SUBSET Own(mode)) \ {{}} :
        /\ Fault \/ NoFault
        /\ \E queues \in Queues(mode, listed) :
             job' = [NoRun EXCEPT !.mode = mode, !.pc = "next", !.listed = listed,
                                  !.queue = queues[1], !.held = queues[2]]
  BY DEF StartRun, FaultIf
<1>3. PICK queues \in Queues(mode, listed) :
        job' = [NoRun EXCEPT !.mode = mode, !.pc = "next", !.listed = listed,
                             !.queue = queues[1], !.held = queues[2]]
  BY <1>2
<1> DEFINE new == [NoRun EXCEPT !.mode = mode, !.pc = "next", !.listed = listed,
                                !.queue = queues[1], !.held = queues[2]]
<1>4. listed \subseteq Own(mode) /\ Own(mode) \subseteq {i \in Issue : owner[i] = mode}
  BY DEF Own
<1>5. /\ queues[1] \in Seq(Issue) /\ queues[2] \in Seq(Issue)
      /\ Members(queues[1]) \cup Members(queues[2]) \subseteq listed
      /\ mode = "backfill" =>
           Members(queues[1]) \cup Members(queues[2]) = {i \in listed : ~Complete(i)}
  BY <1>4, QueuesRight
<1>6. /\ new \in JobState /\ new.mode = mode /\ new.pc = "next" /\ new.queue = queues[1]
      /\ new.held = queues[2] /\ new.printed = {} /\ new.listed = listed
  BY <1>4, <1>5, NoRunTyped DEF JobState, NoRun
<1>7. job' = new /\ faults' \in 0..MaxFaults
  BY <1>2, <1>3, FaultsBounded
<1> HIDE DEF new
<1>8. ArchiveTyped'
  BY <1>1, <1>6, <1>7 DEF ArchiveInv, ArchiveTyped
<1>9. CurSound'
  BY <1>6, <1>7 DEF CurSound, AtIssue, Working
<1>10. QueuesOwn'
  BY <1>1, <1>4, <1>5, <1>6, <1>7 DEF QueuesOwn
<1>11. SweepSound'
  BY <1>1, <1>5, <1>6, <1>7 DEF SweepSound, Complete
<1>12. \A i \in Issue : FilesRight(i, disk[i])' /\ (Complete(i) <=> Complete(i)')
  BY <1>1 DEF ArchiveInv, FilesRight, Complete
<1>13. job.printed = {} /\ Unprinted = {}
  BY <1>1, NoRunTyped DEF ArchiveInv, Idle, Unprinted
<1>14. CompleteIsAnnounced'
  BY <1>1, <1>12, <1>13 DEF ArchiveInv, CompleteIsAnnounced
<1> QED
  <2>1. (\A i \in announced \cup job.printed : Complete(i))'
    BY <1>1, <1>6, <1>7 DEF ArchiveInv, Complete
  <2>2. Idle'
    BY <1>6, <1>7, NoRunTyped DEF Idle
  <2>3. ArchiveInv'
    BY <1>8, <1>9, <1>10, <1>11, <1>12, <1>14, <2>1, <2>2 DEF ArchiveInv
  <2> QED
    BY <1>1, <1>6, <1>7, <2>3 DEF ArchiveKept

(* An issue that is complete is passed over, and one that was announced is *)

(* complete.                                                               *)
LEMMA TakeKeeps ==
  ASSUME ArchiveInv, TakeIssue
  PROVE  ArchiveKept
<1> DEFINE c == Head(job.queue)
           taken == [job EXCEPT !.queue = Tail(@), !.cur = c, !.fresh = disk[c].pdf = None,
                                !.records = None]
<1>1. /\ UNCHANGED <<owner, served, disk, announced, unheard>>
      /\ job.queue # <<>> /\ job \in JobState /\ job.pc = "next"
  BY DEF TakeIssue, ArchiveInv, ArchiveTyped
<1>2. job.queue \in Seq(Issue)
  BY <1>1 DEF JobState
<1>3. /\ c \in Members(job.queue) /\ Tail(job.queue) \in Seq(Issue)
      /\ Members(job.queue) = {c} \cup Members(Tail(job.queue))
  BY <1>1, <1>2, TailMembers
<1>4. c \in Issue /\ owner[c] = job.mode
  BY <1>3 DEF ArchiveInv, QueuesOwn
<1>5. /\ taken \in JobState /\ taken.cur = c /\ taken.queue = Tail(job.queue)
      /\ taken.held = job.held /\ taken.mode = job.mode /\ taken.printed = job.printed
      /\ taken.absent = job.absent /\ taken.error = job.error /\ taken.records = None
      /\ taken.listed = job.listed
  BY <1>1, <1>3, <1>4 DEF JobState
<1>6. /\ Fault \/ NoFault
      /\ \/ Complete(c) /\ job' = [taken EXCEPT !.pc = "report", !.status = "skip-complete"]
         \/ /\ ~Complete(c)
            /\ \E page \in IssuePages(c) :
                 job' = [taken EXCEPT !.page = page,
                           !.pc = IF disk[c].pdf = None THEN "full" ELSE "sidecar"]
         \/ ~Complete(c) /\ job' = [taken EXCEPT !.pc = "report", !.status = "error"]
  BY DEF TakeIssue, FaultIf
<1> HIDE DEF taken
<1> DEFINE new == job'
<1>7. /\ new \in JobState /\ new.cur = c /\ new.queue = Tail(job.queue)
      /\ new.held = job.held /\ new.mode = job.mode /\ new.printed = job.printed
      /\ new.absent = job.absent /\ new.error = job.error /\ new.records = None
      /\ new.listed = job.listed
      /\ \/ Complete(c) /\ new.pc = "report" /\ new.status = "skip-complete"
         \/ /\ ~Complete(c) /\ new.page \in IssuePages(c)
            /\ new.pc = IF disk[c].pdf = None THEN "full" ELSE "sidecar"
         \/ ~Complete(c) /\ new.pc = "report" /\ new.status = "error"
  <2> DEFINE Rest == /\ new.cur = c /\ new.queue = Tail(job.queue)
                     /\ new.held = job.held /\ new.mode = job.mode /\ new.printed = job.printed
                     /\ new.absent = job.absent /\ new.error = job.error /\ new.records = None
                     /\ new.listed = job.listed
             Outcome == \/ Complete(c) /\ new.pc = "report" /\ new.status = "skip-complete"
                        \/ /\ ~Complete(c) /\ new.page \in IssuePages(c)
                           /\ new.pc = IF disk[c].pdf = None THEN "full" ELSE "sidecar"
                        \/ ~Complete(c) /\ new.pc = "report" /\ new.status = "error"
  <2>1. ASSUME Complete(c), job' = [taken EXCEPT !.pc = "report", !.status = "skip-complete"]
        PROVE  new \in JobState /\ Rest /\ Outcome
    <3>1. new \in JobState /\ Rest /\ new.pc = "report" /\ new.status = "skip-complete"
      BY <1>5, <2>1 DEF JobState, Statuses
    <3> HIDE DEF new, c
    <3> QED
      BY <2>1, <3>1
  <2>2. ASSUME ~Complete(c), NEW page \in IssuePages(c),
               job' = [taken EXCEPT !.page = page,
                         !.pc = IF disk[c].pdf = None THEN "full" ELSE "sidecar"]
        PROVE  new \in JobState /\ Rest /\ Outcome
    <3> DEFINE pc == IF disk[c].pdf = None THEN "full" ELSE "sidecar"
               read == [taken EXCEPT !.page = page]
    <3>1. job' = [read EXCEPT !.pc = pc] /\ pc \in Working
      BY <1>5, <2>2 DEF Working, JobState
    <3>2. page \in SomePage
      BY <1>4 DEF SomePage
    <3> HIDE DEF pc, c
    <3>4. /\ read \in JobState /\ read.page = page /\ read.cur = c /\ read.queue = Tail(job.queue)
          /\ read.held = job.held /\ read.mode = job.mode /\ read.printed = job.printed
          /\ read.absent = job.absent /\ read.error = job.error /\ read.records = None
          /\ read.listed = job.listed
      BY <1>5, <3>2 DEF JobState
    <3> HIDE DEF read
    <3>3. new \in JobState /\ new.pc = pc /\ new.page = page /\ Rest
      BY <3>1, <3>4 DEF JobState
    <3> HIDE DEF new
    <3> QED
      BY <2>2, <3>3 DEF pc
  <2>3. ASSUME ~Complete(c), job' = [taken EXCEPT !.pc = "report", !.status = "error"]
        PROVE  new \in JobState /\ Rest /\ Outcome
    <3>1. new \in JobState /\ Rest /\ new.pc = "report" /\ new.status = "error"
      BY <1>5, <2>3 DEF JobState, Statuses
    <3> HIDE DEF new, c
    <3> QED
      BY <2>3, <3>1
  <2>4. new \in JobState /\ Rest /\ Outcome
    <3> HIDE DEF Rest, Outcome, new
    <3> QED
      BY <1>6, <2>1, <2>2, <2>3
  <2> QED
    BY <2>4
<1>8. faults' \in 0..MaxFaults
  BY <1>6, FaultsBounded
<1> HIDE DEF new, c
<1>9. job' = new
  BY DEF new
<1>10. disk[c].sidecar # None => disk[c].pdf # None
  BY <1>4 DEF ArchiveInv, FilesRight
<1>11. CurRight(new, disk[c]) /\ new.pc \in AtIssue
  BY <1>7, <1>10 DEF CurRight, Complete, Working, AtIssue, Statuses
<1>12. ~Complete(c) => c \notin announced
  BY DEF ArchiveInv
<1>13. CurSound'
  <2>1. CurRight(job, disk[job.cur])'
    BY <1>1, <1>7, <1>9, <1>11
  <2>2. (job.pc \in Working \/ (job.pc = "report" /\ job.status \in Recovered) =>
           job.cur \notin announced)'
    BY <1>1, <1>7, <1>9, <1>12 DEF Working, Recovered
  <2> QED
    BY <1>1, <1>4, <1>7, <1>9, <2>1, <2>2 DEF CurSound
<1>14. QueuesOwn'
  BY <1>1, <1>3, <1>7, <1>9 DEF ArchiveInv, QueuesOwn
<1>15. SweepSound'
  <2>1. job.pc \notin AtIssue
    BY <1>1 DEF AtIssue, Working
  <2> QED
    BY <1>1, <1>3, <1>7, <1>9, <1>11, <2>1 DEF ArchiveInv, SweepSound, Complete
<1>16. ArchiveTyped' /\ Idle'
  <2>1. job.mode # None
    BY <1>1, NoRunTyped DEF ArchiveInv, Idle
  <2> QED
    BY <1>1, <1>7, <1>8, <1>9, <2>1 DEF ArchiveInv, ArchiveTyped, Idle
<1>17. \A i \in Issue : FilesRight(i, disk[i])' /\ (Complete(i) <=> Complete(i)')
  BY <1>1 DEF ArchiveInv, FilesRight, Complete
<1>18. CompleteIsAnnounced'
  <2>1. Unprinted = {}
    BY <1>1 DEF Unprinted
  <2> QED
    BY <1>1, <1>7, <1>9, <1>17, <2>1 DEF ArchiveInv, CompleteIsAnnounced
<1> QED
  <2>1. job.printed \subseteq Issue /\ \A i \in announced \cup job.printed : Complete(i)
    BY <1>1 DEF ArchiveInv, JobState
  <2>2. (\A i \in announced \cup job.printed : Complete(i))'
    BY <1>1, <1>7, <1>9, <2>1 DEF Complete
  <2>3. ArchiveInv'
    BY <1>13, <1>14, <1>15, <1>16, <1>17, <1>18, <2>2 DEF ArchiveInv
  <2> QED
    BY <1>1, <1>7, <1>9, <2>3 DEF ArchiveKept

(* The end of an issue: what was recovered is complete, and releases what  *)

(* a backfill held back.                                                   *)
LEMMA ReportKeeps ==
  ASSUME ArchiveInv, ReportIssue
  PROVE  ArchiveKept
<1> DEFINE c == job.cur
           hit == job.mode # "wvj" /\ job.status \in Recovered
           printed == IF hit THEN job.printed \cup {c} ELSE job.printed
           absent == IF job.status = "no-pdf" THEN job.absent \cup {c} ELSE job.absent
           queue == IF hit THEN job.queue \o job.held ELSE job.queue
           held == IF hit THEN <<>> ELSE job.held
           error == job.error \/ job.status = "error"
           new == [job EXCEPT !.pc = "next", !.cur = None, !.page = None, !.status = None,
                              !.printed = printed, !.absent = absent, !.error = error,
                              !.queue = queue, !.held = held]
<1>1. /\ job.pc = "report" /\ UNCHANGED <<owner, served, disk, announced, unheard, faults>> /\ job' = new
      /\ job \in JobState
  BY DEF ReportIssue, ArchiveInv, ArchiveTyped
<1>2. /\ c \in Issue /\ CurRight(job, disk[c])
      /\ job.status \in Recovered => c \notin announced
  BY <1>1 DEF ArchiveInv, CurSound, AtIssue
<1>3. /\ job.printed \subseteq Issue /\ job.absent \subseteq Issue /\ job.error \in BOOLEAN
      /\ job.queue \in Seq(Issue) /\ job.held \in Seq(Issue)
  BY <1>1 DEF JobState
<1>4. /\ queue \in Seq(Issue) /\ held \in Seq(Issue)
      /\ Members(queue) \cup Members(held) = Members(job.queue) \cup Members(job.held)
  BY <1>3, ConcatMembers, NoRunTyped
<1>5. printed \subseteq Issue /\ absent \subseteq Issue /\ error \in BOOLEAN
  BY <1>2, <1>3
<1>6. job.status \in {"error", "no-pdf"} \/ Complete(c)
  BY <1>1, <1>2 DEF CurRight, Complete
<1>7. job.status \in Recovered => Complete(c) /\ c \notin announced
  BY <1>2, <1>6 DEF Recovered
<1>8. \A i \in printed \ job.printed : i \notin announced /\ Complete(i)
  BY <1>7
<1>9. printed # {} => held = <<>> \/ (printed = job.printed /\ held = job.held)
  OBVIOUS
<1>20. job.printed \cup Unprinted \subseteq printed
  BY DEF Unprinted
<1>10. job.status = "no-pdf" => c \in absent
  OBVIOUS
<1>11. job.status = "error" => error
  OBVIOUS
<1>12. job.absent \subseteq absent /\ (job.error => error)
  OBVIOUS
<1> HIDE DEF hit, printed, absent, queue, held, error
<1>13. /\ new \in JobState /\ new.pc = "next" /\ new.mode = job.mode /\ new.queue = queue
       /\ new.held = held /\ new.printed = printed /\ new.absent = absent /\ new.error = error
       /\ new.listed = job.listed
  BY <1>1, <1>4, <1>5 DEF JobState
<1> HIDE DEF new, c
<1>14. ArchiveTyped'
  BY <1>1, <1>13 DEF ArchiveInv, ArchiveTyped
<1>15. CurSound'
  BY <1>1, <1>13 DEF CurSound, AtIssue, Working
<1>16. QueuesOwn'
  BY <1>1, <1>4, <1>13 DEF ArchiveInv, QueuesOwn
<1>17. SweepSound'
  <2>1. \A i : Complete(i) <=> Complete(i)'
    BY <1>1 DEF Complete
  <2>2. ASSUME job.mode = "backfill", NEW i \in job.listed
        PROVE  \/ Complete(i) \/ i \in absent \/ error
               \/ i \in Members(queue) \cup Members(held)
    <3>1. \/ Complete(i) \/ i \in job.absent \/ job.error
          \/ i \in Members(job.queue) \cup Members(job.held)
          \/ i = c
      BY <2>2 DEF ArchiveInv, SweepSound, c
    <3> QED
      BY <1>4, <1>6, <1>10, <1>11, <1>12, <3>1
  <2>3. job.mode = "backfill" /\ printed # {} => held = <<>>
    BY <1>9 DEF ArchiveInv, SweepSound
  <2> QED
    BY <1>1, <1>13, <2>1, <2>2, <2>3 DEF SweepSound
<1>18. \A i \in Issue : FilesRight(i, disk[i])' /\ (Complete(i) <=> Complete(i)')
  BY <1>1 DEF ArchiveInv, FilesRight, Complete
<1>21. CompleteIsAnnounced'
  BY <1>1, <1>13, <1>18, <1>20 DEF ArchiveInv, CompleteIsAnnounced
<1>22. Idle'
  BY <1>1, <1>13, NoRunTyped DEF ArchiveInv, Idle
<1>19. \A i \in announced' \cup job'.printed : Complete(i)'
  BY <1>1, <1>3, <1>5, <1>8, <1>13, <1>18 DEF ArchiveInv, ArchiveTyped
<1> QED
  <2>1. ArchiveInv'
    BY <1>14, <1>15, <1>16, <1>17, <1>18, <1>19, <1>21, <1>22 DEF ArchiveInv
  <2> QED
    BY <1>1, <1>8, <1>13, <2>1 DEF ArchiveKept

(* At the start the archive is as the scenario says, and no job runs.      *)
LEMMA ArchiveStarts ==
  ASSUME ArchiveInit
  PROVE  ArchiveInv
<1> DEFINE d == Nothing
<1>1. d \in DiskState /\ d.pdf = None /\ d.sidecar = None
  BY DEF DiskState, Nothing
<1> HIDE DEF d
<1>2. /\ owner \in Owners /\ served = {} /\ disk = [i \in Issue |-> d] /\ job = NoRun
      /\ announced = {} /\ unheard = {} /\ faults = 0
  BY DEF ArchiveInit, d
<1>3. ArchiveTyped
  BY <1>1, <1>2, NoRunTyped, OwnersAssumption, BoundsAssumption DEF ArchiveTyped
<1>4. \A i \in Issue : FilesRight(i, disk[i])
  BY <1>1, <1>2 DEF FilesRight
<1>5. CurSound /\ QueuesOwn /\ SweepSound
  <2>1. None # "backfill"
    BY NoneAssumption DEF Mode
  <2> QED
    BY <1>2, <2>1, NoRunTyped DEF CurSound, QueuesOwn, SweepSound, AtIssue, Working
<1>6. CompleteIsAnnounced /\ Idle
  BY <1>1, <1>2 DEF CompleteIsAnnounced, Complete, Idle
<1> QED
  BY <1>2, <1>3, <1>4, <1>5, <1>6, NoRunTyped DEF ArchiveInv

(* A step of the archive keeps the invariant.                              *)
LEMMA ArchiveStep ==
  ASSUME ArchiveInv, ArchiveNext
  PROVE  ArchiveKept
<1>1. ASSUME NEW i \in Issue, PublishIssue(i) PROVE ArchiveKept
  <2>1. served \subseteq Issue /\ faults \in 0..MaxFaults
    BY DEF ArchiveInv, ArchiveTyped
  <2> QED
    BY <1>1, <2>1, OutsideKeeps DEF PublishIssue
<1>2. CASE RestoreArchive
  <2>1. served \subseteq Issue /\ faults \in 0..MaxFaults
    BY DEF ArchiveInv, ArchiveTyped
  <2> QED
    BY <1>2, <2>1, OutsideKeeps DEF RestoreArchive
<1>3. ASSUME NEW mode \in Mode, StartRun(mode) PROVE ArchiveKept
  BY <1>3, StartKeeps
<1>4. CASE RunStep
  <2>1. CASE FinishRun
    <3>1. faults' \in 0..MaxFaults
      BY <2>1 DEF FinishRun, ArchiveInv, ArchiveTyped
    <3>2. Unprinted = {}
      BY <2>1 DEF FinishRun, Unprinted
    <3> QED
      BY <2>1, <3>1, <3>2, RunEnds DEF FinishRun
  <2> QED
    BY <1>4, <2>1, TakeKeeps, FindKeeps, DownloadKeeps, RenameKeeps, SynthesiseKeeps, MergeKeeps,
       SidecarKeeps, ReportKeeps DEF RunStep
<1>5. CASE RunTimesOut
  <2>1. faults' \in 0..MaxFaults
    BY <1>5, FaultsBounded DEF RunTimesOut
  <2> QED
    BY <1>5, <2>1, RunEnds DEF RunTimesOut
<1> QED
  BY <1>1, <1>2, <1>3, <1>4, <1>5 DEF ArchiveNext

-----------------------------------------------------------------------------
(* Komga and the sync.                                                     *)

SyncState ==
  [ pc : {"off", "index", "request", "wait", "books"},
    sidecars : SUBSET Issue, cached : SUBSET Issue, waiting : SUBSET Issue,
    todo : Seq(Issue), got : BOOLEAN, diff : BOOLEAN, failed : SUBSET Issue,
    ask : Issue \cup {None}, seen : SUBSET Series, blank : SUBSET Series,
    unnamed : SUBSET Issue, error : BOOLEAN, exit : {None, 0, 1, 2} ]

(* Metadata in a book is locked, and what the sidecar asks for.            *)
BookRight(i) ==
  /\ book[i] \in Book(i) \cup {None}
  /\ book[i] # None => disk[i].pdf # None
  /\ book[i] # None /\ book[i].meta # None =>
       book[i].locked /\ book[i].meta = disk[i].sidecar

SomeBook == UNION {Book(i) : i \in Issue}
KomgaInv ==
  /\ book \in [Issue -> SomeBook \cup {None}]
  /\ \A i \in Issue : BookRight(i)
  /\ series \subseteq Series
  /\ scanning \subseteq Library
  /\ hashed \subseteq Library

Synced(i) == InKomga(i) /\ book[i].meta = Desired(i)

(* A sync walks complete issues; each is still to do, failed, or synced,   *)
(* and then its series is known, was asked for in vain, or is being asked  *)
(* for.                                                                    *)
Asked(i) == SeriesOf(i) \in sync.seen \/ i \in sync.unnamed \/ i = sync.ask
SyncInv ==
  /\ sync \in SyncState
  /\ sync.cached \cup sync.waiting \cup sync.failed \cup sync.unnamed \cup Members(sync.todo)
       \subseteq sync.sidecars
  /\ sync.ask \in sync.sidecars \cup {None}
  /\ \A i \in sync.sidecars :
       /\ Complete(i)
       /\ \/ i \in sync.failed
          \/ i \in Members(sync.todo)
          \/ Synced(i) /\ Asked(i)
  /\ sync.got => sync.todo # <<>> /\ sync.ask = None
  /\ sync.got /\ ~sync.diff => Synced(Head(sync.todo))

IInv == ArchiveInv /\ KomgaInv /\ SyncInv

(* What no step does to a book: take the metadata out of it while its file *)
(* is there, or undo what a sync has done.                                 *)
BooksKept ==
  /\ KomgaInv'
  /\ \A i \in Issue :
       /\ book[i] # None /\ book[i].meta # None /\ book[i].name = disk'[i].pdf.name
            => book'[i] # None /\ book'[i].meta = book[i].meta
       /\ Complete(i) /\ Synced(i) => Synced(i)'

(* A step of the archive changes no complete issue, and only those have    *)
(* metadata in Komga.                                                      *)
LEMMA ArchiveLeavesBooks ==
  ASSUME IInv, ArchiveKept, UNCHANGED komgaVars
  PROVE  BooksKept
<1>1. UNCHANGED <<book, series, scanning, hashed>>
  BY DEF komgaVars
<1>2. ASSUME NEW i \in Issue
      PROVE  BookRight(i)' /\ (Complete(i) /\ Synced(i) => Synced(i)')
  <2>1. /\ BookRight(i)
        /\ Complete(i) => disk'[i] = disk[i]
        /\ disk[i].pdf # None => disk'[i].pdf # None
    BY DEF IInv, KomgaInv, ArchiveKept
  <2>2. book[i] # None /\ book[i].meta # None => Complete(i)
    <3>1. book[i] # None /\ book[i].meta # None => disk[i].pdf # None /\ disk[i].sidecar # None
      BY <2>1 DEF BookRight
    <3> QED
      BY <3>1 DEF Complete
  <2>3. BookRight(i)'
    BY <1>1, <2>1, <2>2 DEF BookRight
  <2>4. Complete(i) /\ Synced(i) => Synced(i)'
    BY <1>1, <2>1 DEF Synced, InKomga, Desired
  <2> QED
    BY <2>3, <2>4
<1>3. KomgaInv'
  <2>1. Series' = Series
    BY DEF ArchiveKept, Series, SeriesOf, LibraryOf
  <2> QED
    BY <1>1, <1>2, <2>1 DEF IInv, KomgaInv
<1> QED
  BY <1>1, <1>2, <1>3 DEF BooksKept

(* A step that changes no book and no file leaves the books right.         *)
LEMMA SameBooks ==
  ASSUME IInv, UNCHANGED <<owner, disk, book>>, series' \subseteq Series,
         scanning' \subseteq Library, hashed' \subseteq Library
  PROVE  BooksKept
<1>1. \A i \in Issue : BookRight(i)'
  BY DEF IInv, KomgaInv, BookRight
<1>2. Series' = Series
  BY DEF Series, SeriesOf, LibraryOf
<1>3. KomgaInv'
  BY <1>1, <1>2 DEF IInv, KomgaInv
<1>4. \A i : Synced(i) <=> Synced(i)'
  BY DEF Synced, InKomga, Desired
<1> QED
  BY <1>3, <1>4 DEF BooksKept

(* One book changes.                                                       *)
LEMMA OneBook ==
  ASSUME IInv, UNCHANGED <<owner, disk>>, series' \subseteq Series,
         scanning' \subseteq Library, hashed' \subseteq Library,
         NEW i \in Issue, NEW b \in Book(i), book' = [book EXCEPT ![i] = b],
         book[i] # None, b.name = book[i].name,
         b.meta # None => b.locked /\ b.meta = disk[i].sidecar,
         book[i].meta # None => b.meta = book[i].meta
  PROVE  BooksKept
<1>1. /\ book' \in [Issue -> SomeBook \cup {None}] /\ book'[i] = b
      /\ \A j \in Issue \ {i} : book'[j] = book[j]
  <2>1. b \in SomeBook
    BY DEF SomeBook
  <2> QED
    BY <2>1 DEF IInv, KomgaInv
<1>2. b # None
  BY BookAssumption
<1>3. ASSUME NEW j \in Issue PROVE BookRight(j)' /\ (Complete(j) /\ Synced(j) => Synced(j)')
  <2>1. CASE j = i
    <3>1. BookRight(i)
      BY DEF IInv, KomgaInv
    <3>2. disk[i].pdf # None
      BY <3>1 DEF BookRight
    <3>3. BookRight(i)'
      BY <1>1, <1>2, <3>2 DEF BookRight, Book
    <3>4. Complete(i) /\ Synced(i) => Synced(i)'
      BY <1>1, <1>2 DEF Synced, InKomga, Desired, Complete
    <3> QED
      BY <2>1, <3>3, <3>4
  <2>2. CASE j # i
    <3>1. BookRight(j) /\ book'[j] = book[j]
      BY <1>1, <2>2 DEF IInv, KomgaInv
    <3> QED
      BY <3>1 DEF BookRight, Book, Synced, InKomga, Desired
  <2> QED
    BY <2>1, <2>2
<1>4. Series' = Series
  BY DEF Series, SeriesOf, LibraryOf
<1>5. KomgaInv'
  BY <1>1, <1>3, <1>4 DEF IInv, KomgaInv
<1>6. \A j \in Issue : book[j] # None /\ book[j].meta # None =>
                          book'[j] # None /\ book'[j].meta = book[j].meta
  BY <1>1, <1>2
<1> QED
  BY <1>3, <1>5, <1>6 DEF BooksKept

(* A scan indexes the files there are, and drops those that are gone.      *)
LEMMA ScanKeepsBooks ==
  ASSUME IInv, NEW l \in Library, ScanLibrary(l)
  PROVE  BooksKept
<1>1. /\ UNCHANGED <<owner, disk, series, hashed>>
      /\ scanning' = scanning \ {l}
      /\ book' = [i \in Issue |->
                    IF LibraryOf(i) # l THEN book[i]
                    ELSE IF disk[i].pdf = None THEN None
                    ELSE IF book[i] # None /\ book[i].name = disk[i].pdf.name THEN book[i]
                    ELSE FreshBook(i)]
  BY DEF ScanLibrary, archiveVars
<1>2. ASSUME NEW i \in Issue
      PROVE  /\ BookRight(i)' /\ book'[i] \in SomeBook \cup {None}
             /\ book[i] # None /\ book[i].meta # None /\ book[i].name = disk'[i].pdf.name
                  => book'[i] # None /\ book'[i].meta = book[i].meta
             /\ Complete(i) /\ Synced(i) => Synced(i)'
  <2>1. BookRight(i) /\ disk[i] \in DiskState /\ book[i] \in SomeBook \cup {None}
    BY DEF IInv, KomgaInv, ArchiveInv, ArchiveTyped
  <2>2. CASE book'[i] = book[i]
    BY <1>1, <2>1, <2>2 DEF BookRight, Book, Synced, InKomga, Desired
  <2>3. CASE disk[i].pdf = None /\ book'[i] = None
    <3>1. book[i] = None
      BY <2>1, <2>3 DEF BookRight
    <3> QED
      BY <2>3, <3>1 DEF BookRight, Synced, InKomga
  <2>4. CASE /\ disk[i].pdf # None /\ book'[i] = FreshBook(i)
             /\ ~(book[i] # None /\ book[i].name = disk[i].pdf.name)
    <3>1. disk[i].pdf \in Pdf
      BY <2>1, <2>4 DEF DiskState
    <3>2. FreshBook(i) \in Book(i) /\ FreshBook(i).meta = None
      <4> DEFINE name == disk[i].pdf.name
                 b == [name |-> name, meta |-> None, locked |-> FALSE]
      <4>1. name \in {"full", "synthetic", "DOWNLOADING"}
        BY <3>1 DEF Pdf
      <4> HIDE DEF name
      <4>2. b \in Book(i) /\ b.meta = None
        <5> DEFINE metas == (SUBSET Article(i)) \cup {None}
        <5>1. None \in metas
          OBVIOUS
        <5> HIDE DEF metas
        <5>2. b \in [name : {"full", "synthetic", "DOWNLOADING"}, meta : metas, locked : BOOLEAN]
          BY <4>1, <5>1
        <5> QED
          BY <5>2 DEF Book, metas
      <4> QED
        BY <4>2 DEF FreshBook, name
    <3>3. FreshBook(i) \in SomeBook
      BY <3>2 DEF SomeBook
    <3>4. BookRight(i)'
      BY <1>1, <2>4, <3>2 DEF BookRight, Book
    <3> QED
      BY <1>1, <2>4, <3>3, <3>4 DEF Synced, InKomga
  <2> QED
    BY <1>1, <2>2, <2>3, <2>4
<1>3. book' \in [Issue -> SomeBook \cup {None}]
  BY <1>1, <1>2
<1>4. Series' = Series
  BY <1>1 DEF Series, SeriesOf, LibraryOf
<1>5. KomgaInv'
  BY <1>1, <1>2, <1>3, <1>4 DEF IInv, KomgaInv
<1> QED
  BY <1>2, <1>5 DEF BooksKept

-----------------------------------------------------------------------------
(* The sync. *)
LEMMA NoSyncRight ==
  ASSUME NEW exit \in {None, 0, 1, 2}
  PROVE  /\ [NoSync EXCEPT !.exit = exit] \in SyncState
         /\ [NoSync EXCEPT !.exit = exit].sidecars = {}
         /\ [NoSync EXCEPT !.exit = exit].cached = {}
         /\ [NoSync EXCEPT !.exit = exit].waiting = {}
         /\ [NoSync EXCEPT !.exit = exit].failed = {}
         /\ [NoSync EXCEPT !.exit = exit].unnamed = {}
         /\ [NoSync EXCEPT !.exit = exit].ask = None
         /\ [NoSync EXCEPT !.exit = exit].todo = <<>>
         /\ ~[NoSync EXCEPT !.exit = exit].got
         /\ NoSync = [NoSync EXCEPT !.exit = None]
<1>1. <<>> \in Seq(Issue)
  BY NoRunTyped
<1>2. NoSync \in SyncState
  BY <1>1 DEF NoSync, SyncState
<1>3. /\ NoSync.sidecars = {} /\ NoSync.cached = {} /\ NoSync.waiting = {} /\ NoSync.failed = {}
      /\ NoSync.unnamed = {} /\ NoSync.ask = None
      /\ NoSync.todo = <<>> /\ ~NoSync.got /\ NoSync.exit = None
  BY DEF NoSync
<1>4. [NoSync EXCEPT !.exit = exit] \in SyncState
  BY <1>2 DEF SyncState
<1> QED
  BY <1>2, <1>3, <1>4 DEF SyncState

(* A sync that is over holds nothing.                                      *)
LEMMA SyncEnds ==
  ASSUME NEW exit \in {None, 0, 1, 2}, sync' = [NoSync EXCEPT !.exit = exit],
         Series' = Series
  PROVE  SyncInv'
<1> DEFINE new == [NoSync EXCEPT !.exit = exit]
<1>1. /\ new \in SyncState /\ new.sidecars = {} /\ new.cached = {} /\ new.waiting = {}
      /\ new.failed = {} /\ new.unnamed = {} /\ new.ask = None /\ new.todo = <<>> /\ ~new.got
  BY NoSyncRight
<1> HIDE DEF new
<1>2. sync' = new
  BY DEF new
<1>3. SyncState' = SyncState
  BY DEF SyncState
<1> QED
  BY <1>1, <1>2, <1>3, NoRunTyped DEF SyncInv

(* A sync that goes on elsewhere.                                          *)
LEMMA SyncStands ==
  ASSUME IInv, owner' = owner, sync' = sync, BooksKept,
         \A i \in Issue : Complete(i) => disk'[i] = disk[i]
  PROVE  SyncInv'
<1>1. \A i : SeriesOf(i)' = SeriesOf(i)
  BY DEF SeriesOf, LibraryOf
<1>2. SyncState' = SyncState
  BY DEF SyncState, Series, SeriesOf, LibraryOf
<1>3. sync.sidecars \subseteq Issue
  BY DEF IInv, SyncInv, SyncState
<1>4. \A i \in sync.sidecars : Complete(i) /\ Complete(i)' /\ (Synced(i) => Synced(i)')
  BY <1>3 DEF IInv, SyncInv, BooksKept, Complete
<1>5. sync.got => Head(sync.todo) \in sync.sidecars
  <2>1. sync.todo \in Seq(Issue)
    BY DEF IInv, SyncInv, SyncState
  <2> QED
    BY <2>1, TailMembers DEF IInv, SyncInv
<1> QED
  BY <1>1, <1>2, <1>4, <1>5 DEF IInv, SyncInv, Asked

(* A sync starts with the sidecars there are.                              *)
LEMMA StartSyncKeeps ==
  ASSUME IInv, StartSync
  PROVE  BooksKept /\ SyncInv'
<1> DEFINE todo == Within(Index, Sidecars)
           new == [NoSync EXCEPT !.pc = "index", !.sidecars = Sidecars, !.todo = todo]
<1>1. /\ UNCHANGED <<owner, disk, book, series, scanning>> /\ sync' = new
      /\ hashed' \subseteq Library
  BY DEF StartSync, EnsureHashKoreader, IInv, KomgaInv
<1>2. BooksKept
  BY <1>1, SameBooks DEF IInv, KomgaInv
<1>3. Sidecars \subseteq Issue /\ \A i \in Sidecars : Complete(i)
  BY DEF Sidecars, HasSidecar, Complete
<1>4. todo \in Seq(Issue) /\ Members(todo) = Sidecars
  <2> DEFINE sidecars == Sidecars
  <2>1. sidecars \subseteq Issue
    BY <1>3
  <2> HIDE DEF sidecars
  <2>2. /\ Within(Index, sidecars) \in Seq(Issue)
        /\ Members(Within(Index, sidecars)) = Members(Index) \cap sidecars
    BY IndexMembers, WithinMembers
  <2> QED
    BY <2>1, <2>2, IndexMembers DEF sidecars
<1> HIDE DEF todo
<1>5. /\ new \in SyncState /\ new.sidecars = Sidecars /\ new.todo = todo /\ ~new.got
      /\ new.cached = {} /\ new.waiting = {} /\ new.failed = {} /\ new.unnamed = {} /\ new.ask = None
  BY <1>3, <1>4 DEF NoSync, SyncState
<1> HIDE DEF new
<1>6. SyncState' = SyncState
  BY <1>1 DEF SyncState, Series, SeriesOf, LibraryOf
<1>7. \A i \in Sidecars : Complete(i)'
  BY <1>1, <1>3 DEF Complete
<1>8. SyncInv'
  BY <1>1, <1>3, <1>4, <1>5, <1>6, <1>7 DEF SyncInv
<1> QED
  BY <1>2, <1>8

(* Looking at the index, asking for scans and waiting for them leave alone *)
(* what is done and what is to do.                                         *)
LEMMA GateKeeps ==
  ASSUME IInv, UNCHANGED <<owner, disk, book, series, hashed>>, scanning' \subseteq Library,
         NEW new \in SyncState, sync' = new,
         new.sidecars = sync.sidecars, new.todo = sync.todo, new.got = sync.got,
         new.diff = sync.diff, new.failed = sync.failed, new.seen = sync.seen,
         new.ask = sync.ask, new.unnamed = sync.unnamed,
         new.cached \cup new.waiting \subseteq sync.sidecars
  PROVE  BooksKept /\ SyncInv'
<1>1. BooksKept
  BY SameBooks DEF IInv, KomgaInv
<1>2. SyncState' = SyncState
  BY DEF SyncState, Series, SeriesOf, LibraryOf
<1>3. \A i : /\ SeriesOf(i)' = SeriesOf(i) /\ (Complete(i) <=> Complete(i)')
             /\ (Synced(i) <=> Synced(i)')
  BY DEF SeriesOf, LibraryOf, Complete, Synced, InKomga, Desired
<1>4. SyncInv'
  BY <1>2, <1>3 DEF IInv, SyncInv, Asked
<1> QED
  BY <1>1, <1>4

(* The book list is read, before the scans and with each poll.             *)
LEMMA ReadIndexKeeps ==
  ASSUME IInv, ReadBookIndex \/ PollBookIndex \/ LeaveGate
  PROVE  BooksKept /\ SyncInv'
<1>1. /\ UNCHANGED <<owner, disk, book, series, scanning, hashed>>
      /\ sync \in SyncState /\ sync.cached \cup sync.waiting \subseteq sync.sidecars
      /\ sync.sidecars \subseteq Issue /\ scanning \subseteq Library
  BY DEF ReadBookIndex, PollBookIndex, LeaveGate, komgaVars, IInv, SyncInv, SyncState, KomgaInv
<1>2. CASE ReadBookIndex
  <2>1. PICK cached \in SUBSET sync.sidecars :
          sync' = [sync EXCEPT !.cached = cached,
                               !.pc = IF cached = sync.sidecars THEN "books" ELSE "request"]
    BY <1>2 DEF ReadBookIndex
  <2> DEFINE pc == IF cached = sync.sidecars THEN "books" ELSE "request"
             new == [sync EXCEPT !.cached = cached, !.pc = pc]
  <2>2. pc \in {"books", "request"}
    OBVIOUS
  <2> HIDE DEF pc
  <2>3. /\ new \in SyncState /\ new.sidecars = sync.sidecars /\ new.todo = sync.todo
        /\ new.got = sync.got /\ new.diff = sync.diff /\ new.failed = sync.failed
        /\ new.ask = sync.ask /\ new.unnamed = sync.unnamed
        /\ new.seen = sync.seen /\ new.cached = cached /\ new.waiting = sync.waiting
    BY <1>1, <2>1, <2>2 DEF SyncState
  <2>4. sync' = new
    BY <2>1 DEF pc
  <2> HIDE DEF new
  <2> QED
    BY <1>1, <2>1, <2>3, <2>4, GateKeeps
<1>3. CASE PollBookIndex
  <2>1. PICK cached \in SUBSET sync.sidecars :
          sync' = [sync EXCEPT !.cached = cached, !.waiting = @ \ cached]
    BY <1>3 DEF PollBookIndex
  <2> DEFINE waiting == sync.waiting \ cached
             new == [sync EXCEPT !.cached = cached, !.waiting = waiting]
  <2>2. waiting \subseteq sync.waiting
    OBVIOUS
  <2> HIDE DEF waiting
  <2>3. /\ new \in SyncState /\ new.sidecars = sync.sidecars /\ new.todo = sync.todo
        /\ new.got = sync.got /\ new.diff = sync.diff /\ new.failed = sync.failed
        /\ new.ask = sync.ask /\ new.unnamed = sync.unnamed
        /\ new.seen = sync.seen /\ new.cached = cached /\ new.waiting = waiting
    BY <1>1, <2>1, <2>2 DEF SyncState
  <2>4. sync' = new
    BY <2>1 DEF waiting
  <2> HIDE DEF new
  <2> QED
    BY <1>1, <2>1, <2>2, <2>3, <2>4, GateKeeps
<1>4. CASE LeaveGate
  <2> DEFINE new == [sync EXCEPT !.pc = "books", !.waiting = {}]
  <2>1. sync' = new
    BY <1>4 DEF LeaveGate
  <2>2. /\ new \in SyncState /\ new.sidecars = sync.sidecars /\ new.todo = sync.todo
        /\ new.got = sync.got /\ new.diff = sync.diff /\ new.failed = sync.failed
        /\ new.ask = sync.ask /\ new.unnamed = sync.unnamed
        /\ new.seen = sync.seen /\ new.cached = sync.cached /\ new.waiting = {}
    BY <1>1 DEF SyncState
  <2> HIDE DEF new
  <2> QED
    BY <1>1, <2>1, <2>2, GateKeeps
<1> QED
  BY <1>2, <1>3, <1>4

(* The scans are asked for.                                                *)
LEMMA RequestKeeps ==
  ASSUME IInv, RequestScans
  PROVE  BooksKept /\ SyncInv'
<1> DEFINE pending == sync.sidecars \ sync.cached
           wanted == Wanted(pending)
<1>1. /\ UNCHANGED <<owner, disk, book, series, hashed>>
      /\ sync \in SyncState /\ sync.cached \cup sync.waiting \subseteq sync.sidecars
      /\ scanning \subseteq Library
  BY DEF RequestScans, IInv, SyncInv, KomgaInv
<1>2. PICK refused \in {{}} \cup {{l} : l \in wanted} :
        /\ scanning' = scanning \cup (wanted \ refused)
        /\ sync' = [sync EXCEPT !.pc = "wait", !.error = refused # {},
                      !.waiting = {i \in pending : LibraryOf(i) \in wanted \ refused}]
  BY DEF RequestScans
<1> DEFINE waiting == {i \in pending : LibraryOf(i) \in wanted \ refused}
           error == refused # {}
           new == [sync EXCEPT !.pc = "wait", !.error = error, !.waiting = waiting]
<1>3. scanning' \subseteq Library
  BY <1>1, <1>2 DEF Wanted, LibraryOf, Library
<1>4. waiting \subseteq sync.sidecars /\ error \in BOOLEAN
  OBVIOUS
<1> HIDE DEF waiting, error
<1>5. sync.sidecars \subseteq Issue
  BY <1>1 DEF SyncState
<1>6. /\ new \in SyncState /\ new.sidecars = sync.sidecars /\ new.todo = sync.todo
      /\ new.got = sync.got /\ new.diff = sync.diff /\ new.failed = sync.failed
      /\ new.ask = sync.ask /\ new.unnamed = sync.unnamed
      /\ new.seen = sync.seen /\ new.cached = sync.cached /\ new.waiting = waiting
  BY <1>1, <1>4, <1>5 DEF SyncState
<1>7. sync' = new
  BY <1>2 DEF waiting, error
<1> HIDE DEF new
<1> QED
  BY <1>1, <1>3, <1>4, <1>6, <1>7, GateKeeps

(* A sidecar that fails is done with, and no other. *)
LEMMA FailedKeeps ==
  ASSUME IInv, UNCHANGED <<owner, disk, book, series, scanning, hashed>>,
         sync.todo # <<>>, sync' = Failed(Head(sync.todo))
  PROVE  BooksKept /\ SyncInv'
<1> DEFINE c == Head(sync.todo)
           new == Failed(c)
<1>1. BooksKept
  BY SameBooks DEF IInv, KomgaInv
<1>2. sync \in SyncState /\ sync.todo \in Seq(Issue) /\ sync.sidecars \subseteq Issue
  BY DEF IInv, SyncInv, SyncState
<1>3. /\ c \in Members(sync.todo) /\ Tail(sync.todo) \in Seq(Issue)
      /\ Members(sync.todo) = {c} \cup Members(Tail(sync.todo))
  BY <1>2, TailMembers
<1>4. c \in sync.sidecars
  BY <1>3 DEF IInv, SyncInv
<1> HIDE DEF c
<1>5. /\ new \in SyncState /\ new.sidecars = sync.sidecars /\ new.todo = Tail(sync.todo)
      /\ ~new.got /\ new.failed = sync.failed \cup {c} /\ new.seen = sync.seen
      /\ new.ask = sync.ask /\ new.unnamed = sync.unnamed
      /\ new.cached = sync.cached /\ new.waiting = sync.waiting
  BY <1>2, <1>3, <1>4 DEF SyncState, Failed
<1>6. sync' = new
  BY DEF c
<1> HIDE DEF new
<1>7. SyncState' = SyncState
  BY DEF SyncState, Series, SeriesOf, LibraryOf
<1>8. \A i : /\ SeriesOf(i)' = SeriesOf(i) /\ (Complete(i) <=> Complete(i)')
             /\ (Synced(i) <=> Synced(i)')
  BY DEF SeriesOf, LibraryOf, Complete, Synced, InKomga, Desired
<1>9. SyncInv'
  BY <1>3, <1>4, <1>5, <1>6, <1>7, <1>8 DEF IInv, SyncInv, Asked
<1> QED
  BY <1>1, <1>9

(* The next sidecar's book is read, to be skipped, counted or written.     *)
LEMMA GetBookKeeps ==
  ASSUME IInv, GetBook
  PROVE  BooksKept /\ SyncInv'
<1> DEFINE c == Head(sync.todo)
           diff == NeedsPatchBook(c)
           new == [sync EXCEPT !.got = TRUE, !.diff = diff]
<1>1. /\ UNCHANGED <<owner, disk, book, series, scanning, hashed>> /\ sync.todo # <<>>
      /\ sync.ask = None
      /\ \/ sync' = Failed(c)
         \/ InKomga(c) /\ sync' = new
  BY DEF GetBook, komgaVars
<1>2. CASE sync' = Failed(c)
  BY <1>1, <1>2, FailedKeeps
<1>3. CASE InKomga(c) /\ sync' = new
  <2>1. sync \in SyncState
    BY DEF IInv, SyncInv
  <2>2. diff \in BOOLEAN /\ (~diff => Synced(c))
    BY <1>3 DEF NeedsPatchBook, Synced
  <2> HIDE DEF diff
  <2>3. /\ new \in SyncState /\ new.sidecars = sync.sidecars /\ new.todo = sync.todo
        /\ new.got /\ new.diff = diff /\ new.failed = sync.failed /\ new.seen = sync.seen
        /\ new.ask = sync.ask /\ new.unnamed = sync.unnamed
        /\ new.cached = sync.cached /\ new.waiting = sync.waiting
    BY <2>1, <2>2 DEF SyncState
  <2>4. sync' = new
    BY <1>3
  <2> HIDE DEF new
  <2>5. BooksKept
    BY <1>1, SameBooks DEF IInv, KomgaInv
  <2>6. SyncState' = SyncState
    BY <1>1 DEF SyncState, Series, SeriesOf, LibraryOf
  <2>7. \A i : /\ SeriesOf(i)' = SeriesOf(i) /\ (Complete(i) <=> Complete(i)')
               /\ (Synced(i) <=> Synced(i)')
    BY <1>1 DEF SeriesOf, LibraryOf, Complete, Synced, InKomga, Desired
  <2>8. SyncInv'
    BY <1>1, <2>2, <2>3, <2>4, <2>6, <2>7 DEF IInv, SyncInv, Asked
  <2> QED
    BY <2>5, <2>8
<1> QED
  BY <1>1, <1>2, <1>3

(* What is written is what the sidecar asks for: it goes over nothing but  *)
(* what a scan made of the bare file.                                      *)
LEMMA WriteKeeps ==
  ASSUME IInv, UNCHANGED <<owner, disk>>, series' \subseteq Series,
         scanning' \subseteq Library, hashed' \subseteq Library,
         NEW c \in sync.sidecars, InKomga(c),
         book' = [book EXCEPT ![c] = AttachLocks(@, Desired(c))]
  PROVE  BooksKept /\ Synced(c)'
<1> DEFINE b == AttachLocks(book[c], Desired(c))
<1>1. c \in Issue /\ Complete(c)
  BY DEF IInv, SyncInv, SyncState
<1>2. /\ book[c] \in Book(c) /\ book[c] # None /\ book \in [Issue -> SomeBook \cup {None}]
      /\ BookRight(c)
  BY <1>1 DEF IInv, KomgaInv, BookRight, InKomga
<1>3. disk[c].sidecar # None /\ disk[c].sidecar \in (SUBSET Article(c)) \cup {None}
  <2>1. FilesRight(c, disk[c]) /\ disk[c].sidecar # None
    BY <1>1 DEF IInv, ArchiveInv, Complete
  <2> QED
    BY <2>1 DEF FilesRight
<1> DEFINE metas == (SUBSET Article(c)) \cup {None}
           meta == disk[c].sidecar
<1>4. b = [book[c] EXCEPT !.meta = meta, !.locked = TRUE] /\ meta \in metas
  BY <1>3 DEF AttachLocks, Desired
<1>5. book[c] \in [name : {"full", "synthetic", "DOWNLOADING"}, meta : metas, locked : BOOLEAN]
  BY <1>2 DEF Book
<1> HIDE DEF metas, meta, b
<1>6. /\ b \in [name : {"full", "synthetic", "DOWNLOADING"}, meta : metas, locked : BOOLEAN]
      /\ b.meta = meta /\ b.locked /\ b.name = book[c].name
  BY <1>4, <1>5
<1>7. b \in Book(c)
  BY <1>6 DEF Book, metas
<1>8. book[c].meta # None => b.meta = book[c].meta
  BY <1>2, <1>6 DEF BookRight, meta
<1>9. book' = [book EXCEPT ![c] = b]
  BY DEF b
<1>10. BooksKept
  BY <1>1, <1>2, <1>6, <1>7, <1>8, <1>9, OneBook DEF meta
<1>11. book'[c] = b
  BY <1>1, <1>2, <1>9
<1>12. b # None
  BY <1>1, <1>7, BookAssumption
<1>13. Synced(c)'
  BY <1>6, <1>11, <1>12 DEF Synced, InKomga, Desired, meta
<1> QED
  BY <1>10, <1>13

(* A book is skipped, failed or written, and then its series asked for.    *)
LEMMA PatchKeeps ==
  ASSUME IInv, PatchBook
  PROVE  BooksKept /\ SyncInv'
<1>0. PICK c : c = Head(sync.todo)
  OBVIOUS
<1> DEFINE ask == IF SeriesOf(c) \in sync.seen THEN None ELSE c
           new == [sync EXCEPT !.got = FALSE, !.diff = FALSE, !.todo = Tail(@), !.ask = ask]
<1>1. /\ UNCHANGED <<owner, disk, series, scanning, hashed>> /\ sync.got /\ sync.todo # <<>>
      /\ sync.ask = None
      /\ \/ book' = book /\ sync' = Failed(c)
         \/ book' = book /\ sync' = new /\ ~sync.diff
         \/ book' = [book EXCEPT ![c] = AttachLocks(@, Desired(c))] /\ sync' = new /\ InKomga(c)
  BY <1>0 DEF PatchBook, IInv, SyncInv
<1>2. CASE book' = book /\ sync' = Failed(c)
  BY <1>0, <1>1, <1>2, FailedKeeps
<1>3. CASE /\ sync' = new
             /\ \/ book' = book /\ ~sync.diff
                \/ book' = [book EXCEPT ![c] = AttachLocks(@, Desired(c))] /\ InKomga(c)
  <2>1. sync \in SyncState /\ sync.todo \in Seq(Issue) /\ sync.sidecars \subseteq Issue
    BY DEF IInv, SyncInv, SyncState
  <2>2. /\ c \in Members(sync.todo) /\ Tail(sync.todo) \in Seq(Issue)
        /\ Members(sync.todo) = {c} \cup Members(Tail(sync.todo))
    BY <1>0, <1>1, <2>1, TailMembers
  <2>3. c \in sync.sidecars /\ c \in Issue /\ Complete(c)
    BY <2>1, <2>2 DEF IInv, SyncInv
  <2>4. BooksKept /\ Synced(c)'
    <3>1. CASE book' = book /\ ~sync.diff
      <4>1. BooksKept
        BY <1>1, <3>1, SameBooks DEF IInv, KomgaInv
      <4>2. Synced(c)
        BY <1>0, <1>1, <3>1 DEF IInv, SyncInv
      <4> QED
        BY <2>3, <4>1, <4>2 DEF BooksKept
    <3>2. CASE book' = [book EXCEPT ![c] = AttachLocks(@, Desired(c))] /\ InKomga(c)
      <4>1. series' \subseteq Series /\ scanning' \subseteq Library /\ hashed' \subseteq Library
        BY <1>1 DEF IInv, KomgaInv
      <4> QED
        BY <1>1, <2>3, <3>2, <4>1, WriteKeeps
    <3> QED
      BY <1>3, <3>1, <3>2
  <2>5. ask \in sync.sidecars \cup {None} /\ (SeriesOf(c) \in sync.seen \/ c = ask)
    BY <2>3
  <2> HIDE DEF ask
  <2>6. /\ new \in SyncState /\ new.sidecars = sync.sidecars /\ new.todo = Tail(sync.todo)
        /\ ~new.got /\ new.failed = sync.failed /\ new.seen = sync.seen
        /\ new.ask = ask /\ new.unnamed = sync.unnamed
        /\ new.cached = sync.cached /\ new.waiting = sync.waiting
    BY <2>1, <2>2, <2>5 DEF SyncState
  <2>7. sync' = new
    BY <1>3
  <2> HIDE DEF new
  <2>8. SyncState' = SyncState
    BY <1>1 DEF SyncState, Series, SeriesOf, LibraryOf
  <2>9. \A i : SeriesOf(i)' = SeriesOf(i) /\ (Complete(i) <=> Complete(i)')
    BY <1>1 DEF SeriesOf, LibraryOf, Complete
  <2>10. \A i \in sync.sidecars : Complete(i) /\ (Synced(i) => Synced(i)')
    BY <2>1, <2>4 DEF IInv, SyncInv, BooksKept
  <2>11. \A i \in sync.sidecars :
           i \in sync.failed \/ i \in Members(Tail(sync.todo)) \/ (Synced(i)' /\ Asked(i)')
    <3> SUFFICES ASSUME NEW i \in sync.sidecars, i \notin sync.failed,
                        i \notin Members(Tail(sync.todo))
                 PROVE  Synced(i)' /\ Asked(i)'
      OBVIOUS
    <3>1. i = c \/ (Synced(i) /\ Asked(i))
      BY <2>2 DEF IInv, SyncInv
    <3>2. CASE i = c
      BY <2>4, <2>5, <2>6, <2>7, <2>9, <3>2 DEF Asked
    <3>3. CASE Synced(i) /\ Asked(i)
      <4>1. i # None
        BY <2>1, NoneAssumption
      <4> QED
        BY <1>1, <2>6, <2>7, <2>9, <2>10, <3>3, <4>1 DEF Asked
    <3> QED
      BY <3>1, <3>2, <3>3
  <2>12. SyncInv'
    BY <2>2, <2>5, <2>6, <2>7, <2>8, <2>9, <2>10, <2>11 DEF IInv, SyncInv
  <2> QED
    BY <2>4, <2>12
<1> QED
  BY <1>1, <1>2, <1>3

(* The answer about a series is kept, or the next book is asked.           *)
LEMMA LookUpKeeps ==
  ASSUME IInv, LookUpSeries
  PROVE  BooksKept /\ SyncInv'
<1>1. PICK c : c = sync.ask
  OBVIOUS
<1>2. /\ UNCHANGED <<owner, disk, book, series, scanning, hashed>>
      /\ sync \in SyncState /\ c # None /\ c \in sync.sidecars /\ sync.sidecars \subseteq Issue
  BY <1>1 DEF LookUpSeries, komgaVars, IInv, SyncInv, SyncState
<1>3. SeriesOf(c) \in Series
  BY <1>2 DEF Series
<1>4. PICK seen \in SUBSET Series, blank \in SUBSET Series, unnamed \in SUBSET sync.sidecars :
        /\ sync.seen \subseteq seen /\ sync.unnamed \subseteq unnamed
        /\ SeriesOf(c) \in seen \/ c \in unnamed
        /\ sync' = [sync EXCEPT !.ask = None, !.seen = seen, !.blank = blank, !.unnamed = unnamed]
  <2>1. /\ sync.seen \cup {SeriesOf(c)} \subseteq Series /\ sync.blank \subseteq Series
        /\ sync.blank \cup {SeriesOf(c)} \subseteq Series
        /\ sync.unnamed \subseteq sync.sidecars /\ sync.unnamed \cup {c} \subseteq sync.sidecars
        /\ sync.seen \subseteq Series
    BY <1>2, <1>3 DEF SyncState, IInv, SyncInv
  <2>2. CASE sync' = [sync EXCEPT !.ask = None, !.seen = @ \cup {SeriesOf(c)}]
    <3>1. sync' = [sync EXCEPT !.ask = None, !.seen = sync.seen \cup {SeriesOf(c)},
                               !.blank = sync.blank, !.unnamed = sync.unnamed]
      BY <1>2, <2>2 DEF SyncState
    <3> QED
      BY <2>1, <3>1
  <2>3. CASE sync' = [[sync EXCEPT !.ask = None, !.seen = @ \cup {SeriesOf(c)}]
                        EXCEPT !.blank = @ \cup {SeriesOf(c)}]
    <3>1. sync' = [sync EXCEPT !.ask = None, !.seen = sync.seen \cup {SeriesOf(c)},
                               !.blank = sync.blank \cup {SeriesOf(c)}, !.unnamed = sync.unnamed]
      BY <1>2, <2>3 DEF SyncState
    <3> QED
      BY <2>1, <3>1
  <2>4. CASE sync' = [sync EXCEPT !.ask = None, !.unnamed = @ \cup {c}]
    <3>1. sync' = [sync EXCEPT !.ask = None, !.seen = sync.seen, !.blank = sync.blank,
                               !.unnamed = sync.unnamed \cup {c}]
      BY <1>2, <2>4 DEF SyncState
    <3> QED
      BY <2>1, <3>1
  <2> QED
    BY <1>1, <2>2, <2>3, <2>4 DEF LookUpSeries
<1> DEFINE new == [sync EXCEPT !.ask = None, !.seen = seen, !.blank = blank, !.unnamed = unnamed]
<1>5. /\ new \in SyncState /\ new.sidecars = sync.sidecars /\ new.todo = sync.todo
      /\ new.got = sync.got /\ new.diff = sync.diff /\ new.failed = sync.failed
      /\ new.ask = None /\ new.seen = seen /\ new.unnamed = unnamed
      /\ new.cached = sync.cached /\ new.waiting = sync.waiting
  BY <1>2 DEF SyncState
<1>6. sync' = new
  BY <1>4
<1> HIDE DEF new
<1>7. BooksKept
  BY <1>2, SameBooks DEF IInv, KomgaInv
<1>8. SyncState' = SyncState
  BY <1>2 DEF SyncState, Series, SeriesOf, LibraryOf
<1>9. \A i : /\ SeriesOf(i)' = SeriesOf(i) /\ (Complete(i) <=> Complete(i)')
             /\ (Synced(i) <=> Synced(i)') /\ (Asked(i) => Asked(i)')
  BY <1>1, <1>2, <1>4, <1>5, <1>6 DEF SeriesOf, LibraryOf, Complete, Synced, InKomga, Desired, Asked
<1>10. SyncInv'
  BY <1>5, <1>6, <1>8, <1>9 DEF IInv, SyncInv
<1> QED
  BY <1>7, <1>10

(* The sync ends with the exit code of what it counted.                    *)
LEMMA FinishSyncKeeps ==
  ASSUME IInv, FinishSync
  PROVE  BooksKept /\ SyncInv'
<1>1. /\ UNCHANGED <<owner, disk, book, scanning, hashed>>
      /\ \E failing : series' = series \cup (Named \ failing)
      /\ \E exit \in {None, 0, 1, 2} : sync' = [NoSync EXCEPT !.exit = exit]
  BY DEF FinishSync, SyncSeries
<1>2. sync.seen \subseteq Series /\ series \subseteq Series /\ Series' = Series
  BY <1>1 DEF IInv, SyncInv, SyncState, KomgaInv, Series, SeriesOf, LibraryOf
<1>3. BooksKept
  BY <1>1, <1>2, SameBooks DEF IInv, KomgaInv, Named
<1> QED
  BY <1>1, <1>2, <1>3, SyncEnds

(* Komga refreshes a book: what is locked stays.                           *)
LEMMA RefreshKeepsBooks ==
  ASSUME IInv, NEW i \in Issue, RefreshMetadata(i)
  PROVE  BooksKept
<1> DEFINE b == [book[i] EXCEPT !.meta = None]
<1>1. /\ UNCHANGED <<owner, disk, series, scanning, hashed>>
      /\ book[i] # None /\ ~book[i].locked /\ book' = [book EXCEPT ![i].meta = None]
  BY DEF RefreshMetadata, archiveVars
<1>2. book[i] \in Book(i) /\ BookRight(i) /\ book \in [Issue -> SomeBook \cup {None}]
  BY <1>1 DEF IInv, KomgaInv, BookRight
<1>3. book' = [book EXCEPT ![i] = b]
  BY <1>1, <1>2
<1>4. b \in Book(i) /\ b.meta = None /\ b.name = book[i].name
  <2> DEFINE metas == (SUBSET Article(i)) \cup {None}
  <2>1. None \in metas
    OBVIOUS
  <2>2. book[i] \in [name : {"full", "synthetic", "DOWNLOADING"}, meta : metas, locked : BOOLEAN]
    BY <1>2 DEF Book
  <2> HIDE DEF metas
  <2>3. /\ b \in [name : {"full", "synthetic", "DOWNLOADING"}, meta : metas, locked : BOOLEAN]
        /\ b.meta = None /\ b.name = book[i].name
    BY <2>1, <2>2
  <2> QED
    BY <2>3 DEF Book, metas
<1>5. book[i].meta = None
  BY <1>1, <1>2 DEF BookRight
<1>6. /\ series' \subseteq Series /\ scanning' \subseteq Library /\ hashed' \subseteq Library
      /\ UNCHANGED <<owner, disk>>
  BY <1>1 DEF IInv, KomgaInv
<1> HIDE DEF b
<1> QED
  BY <1>1, <1>3, <1>4, <1>5, <1>6, OneBook

(* The archive is what it was through a step of Komga or of the sync.      *)
LEMMA ArchiveStands ==
  ASSUME IInv, UNCHANGED <<owner, served, disk, job, announced, unheard>>,
         Fault \/ NoFault \/ faults' = faults
  PROVE  ArchiveKept
<1>1. served \subseteq Issue /\ faults' \in 0..MaxFaults
  BY FaultsBounded DEF IInv, ArchiveInv, ArchiveTyped, NoFault
<1> QED
  BY <1>1, OutsideKeeps DEF IInv

(* A sync that is broken off leaves no book half written.                  *)
LEMMA BreakKeeps ==
  ASSUME IInv, UNCHANGED <<owner, disk>>, HalfDone, scanning' \subseteq Library,
         hashed' \subseteq Library, NEW exit \in {None, 1}, sync' = [NoSync EXCEPT !.exit = exit]
  PROVE  BooksKept /\ SyncInv'
<1>1. series' \subseteq Series /\ Series' = Series
  <2>1. series \subseteq Series /\ sync.seen \subseteq Series
    BY DEF IInv, KomgaInv, SyncInv, SyncState
  <2>2. series' \subseteq series \cup sync.seen
    BY DEF HalfDone, Named
  <2> QED
    BY <2>1, <2>2 DEF Series, SeriesOf, LibraryOf
<1>2. CASE book' = book
  BY <1>1, <1>2, SameBooks, SyncEnds
<1>3. ASSUME NEW c \in sync.sidecars, InKomga(c),
             book' = [book EXCEPT ![c] = AttachLocks(@, Desired(c))]
      PROVE  BooksKept /\ SyncInv'
  BY <1>1, <1>3, WriteKeeps, SyncEnds
<1> QED
  BY <1>2, <1>3 DEF HalfDone

(* A reboot ends the jobs between any two steps.                           *)
LEMMA RebootKeeps ==
  ASSUME IInv, Reboot
  PROVE  ArchiveKept /\ BooksKept /\ SyncInv'
<1>1. /\ UNCHANGED <<owner, served, disk, announced, hashed>> /\ Fault /\ HalfDone
      /\ job' = NoRun /\ sync' = NoSync /\ scanning' = {}
      /\ unheard' = unheard \cup job.printed \cup Unprinted
  BY DEF Reboot
<1>2. ArchiveKept
  BY <1>1, FaultsBounded, RunEnds DEF IInv
<1>3. sync' = [NoSync EXCEPT !.exit = None]
  BY <1>1, NoSyncRight
<1>4. BooksKept /\ SyncInv'
  BY <1>1, <1>3, BreakKeeps DEF IInv, KomgaInv
<1> QED
  BY <1>2, <1>4

(* Every step keeps archive, books and sync in order.                      *)
LEMMA StepKeeps ==
  ASSUME IInv, Next
  PROVE  ArchiveKept /\ BooksKept /\ SyncInv'
<1>1. CASE ArchiveNext /\ UNCHANGED <<komgaVars, sync>>
  <2>1. ArchiveKept
    BY <1>1, ArchiveStep DEF IInv
  <2>2. BooksKept
    BY <1>1, <2>1, ArchiveLeavesBooks
  <2> QED
    BY <1>1, <2>1, <2>2, SyncStands DEF ArchiveKept
<1>2. ASSUME NEW l \in Library, FinishScan(l) \/ PeriodicScan(l)
      PROVE  ArchiveKept /\ BooksKept /\ SyncInv'
  <2>1. ScanLibrary(l)
    BY <1>2 DEF FinishScan, PeriodicScan
  <2>2. UNCHANGED <<owner, served, disk, job, announced, unheard, faults, sync>>
    BY <2>1 DEF ScanLibrary, archiveVars
  <2>3. ArchiveKept /\ BooksKept
    BY <2>1, <2>2, ArchiveStands, ScanKeepsBooks
  <2> QED
    BY <2>2, <2>3, SyncStands DEF ArchiveKept
<1>3. ASSUME NEW i \in Issue, RefreshMetadata(i)
      PROVE  ArchiveKept /\ BooksKept /\ SyncInv'
  <2>1. UNCHANGED <<owner, served, disk, job, announced, unheard, faults, sync>>
    BY <1>3 DEF RefreshMetadata, archiveVars
  <2>2. ArchiveKept /\ BooksKept
    BY <1>3, <2>1, ArchiveStands, RefreshKeepsBooks
  <2> QED
    BY <2>1, <2>2, SyncStands DEF ArchiveKept
<1>4. CASE StartSync
  <2>1. UNCHANGED <<owner, served, disk, job, announced, unheard>> /\ (Fault \/ NoFault)
    BY <1>4 DEF StartSync, EnsureHashKoreader, HttpFails, FaultIf
  <2> QED
    BY <1>4, <2>1, ArchiveStands, StartSyncKeeps
<1>5. CASE StartSyncFails
  <2>1. /\ UNCHANGED <<owner, served, disk, job, announced, unheard, book, series, scanning>>
        /\ Fault /\ hashed' \subseteq Library /\ sync' = [NoSync EXCEPT !.exit = 1]
    BY <1>5 DEF StartSyncFails, IInv, KomgaInv
  <2>2. ArchiveKept /\ BooksKept
    BY <2>1, ArchiveStands, SameBooks DEF IInv, KomgaInv
  <2>3. Series' = Series
    BY <2>1 DEF Series, SeriesOf, LibraryOf
  <2> QED
    BY <2>1, <2>2, <2>3, SyncEnds
<1>8. CASE SyncBreaksOff
  <2>1. /\ UNCHANGED <<owner, served, disk, job, announced, unheard, hashed>> /\ Fault /\ HalfDone
        /\ \E exit \in {None, 1} : sync' = [NoSync EXCEPT !.exit = exit]
    BY <1>8 DEF SyncBreaksOff
  <2>2. scanning' \subseteq Library /\ hashed' \subseteq Library
    BY <1>8, <2>1 DEF SyncBreaksOff, Wanted, LibraryOf, Library, IInv, KomgaInv
  <2> QED
    BY <2>1, <2>2, ArchiveStands, BreakKeeps
<1>6. CASE SyncStep
  <2>1. UNCHANGED <<owner, served, disk, job, announced, unheard>> /\ (Fault \/ NoFault)
    BY <1>6 DEF SyncStep, ReadBookIndex, RequestScans, PollBookIndex, LeaveGate, GetBook,
       PatchBook, LookUpSeries, FinishSync, SyncSeries, LoadBookCache, HttpFails, FaultIf
  <2>2. ArchiveKept
    BY <2>1, ArchiveStands
  <2> QED
    BY <1>6, <2>2, ReadIndexKeeps, RequestKeeps, GetBookKeeps, PatchKeeps, LookUpKeeps,
       FinishSyncKeeps
    DEF SyncStep
<1>7. CASE Reboot
  BY <1>7, RebootKeeps
<1> QED
  BY <1>1, <1>2, <1>3, <1>4, <1>5, <1>6, <1>7, <1>8 DEF Next

(* The initial states satisfy the invariant ...                            *)
LEMMA Starts == Init => IInv
<1> SUFFICES ASSUME Init PROVE IInv
  OBVIOUS
<1>1. ArchiveInv
  BY ArchiveStarts DEF Init
<1>2. KomgaInv
  BY DEF Init, KomgaInv, BookRight
<1>3. SyncInv
  <2>1. NoSync \in SyncState /\ NoSync.sidecars = {} /\ NoSync.cached = {} /\ NoSync.waiting = {}
        /\ NoSync.failed = {} /\ NoSync.unnamed = {} /\ NoSync.ask = None
        /\ NoSync.todo = <<>> /\ ~NoSync.got
    BY NoSyncRight
  <2> QED
    BY <2>1, NoRunTyped DEF Init, SyncInv
<1> QED
  BY <1>1, <1>2, <1>3 DEF IInv

(* ... a step that changes nothing keeps it ...                            *)
LEMMA Stutters ==
  ASSUME IInv, UNCHANGED vars
  PROVE  IInv'
<1>1. /\ UNCHANGED <<owner, served, disk, job, announced, unheard, faults>>
      /\ UNCHANGED <<book, series, scanning, hashed, sync>>
  BY DEF vars, archiveVars, komgaVars
<1>2. ArchiveKept /\ BooksKept
  BY <1>1, ArchiveStands, SameBooks DEF IInv, KomgaInv
<1> QED
  BY <1>1, <1>2, SyncStands DEF ArchiveKept, BooksKept, IInv

(* ... and so it always holds.                                             *)
LEMMA Invariance == Spec => []IInv
<1>1. IInv /\ [Next]_vars => IInv'
  BY StepKeeps, Stutters DEF ArchiveKept, BooksKept, IInv
<1> QED
  BY <1>1, Starts, PTL DEF Spec

-----------------------------------------------------------------------------
(* The state is well formed, and what gwm-archiver publishes is whole: a   *)
(* download is the file the publisher serves, and lists all its articles,  *)
(* unless a body that came without its length was cut short.               *)
THEOREM ArchiveStaysSound == Spec => []ArchiveSound
<1>1. IInv => ArchiveSound
  <2> SUFFICES ASSUME IInv PROVE ArchiveSound
    OBVIOUS
  <2>1. ASSUME NEW i \in Issue
        PROVE  /\ disk[i].pdf \in Pdf \cup {None}
               /\ disk[i].sidecar \in (SUBSET Article(i)) \cup {None}
    <3>1. disk[i] \in DiskState /\ FilesRight(i, disk[i])
      BY DEF IInv, ArchiveInv, ArchiveTyped
    <3>2. disk[i].sidecar # None => disk[i].sidecar \subseteq Article(i)
      BY <3>1 DEF FilesRight
    <3>3. disk[i].pdf \in Pdf \cup {None}
      BY <3>1 DEF DiskState
    <3> QED
      BY <3>2, <3>3
  <2>8. \A i \in Issue : disk[i].staged \in BOOLEAN \cup {None}
    BY DEF IInv, ArchiveInv, ArchiveTyped, DiskState
  <2>2. ArchiveTypeOK
    BY <2>1, <2>8 DEF ArchiveTypeOK, IInv, ArchiveInv, ArchiveTyped, JobState
  <2>3. sync \in SyncState /\ sync.todo \in Seq(Issue)
    BY DEF IInv, SyncInv, SyncState
  <2>4. \A k \in DOMAIN sync.todo : sync.todo[k] \in sync.sidecars
    <3>1. DOMAIN sync.todo = 1..Len(sync.todo)
      BY <2>3
    <3>2. Members(sync.todo) \subseteq sync.sidecars
      BY DEF IInv, SyncInv
    <3> QED
      BY <3>1, <3>2 DEF Members
  <2>5. \A i \in Issue : book[i] \in Book(i) \cup {None}
    BY DEF IInv, KomgaInv, BookRight
  <2>6. TypeOK
    BY <2>2, <2>3, <2>4, <2>5 DEF TypeOK, IInv, KomgaInv, SyncInv, SyncState
  <2>7. PublishesWhole
    BY DEF PublishesWhole, IInv, ArchiveInv, FilesRight
  <2> QED
    BY <2>6, <2>7 DEF ArchiveSound
<1> QED
  BY <1>1, Invariance, PTL

(* What komga-sync wrote into a book stays in it through any refresh, scan *)
(* or later sync, while the book's file is there.                          *)
THEOREM MetadataIsKept == Spec => MetadataStays
<1>1. IInv /\ [Next]_vars =>
        [\A i \in Issue :
           book[i] # None /\ book[i].meta # None /\ book[i].name = disk'[i].pdf.name
             => book'[i] # None /\ book'[i].meta = book[i].meta]_vars
  BY StepKeeps DEF BooksKept
<1> QED
  BY <1>1, Invariance, PTL DEF Spec, MetadataStays

(* An issue is announced once, with its files in place, and a complete one *)
(* at all unless a kill lost its line; a sync that ends by itself has      *)
(* written all sidecars but those it says failed, and one that exits 0 has *)
(* written all of them, and every series it was told the id of.            *)
THEOREM ReportsAreTrue == Spec => ReportsTrue
<1>1. IInv /\ [Next]_vars =>
        [/\ \A i \in job'.printed \ job.printed : i \notin announced /\ Complete(i)
         /\ announced \subseteq announced']_vars
  BY StepKeeps DEF ArchiveKept
<1>2. IInv /\ [Next]_vars =>
        [FinishSync =>
           /\ \A i \in sync.sidecars \ sync.failed :
                InKomga(i) /\ book[i].meta = Desired(i)
           /\ sync'.exit = 0 =>
                /\ sync.failed = {}
                /\ \A i \in sync.sidecars : SeriesOf(i) \in series' \/ Nameless(SeriesOf(i))]_vars
  <2> SUFFICES ASSUME IInv, FinishSync
               PROVE  /\ \A i \in sync.sidecars \ sync.failed :
                           InKomga(i) /\ book[i].meta = Desired(i)
                      /\ sync'.exit = 0 =>
                           /\ sync.failed = {}
                           /\ \A i \in sync.sidecars :
                                SeriesOf(i) \in series' \/ Nameless(SeriesOf(i))
    OBVIOUS
  <2>1. PICK failing :
          /\ series' = series \cup (Named \ failing)
          /\ sync' = [NoSync EXCEPT !.exit =
                        IF sync.failed # {} \/ failing # {} \/ sync.error THEN 2 ELSE 0]
    BY DEF FinishSync, SyncSeries
  <2>2. \A i \in sync.sidecars \ sync.failed :
          Synced(i) /\ (SeriesOf(i) \in sync.seen \/ i \in sync.unnamed)
    <3>1. sync.sidecars \subseteq Issue /\ None \notin Issue
      BY NoneAssumption DEF IInv, SyncInv, SyncState
    <3> QED
      BY <3>1, NoRunTyped DEF FinishSync, Finishing, IInv, SyncInv, Asked
  <2>3. sync'.exit = 0 => sync.failed = {} /\ failing = {}
    BY <2>1 DEF NoSync
  <2>4. ASSUME sync.failed = {}, failing = {}, NEW i \in sync.sidecars
        PROVE  SeriesOf(i) \in series' \/ Nameless(SeriesOf(i))
    <3>1. CASE SeriesOf(i) \in sync.seen
      BY <2>1, <2>4, <3>1 DEF Named, Nameless
    <3>2. CASE SeriesOf(i) \notin sync.seen
      BY <2>2, <2>4, <3>2 DEF Nameless
    <3> QED
      BY <3>1, <3>2
  <2> QED
    BY <2>2, <2>3, <2>4 DEF Synced
<1>3. Spec => AnnouncedOnceComplete
  BY <1>1, Invariance, PTL DEF Spec, AnnouncedOnceComplete
<1>4. Spec => ExitTellsTheTruth
  BY <1>2, Invariance, PTL DEF Spec, ExitTellsTheTruth
<1>5. Spec => []CompleteIsAnnounced
  <2>1. IInv => CompleteIsAnnounced
    BY DEF IInv, ArchiveInv
  <2> QED
    BY <2>1, Invariance, PTL
<1> QED
  BY <1>3, <1>4, <1>5 DEF ReportsTrue

(* A backfill that recovered a gap and met no error leaves no gap the index*)
(* listed that it has not found missing at the publisher's.                   *)
THEOREM RecoverySweeps == Spec => RecoverySweepsTheRest
<1>1. IInv /\ [Next]_vars =>
        [(job.mode = "backfill" /\ FinishRun /\ job.printed # {} /\ ~job.error) =>
           \A i \in job.listed : Complete(i) \/ i \in job.absent]_vars
  <2> SUFFICES ASSUME IInv, job.mode = "backfill", FinishRun, job.printed # {}, ~job.error
               PROVE  \A i \in job.listed : Complete(i) \/ i \in job.absent
    OBVIOUS
  <2>1. job.pc = "next" /\ job.queue = <<>>
    BY DEF FinishRun
  <2>2. job.pc \notin AtIssue /\ job.held = <<>>
    BY <2>1 DEF IInv, ArchiveInv, SweepSound, AtIssue, Working
  <2> QED
    BY <2>1, <2>2, NoRunTyped DEF IInv, ArchiveInv, SweepSound
<1> QED
  BY <1>1, Invariance, PTL DEF Spec, RecoverySweepsTheRest
=============================================================================
