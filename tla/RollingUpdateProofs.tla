-------------------------- MODULE RollingUpdateProofs --------------------------
(***************************************************************************)
(* Theorems of RollingUpdate, for every set of groups, every set of trees  *)
(* that build, and every number of nights, faults and pushes of others.    *)
(* What is said of signatures holds whatever the forge serves; the rest is *)
(* about a forge that never rewrites master, as its branch protection      *)
(* promises.                                                               *)
(***************************************************************************)
EXTENDS RollingUpdate, SequenceTheorems, WellFoundedInduction, TLAPS

(* The phases before and after the heartbeat in which the clone counts.    *)
Working == {"update", "build", "commit", "restore", "beat"}
Landing == {"push", "race"}

(* Every history in use is one of the repository: it starts at the seed.   *)
Rooted(h, seed) == Len(h) >= 1 /\ h[1] = seed

BotOK(b, seed) ==
  /\ b \in BotState
  /\ b.pc # "idle" => Rooted(b.base, seed) /\ Rooted(b.head, seed)
  /\ b.pc \in {"push", "race", "verify"} => b.attempt >= 1
  /\ b.pc = "race" => b.attempt <= 2

TypeInv ==
  /\ TypeOK
  /\ Rooted(master, master[1]) /\ Rooted(anchor, master[1])
  /\ BotOK(bot, master[1])

(* The anchor, and a head that verify_remote_push is about to see there,   *)
(* stay on a branch that is never rewritten.                               *)
LinearInv ==
  TypeInv /\ (~Rewrites => /\ IsPrefix(anchor, master)
                           /\ bot.pc \in {"verify", "anchor"} =>
                                IsPrefix(bot.head, master))

(* Signatures, from the base anchor on.                                    *)
SignedInv ==
  /\ TypeInv
  /\ bot.pc \in Working => RangeVerifies(bot.base, anchor)
  /\ bot.pc \in Landing => RangeVerifies(bot.head, anchor)

-----------------------------------------------------------------------------
(* What a night has done to the history it started from: the commits from  *)
(* the last one of base to the last one of head.                           *)
Own == Len(bot.base)..Len(bot.head)

(* The groups tried alone before transaction i.                            *)
Tried(i) == {Groups[l] : l \in 1..(i - 1)}

(* No commit takes a group out of the tree; a group that failed alone is   *)
(* not in the tree unless it was before the night; without a rebase every  *)
(* tree was built, or is the one before it.                                *)
Careful ==
  /\ bot.red \subseteq Group
  /\ bot.red # {} => bot.fail
  /\ bot.red \cap Last(bot.head).tree \subseteq Last(bot.base).tree
  /\ \A i, j \in Own : i <= j =>
       /\ bot.head[i].tree \cap Group \subseteq bot.head[j].tree
       /\ ~bot.raced => bot.head[j].tree \in built \cup {bot.head[i].tree}

(* The transaction in progress.                                            *)
Tidy ==
  LET tree == Last(bot.head).tree IN
  /\ ~bot.raced
  /\ bot.pc = "update" => bot.work = tree
  /\ bot.pc \in {"build", "commit"} =>
       /\ tree \cap Group \subseteq bot.work
       /\ (bot.work \ tree) \cap Group \subseteq Members(bot.next)
  /\ bot.pc = "commit" => bot.work \in built
  /\ bot.pc # "beat" =>
       /\ (tree \ Last(bot.base).tree) \cap Group \subseteq Tried(bot.next)
       /\ bot.red \subseteq IF bot.pc = "restore" THEN Tried(bot.next + 1)
                                                  ELSE Tried(bot.next)

(* The heartbeats: before it is written none is new; afterwards the last   *)
(* commit carries it, and it is the last word on the night.                *)
Beats ==
  LET n == Len(bot.head)
      old == Last(bot.base).beat
  IN
  /\ \A i \in Own : i < n \/ bot.pc \in Working => bot.head[i].beat = old
  /\ bot.pc \in Landing /\ n > Len(bot.base) =>
       /\ bot.head[n].beat.epoch > old.epoch
       /\ bot.head[n].beat.green => bot.red = {}
  /\ \/ Last(master).beat = old
     \/ bot.pc \in Landing /\ IsPrefix(bot.head, master)

Night ==
  /\ IsPrefix(bot.base, master) /\ IsPrefix(bot.base, bot.head)
  /\ Careful
  /\ Beats

NightInv ==
  /\ TypeInv
  /\ bot.pc \in Working \cup Landing => Night
  /\ bot.pc \in Working => Tidy

-----------------------------------------------------------------------------
(* Numbers, and histories as sequences.                                    *)
Below == {p \in Nat \X Nat : p[1] < p[2]}

(* The order of the naturals is well founded.                              *)
LEMMA BelowWellFounded == IsWellFoundedOn(Below, Nat)
<1>1. OpToRel(<, Nat) = Below
  BY DEF OpToRel, Below
<1> QED
  BY <1>1, NatLessThanWellFounded

(* A set of naturals has a least element ...                               *)
LEMMA Smallest ==
  ASSUME NEW T \in SUBSET Nat, T # {}
  PROVE  \E x \in T : \A y \in T : x <= y
<1>1. PICK x \in T : \A y \in T : ~(<<y, x>> \in Below)
  BY BelowWellFounded, WFMin
<1>2. ASSUME NEW y \in T PROVE x <= y
  <2>1. <<y, x>> \in Nat \X Nat /\ <<y, x>>[1] = y /\ <<y, x>>[2] = x
    OBVIOUS
  <2>2. <<y, x>> \notin Below
    BY <1>1
  <2>3. ~(y < x)
    BY <2>1, <2>2 DEF Below
  <2> QED
    BY <2>3
<1> QED
  BY <1>2

(* ... and a bounded one a greatest.                                       *)
LEMMA Greatest ==
  ASSUME NEW T \in SUBSET Nat, T # {}, NEW n \in Nat, \A x \in T : x <= n
  PROVE  \E x \in T : \A y \in T : y <= x
<1> DEFINE U == {m \in Nat : \A x \in T : x <= m}
<1>1. PICK m \in U : \A k \in U : m <= k
  <2>1. U \in SUBSET Nat /\ n \in U
    OBVIOUS
  <2> QED
    BY <2>1, Smallest
<1>2. m \in T
  <2> SUFFICES ASSUME m \notin T PROVE FALSE
    OBVIOUS
  <2>1. PICK x \in T : TRUE
    OBVIOUS
  <2>2. m > 0
    BY <2>1
  <2>3. m - 1 \in U
    BY <2>2
  <2> QED
    BY <1>1, <2>3
<1> QED
  BY <1>2

(* A prefix is a sequence that agrees as far as it goes.                   *)
LEMMA PrefixMeans ==
  ASSUME NEW S, NEW s \in Seq(S), NEW t \in Seq(S)
  PROVE  IsPrefix(s, t) <=> /\ Len(s) <= Len(t)
                            /\ \A i \in 1..Len(s) : s[i] = t[i]
<1> DEFINE n == Len(s)
<1>1. n \in Nat /\ Len(t) \in Nat
  OBVIOUS
<1>2. SubSeq(s, 1, n) = s
  BY SubSeqFull
<1>3. ASSUME n <= Len(t)
      PROVE  /\ SubSeq(t, 1, n) \in Seq(S) /\ Len(SubSeq(t, 1, n)) = n
             /\ \A i \in 1..n : SubSeq(t, 1, n)[i] = t[i]
  <2>1. \A i \in 1..n : t[i] \in S
    BY <1>1, <1>3, ElementOfSeq
  <2> HIDE DEF n
  <2>2. /\ SubSeq(t, 1, n) \in Seq(S)
        /\ Len(SubSeq(t, 1, n)) = IF 1 <= n THEN n - 1 + 1 ELSE 0
        /\ \A i \in 1..(n - 1 + 1) : SubSeq(t, 1, n)[i] = t[1 + i - 1]
    BY <1>1, <2>1, SubSeqProperties
  <2> QED
    BY <1>1, <2>2
<1>4. ASSUME n <= Len(t), \A i \in 1..n : s[i] = t[i]
      PROVE  SubSeq(t, 1, n) = s
  BY <1>3, <1>4, SeqEqual
<1> QED
  BY <1>2, <1>3, <1>4 DEF IsPrefix

(* Shared is the length of the longest history two histories have in       *)
(* common.                                                                 *)
Common(g, h) ==
  {n \in Nat : /\ n <= Len(g) /\ n <= Len(h)
               /\ \A i \in 1..n : g[i] = h[i]}

(* The prefixes of a sequence are sequences over the same set.             *)
LEMMA PrefixesOf ==
  ASSUME NEW S, NEW s \in Seq(S)
  PROVE  \A q : q \in Prefixes(s) <=> q \in Seq(S) /\ IsPrefix(q, s)
<1>1. ASSUME NEW l \in 0..Len(s)
      PROVE  SubSeq(s, 1, l) \in Seq(S) /\ IsPrefix(SubSeq(s, 1, l), s)
  <2>1. \A i \in 1..l : s[i] \in S
    BY ElementOfSeq
  <2>2. /\ SubSeq(s, 1, l) \in Seq(S)
        /\ Len(SubSeq(s, 1, l)) = IF 1 <= l THEN l - 1 + 1 ELSE 0
        /\ \A i \in 1..(l - 1 + 1) : SubSeq(s, 1, l)[i] = s[1 + i - 1]
    BY <2>1, SubSeqProperties
  <2>3. Len(SubSeq(s, 1, l)) <= Len(s)
    BY <2>2
  <2>4. \A i \in 1..Len(SubSeq(s, 1, l)) : SubSeq(s, 1, l)[i] = s[i]
    BY <2>2
  <2> QED
    BY <2>2, <2>3, <2>4, PrefixMeans
<1>2. ASSUME NEW q \in Seq(S), IsPrefix(q, s)
      PROVE  \E l \in 0..Len(s) : q = SubSeq(s, 1, l)
  <2>1. Len(q) \in 0..Len(s) /\ SubSeq(q, 1, Len(q)) = SubSeq(s, 1, Len(q))
    BY <1>2 DEF IsPrefix
  <2>2. SubSeq(q, 1, Len(q)) = q
    BY SubSeqFull
  <2> QED
    BY <2>1, <2>2
<1> QED
  BY <1>1, <1>2 DEF Prefixes

(* The merge base of two histories is the last commit they share.          *)
LEMMA SharedIsGreatest ==
  ASSUME NEW S, NEW g \in Seq(S), NEW h \in Seq(S)
  PROVE  Shared(g, h) \in Common(g, h) /\ \A n \in Common(g, h) : n <= Shared(g, h)
<1> DEFINE C == CommonPrefixes({g, h})
           Longest(q) == \A other \in C : Len(other) <= Len(q)
<1>1. \A q : q \in C <=> q \in Seq(S) /\ IsPrefix(q, g) /\ IsPrefix(q, h)
  BY PrefixesOf DEF CommonPrefixes
<1>2. \A q \in C : Len(q) \in Common(g, h)
  <2> SUFFICES ASSUME NEW q \in C PROVE Len(q) \in Common(g, h)
    OBVIOUS
  <2>1. q \in Seq(S) /\ IsPrefix(q, g) /\ IsPrefix(q, h)
    BY <1>1
  <2>2. /\ Len(q) <= Len(g) /\ \A i \in 1..Len(q) : q[i] = g[i]
        /\ Len(q) <= Len(h) /\ \A i \in 1..Len(q) : q[i] = h[i]
    BY <2>1, PrefixMeans
  <2> QED
    BY <2>1, <2>2 DEF Common
<1>3. ASSUME NEW n \in Common(g, h) PROVE \E q \in C : Len(q) = n
  <2> DEFINE q == SubSeq(g, 1, n)
  <2>1. n \in Nat /\ n <= Len(g) /\ n <= Len(h) /\ \A i \in 1..n : g[i] = h[i]
    BY DEF Common
  <2>2. q \in Seq(S) /\ IsPrefix(q, g)
    <3>1. Len(g) \in Nat /\ n \in 0..Len(g)
      BY <2>1
    <3>2. q \in Prefixes(g)
      BY <3>1 DEF Prefixes
    <3> QED
      BY <3>2, PrefixesOf
  <2>3. Len(q) = n
    <3>1. \A i \in 1..n : g[i] \in S
      BY <2>1, ElementOfSeq
    <3>2. Len(q) = IF 1 <= n THEN n - 1 + 1 ELSE 0
      BY <2>1, <3>1, SubSeqProperties
    <3> QED
      BY <2>1, <3>2
  <2> HIDE DEF q
  <2>4. \A i \in 1..n : q[i] = g[i]
    BY <2>2, <2>3, PrefixMeans
  <2>5. IsPrefix(q, h)
    BY <2>1, <2>2, <2>3, <2>4, PrefixMeans
  <2> QED
    BY <1>1, <2>2, <2>3, <2>5
<1>4. PICK m \in Common(g, h) : \A n \in Common(g, h) : n <= m
  <2>1. Common(g, h) \in SUBSET Nat /\ 0 \in Common(g, h)
    BY DEF Common
  <2>2. Len(g) \in Nat /\ \A n \in Common(g, h) : n <= Len(g)
    BY DEF Common
  <2>3. \E m \in Common(g, h) : \A n \in Common(g, h) : n <= m
    BY <2>1, <2>2, Greatest
  <2> QED
    BY <2>3
<1>5. \E q \in C : Longest(q)
  BY <1>2, <1>3, <1>4
<1>6. LongestCommonPrefix({g, h}) \in C /\ Longest(LongestCommonPrefix({g, h}))
  BY <1>5 DEF LongestCommonPrefix
<1>7. Shared(g, h) = Len(LongestCommonPrefix({g, h}))
  BY DEF Shared
<1>8. Shared(g, h) \in Common(g, h)
  BY <1>2, <1>6, <1>7
<1>9. ASSUME NEW n \in Common(g, h) PROVE n <= Shared(g, h)
  <2>1. PICK q \in C : Len(q) = n
    BY <1>3
  <2> QED
    BY <1>6, <1>7, <2>1
<1> QED
  BY <1>8, <1>9

(* The same, index by index.                                               *)
LEMMA SharedMeans ==
  ASSUME NEW S, NEW g \in Seq(S), NEW h \in Seq(S)
  PROVE  /\ Shared(g, h) \in Nat
         /\ Shared(g, h) <= Len(g) /\ Shared(g, h) <= Len(h)
         /\ \A i \in 1..Shared(g, h) : g[i] = h[i]
         /\ \A n \in Nat : /\ n <= Len(g) /\ n <= Len(h)
                           /\ \A i \in 1..n : g[i] = h[i]
                           => n <= Shared(g, h)
BY SharedIsGreatest DEF Common

(* Of a history and a longer one that extends it, it is the shorter's      *)
(* last.                                                                   *)
LEMMA SharedWithPrefix ==
  ASSUME NEW S, NEW g \in Seq(S), NEW h \in Seq(S), IsPrefix(g, h)
  PROVE  Shared(g, h) = Len(g) /\ Shared(h, g) = Len(g)
<1>1. Len(g) \in Nat /\ Len(g) <= Len(h) /\ \A i \in 1..Len(g) : g[i] = h[i]
  BY PrefixMeans
<1>2. Len(g) <= Shared(g, h) /\ Shared(g, h) <= Len(g) /\ Shared(g, h) \in Nat
  BY <1>1, SharedMeans
<1>3. Len(g) <= Shared(h, g) /\ Shared(h, g) <= Len(g) /\ Shared(h, g) \in Nat
  BY <1>1, SharedMeans
<1> QED
  BY <1>1, <1>2, <1>3

(* A range verifies when each commit beyond the merge base does.           *)
LEMMA RangeMeans ==
  ASSUME NEW S, NEW g \in Seq(S), NEW h \in Seq(S)
  PROVE  RangeVerifies(g, h) <=>
           \A i \in 1..Len(g) : i > Shared(g, h) => Verifies(g[i])
<1>1. Shared(g, h) \in Nat /\ Len(g) \in Nat
  BY SharedMeans
<1>2. \A i : i \in (Shared(g, h) + 1)..Len(g) <=>
              i \in 1..Len(g) /\ i > Shared(g, h)
  BY <1>1
<1> QED
  BY <1>2 DEF RangeVerifies, Beyond

-----------------------------------------------------------------------------
(* Facts about the constants and the operators of the model.               *)
LEMMA GroupFacts ==
  /\ Len(Groups) \in Nat /\ \A i \in 1..Len(Groups) : Groups[i] \in Group
  /\ \A i, j \in 1..Len(Groups) : Groups[i] = Groups[j] => i = j
  /\ \A i \in 1..Len(Groups) : Members(i) = {Groups[i]}
  /\ \A i \in 0..Len(Groups) : Members(i) \subseteq Group
  /\ Members(0) = Group /\ Core \in Group
  /\ Held \notin Group \cup Change /\ Group \cap Change = {}
<1>1. /\ Len(Groups) \in Nat /\ DOMAIN Groups = 1..Len(Groups)
  BY RollingAssumption DEF RollingAssumption
<1>2. \A i \in 1..Len(Groups) : Groups[i] \in Group
  BY <1>1 DEF Group
<1>3. \A i, j \in 1..Len(Groups) : Groups[i] = Groups[j] => i = j
  BY <1>1, RollingAssumption DEF RollingAssumption, IsInjective
<1> QED
  BY <1>1, <1>2, <1>3, RollingAssumption DEF RollingAssumption, Members

(* A commit of the bot has the tree and heartbeat it was made with.        *)
LEMMA ByBotType ==
  ASSUME NEW t \in Tree, NEW beat \in Heartbeat
  PROVE  /\ ByBot(t, beat) \in Commit
         /\ ByBot(t, beat).tree = t /\ ByBot(t, beat).beat = beat
BY DEF ByBot, Commit

(* What a commit holds.                                                    *)
LEMMA CommitType ==
  ASSUME NEW c \in Commit
  PROVE  c.tree \in Tree /\ c.beat \in Heartbeat /\ c.beat.epoch \in Nat
BY DEF Commit, Heartbeat

(* The head of a history that is not empty.                                *)
LEMMA LastType ==
  ASSUME NEW h \in Seq(Commit), Len(h) >= 1
  PROVE  /\ Len(h) \in 1..Len(h)
         /\ Last(h) = h[Len(h)] /\ Last(h) \in Commit
         /\ Last(h).tree \in Tree /\ Last(h).beat \in Heartbeat
<1>1. Len(h) \in 1..Len(h)
  OBVIOUS
<1>2. Last(h) = h[Len(h)] /\ h[Len(h)] \in Commit
  BY <1>1, ElementOfSeq DEF Last
<1> QED
  BY <1>1, <1>2, CommitType

(* A commit on top of a history leaves the history as it was.              *)
LEMMA AppendLast ==
  ASSUME NEW h \in Seq(Commit), NEW c \in Commit
  PROVE  /\ Append(h, c) \in Seq(Commit) /\ Len(Append(h, c)) = Len(h) + 1
         /\ \A i \in 1..Len(h) : Append(h, c)[i] = h[i]
         /\ Append(h, c)[Len(h) + 1] = c /\ Last(Append(h, c)) = c
         /\ IsPrefix(h, Append(h, c))
<1>1. /\ Append(h, c) \in Seq(Commit) /\ Len(Append(h, c)) = Len(h) + 1
      /\ \A i \in 1..Len(h) : Append(h, c)[i] = h[i]
      /\ Append(h, c)[Len(h) + 1] = c
  BY AppendProperties
<1>2. Last(Append(h, c)) = c
  BY <1>1 DEF Last
<1>3. IsPrefix(h, Append(h, c))
  <2>1. Len(h) \in Nat /\ Len(h) <= Len(Append(h, c))
    BY <1>1
  <2> QED
    BY <1>1, <2>1, PrefixMeans
<1> QED
  BY <1>1, <1>2, <1>3

(* One commit of a rebase: replayed on new, its parent was old.            *)
Replayed(c, old, new) ==
  ByBot((new.tree \cup (c.tree \ old.tree)) \ (old.tree \ c.tree),
        IF c.beat # old.beat THEN c.beat ELSE new.beat)

(* A commit that is replayed brings its own changes, and its heartbeat if  *)
(* it has one.                                                             *)
LEMMA ReplayedType ==
  ASSUME NEW c \in Commit, NEW old \in Commit, NEW new \in Commit
  PROVE  /\ Replayed(c, old, new) \in Commit
         /\ Replayed(c, old, new).tree =
              (new.tree \cup (c.tree \ old.tree)) \ (old.tree \ c.tree)
         /\ Replayed(c, old, new).beat =
              IF c.beat # old.beat THEN c.beat ELSE new.beat
<1>1. (new.tree \cup (c.tree \ old.tree)) \ (old.tree \ c.tree) \in Tree
  BY CommitType DEF Tree
<1>2. (IF c.beat # old.beat THEN c.beat ELSE new.beat) \in Heartbeat
  BY CommitType
<1> QED
  BY <1>1, <1>2, ByBotType DEF Replayed

(* A rebase puts the commits beyond the merge base, replayed, on top of    *)
(* the other history.                                                      *)
LEMMA RebasedMeans ==
  ASSUME NEW h \in Seq(Commit), NEW g \in Seq(Commit), NEW seed,
         Rooted(h, seed), Rooted(g, seed)
  PROVE  LET k == Shared(h, g)
             r == Rebased(h, g)
         IN
         /\ k \in 1..Len(h) /\ Len(h) - k \in Nat
         /\ r \in Seq(Commit) /\ Len(r) = Len(g) + (Len(h) - k)
         /\ IsPrefix(g, r)
         /\ \A i \in 1..Len(g) : r[i] = g[i]
         /\ \A i \in 1..(Len(h) - k) :
              r[Len(g) + i] = Replayed(h[k + i], h[k], Last(g))
<1> DEFINE k == Shared(h, g)
           r == Rebased(h, g)
           d == Len(h) - k
           new == [i \in 1..d |-> Replayed(h[k + i], h[k], Last(g))]
<1>1. k \in Nat /\ k <= Len(h) /\ 1 <= k /\ Len(h) \in Nat /\ Len(g) \in Nat
  <2>1. 1 <= Len(g) /\ 1 <= Len(h) /\ \A i \in 1..1 : h[i] = g[i]
    BY DEF Rooted
  <2> QED
    BY <2>1, SharedMeans
<1>2. d \in Nat
  BY <1>1
<1>3. \A i \in 1..d : Replayed(h[k + i], h[k], Last(g)) \in Commit
  <2> SUFFICES ASSUME NEW i \in 1..d
               PROVE  Replayed(h[k + i], h[k], Last(g)) \in Commit
    OBVIOUS
  <2>1. k \in 1..Len(h) /\ k + i \in 1..Len(h)
    BY <1>1
  <2>2. h[k] \in Commit /\ h[k + i] \in Commit
    BY <2>1, ElementOfSeq
  <2>3. Last(g) \in Commit
    BY LastType DEF Rooted
  <2> QED
    BY <2>2, <2>3, ReplayedType
<1>4. r = g \o new
  BY DEF Rebased, Replayed
<1> HIDE DEF k, d
<1>5. new \in [1..d -> Commit] /\ new \in Seq(Commit) /\ Len(new) = d
  BY <1>2, <1>3
<1>A. \A i \in 1..d : new[i] = Replayed(h[k + i], h[k], Last(g))
  OBVIOUS
<1> HIDE DEF new
<1>6. /\ g \o new \in Seq(Commit) /\ Len(g \o new) = Len(g) + Len(new)
      /\ \A i \in 1..(Len(g) + Len(new)) :
           (g \o new)[i] = IF i <= Len(g) THEN g[i] ELSE new[i - Len(g)]
  BY <1>5, ConcatProperties
<1> HIDE DEF r
<1>7. /\ r \in Seq(Commit) /\ Len(r) = Len(g) + d
      /\ \A i \in 1..(Len(g) + d) :
           r[i] = IF i <= Len(g) THEN g[i] ELSE new[i - Len(g)]
  BY <1>4, <1>5, <1>6
<1>B. \A i \in 1..Len(g) : r[i] = g[i]
  BY <1>1, <1>2, <1>7
<1>8. \A i \in 1..d : r[Len(g) + i] = Replayed(h[k + i], h[k], Last(g))
  <2> SUFFICES ASSUME NEW i \in 1..d
               PROVE  r[Len(g) + i] = Replayed(h[k + i], h[k], Last(g))
    OBVIOUS
  <2>1. Len(g) + i \in 1..(Len(g) + d) /\ ~(Len(g) + i <= Len(g))
        /\ Len(g) + i - Len(g) = i
    BY <1>1, <1>2
  <2>2. r[Len(g) + i] = new[i]
    BY <1>7, <2>1
  <2> QED
    BY <1>A, <2>2
<1>9. IsPrefix(g, r)
  <2>1. Len(g) <= Len(r)
    BY <1>1, <1>2, <1>7
  <2> QED
    BY <1>7, <1>B, <2>1, PrefixMeans
<1> QED
  BY <1>1, <1>2, <1>7, <1>8, <1>9, <1>B DEF k, r, d
-----------------------------------------------------------------------------
(* Type correctness, and that every history starts at the seed.            *)

(* What the steps make of the record of a run keeps its type.              *)
LEMMA EndedType ==
  ASSUME NEW e \in Exit, NEW landed \in BOOLEAN
  PROVE  /\ Ended(e, landed) \in BotState /\ Ended(e, landed).pc = "idle"
         /\ Ended(e, landed).landed = landed
<1>1. {} \in Tree /\ {} \in SUBSET Group /\ 0 \in 0..Len(Groups)
  BY GroupFacts DEF Tree
<1>2. <<>> \in Seq(Commit)
  OBVIOUS
<1> QED
  BY <1>1, <1>2 DEF Ended, BotState, PC

(* A night that is over holds nothing.                                     *)
LEMMA EndedOK ==
  ASSUME NEW e \in Exit, NEW landed \in BOOLEAN, NEW seed
  PROVE  BotOK(Ended(e, landed), seed)
BY EndedType DEF BotOK

(* The fields of the bot's night, one by one.                              *)
LEMMA BotFields ==
  ASSUME NEW b \in BotState
  PROVE  /\ b.pc \in PC /\ b.exit \in Exit /\ b.base \in Seq(Commit)
         /\ b.head \in Seq(Commit) /\ b.work \in Tree
         /\ b.next \in 0..Len(Groups) /\ b.heldBack \in BOOLEAN
         /\ b.fail \in BOOLEAN /\ b.attempt \in 0..3
         /\ b.red \in SUBSET Group /\ b.raced \in BOOLEAN
         /\ b.landed \in BOOLEAN
BY DEF BotState

(* After a transaction comes the next group's, or the heartbeat.           *)
LEMMA ProceedMeans ==
  ASSUME NEW b \in BotState, NEW landed \in BOOLEAN
  PROVE  /\ Proceed(b, landed) \in BotState
         /\ \/ Proceed(b, landed) = [b EXCEPT !.pc = "beat"]
            \/ /\ b.next < Len(Groups)
               /\ b.next = 0 => ~landed
               /\ Proceed(b, landed) =
                    [b EXCEPT !.pc = "update", !.next = b.next + 1]
<1>1. b.next \in 0..Len(Groups) /\ Len(Groups) \in Nat
  BY GroupFacts DEF BotState
<1>2. CASE b.next = Len(Groups) \/ (b.next = 0 /\ landed)
  <2>1. Proceed(b, landed) = [b EXCEPT !.pc = "beat"]
    BY <1>2 DEF Proceed
  <2>2. [b EXCEPT !.pc = "beat"] \in BotState
    BY DEF BotState, PC
  <2> QED
    BY <2>1, <2>2
<1>3. CASE ~(b.next = Len(Groups) \/ (b.next = 0 /\ landed))
  <2>1. Proceed(b, landed) = [b EXCEPT !.pc = "update", !.next = b.next + 1]
    BY <1>3 DEF Proceed
  <2>2. b.next + 1 \in 0..Len(Groups)
    BY <1>1, <1>3
  <2>3. [b EXCEPT !.pc = "update", !.next = b.next + 1] \in BotState
    BY <2>2 DEF BotState, PC
  <2> QED
    BY <1>1, <1>3, <2>1, <2>3
<1> QED
  BY <1>2, <1>3

(* Either way the night stays well formed.                                 *)
LEMMA ProceedOK ==
  ASSUME NEW seed, NEW b, BotOK(b, seed), b.pc # "idle", NEW landed \in BOOLEAN
  PROVE  BotOK(Proceed(b, landed), seed)
<1>1. b \in BotState
  BY DEF BotOK
<1>2. /\ Proceed(b, landed).pc \in {"beat", "update"}
      /\ Proceed(b, landed).base = b.base /\ Proceed(b, landed).head = b.head
  <2>1. CASE Proceed(b, landed) = [b EXCEPT !.pc = "beat"]
    BY <1>1, <2>1 DEF BotState
  <2>2. CASE Proceed(b, landed) =
               [b EXCEPT !.pc = "update", !.next = b.next + 1]
    BY <1>1, <2>2 DEF BotState
  <2> QED
    BY <1>1, <2>1, <2>2, ProceedMeans
<1>3. Proceed(b, landed) \in BotState
  BY <1>1, ProceedMeans
<1> QED
  BY <1>2, <1>3 DEF BotOK

(* A history keeps its root when it grows.                                 *)
LEMMA RootedAppend ==
  ASSUME NEW h \in Seq(Commit), NEW c \in Commit, NEW seed, Rooted(h, seed)
  PROVE  Rooted(Append(h, c), seed)
BY AppendLast DEF Rooted

(* A transaction that fails leaves a well formed night.                    *)
LEMMA FailsOK ==
  ASSUME NEW seed, BotOK(bot, seed), bot.pc # "idle", TransactionFails
  PROVE  BotOK(bot', seed)
<1>1. bot \in BotState /\ bot.next \in 0..Len(Groups)
  BY DEF BotOK, BotState
<1>2. bot.red \cup Members(bot.next) \subseteq Group /\ bot.red \subseteq Group
  BY <1>1, GroupFacts, BotFields
<1>3. (bot.fail \/ bot.next # 0) \in BOOLEAN
  OBVIOUS
<1>4. bot' \in BotState
  BY <1>1, <1>2, <1>3 DEF TransactionFails, BotState, PC
<1>5. bot'.pc = "restore" /\ bot'.base = bot.base /\ bot'.head = bot.head
  BY <1>1 DEF TransactionFails, BotState
<1> QED
  BY <1>4, <1>5 DEF BotOK
Counts == [runs : 0..MaxRuns, faults : 0..MaxFaults, pushes : 0..MaxPushes]

(* The bounds on what goes wrong stay bounds.                              *)
LEMMA CountsKept ==
  ASSUME count \in Counts, NoFault \/ Fault
  PROVE  count' \in Counts
<1>1. {MaxRuns, MaxFaults, MaxPushes, MaxTime} \subseteq Nat
  BY RollingAssumption DEF RollingAssumption
<1> QED
  BY <1>1 DEF Counts, Fault, NoFault

(* A step that only moves the run.                                         *)
LEMMA RunStep ==
  ASSUME TypeInv, UNCHANGED <<master, store, outside, built>>,
         count' \in Counts, BotOK(bot', master[1])
  PROVE  TypeInv'
<1>1. TypeOK'
  BY DEF TypeInv, TypeOK, Counts, BotOK, store, outside
<1> QED
  BY <1>1 DEF TypeInv, store

(* At the start everything is typed.                                       *)
LEMMA InitTypeInv == Init => TypeInv
<1> SUFFICES ASSUME Init PROVE TypeInv
  OBVIOUS
<1>1. PICK t \in Seed :
        master = << [ signer |-> Bot, merge |-> FALSE, tree |-> t,
                      beat |-> [epoch |-> 0, green |-> TRUE] ] >>
  BY DEF Init
<1> DEFINE c == [ signer |-> Bot, merge |-> FALSE, tree |-> t,
                  beat |-> [epoch |-> 0, green |-> TRUE] ]
<1>2. c \in Commit
  BY RollingAssumption DEF RollingAssumption, Commit, Heartbeat
<1> HIDE DEF c
<1>3. master = <<c>> /\ anchor = <<c>>
  BY <1>1 DEF c, Init
<1>4. /\ master \in Seq(Commit) /\ anchor \in Seq(Commit)
      /\ Len(master) = 1 /\ Len(anchor) = 1 /\ master[1] = c /\ anchor[1] = c
  BY <1>2, <1>3
<1>5. BotOK(bot, master[1]) /\ bot \in BotState
  BY EndedOK, EndedType DEF Init, Exit
<1>6. {MaxRuns, MaxFaults, MaxPushes, MaxTime} \subseteq Nat
  BY RollingAssumption DEF RollingAssumption
<1>7. TypeOK
  <2>1. /\ upstream = {} /\ roots = None /\ deployed = None /\ streak = 0
        /\ now = 0 /\ built = {}
        /\ count = [runs |-> 0, faults |-> 0, pushes |-> 0]
    BY DEF Init
  <2>2. count \in [runs : 0..MaxRuns, faults : 0..MaxFaults, pushes : 0..MaxPushes]
    BY <1>6, <2>1
  <2>3. now \in 0..MaxTime /\ streak \in Nat
    BY <1>6, <2>1
  <2> QED
    BY <1>4, <1>5, <2>1, <2>2, <2>3 DEF TypeOK
<1> QED
  BY <1>4, <1>5, <1>7 DEF TypeInv, Rooted

(* What the type invariant says of the histories in hand.                  *)
LEMMA TypeFacts ==
  ASSUME TypeInv
  PROVE  /\ bot \in BotState /\ BotOK(bot, master[1]) /\ count \in Counts
         /\ master \in Seq(Commit) /\ anchor \in Seq(Commit)
         /\ Rooted(master, master[1]) /\ Rooted(anchor, master[1])
         /\ bot.pc # "idle" => /\ Rooted(bot.base, master[1])
                               /\ Rooted(bot.head, master[1])
                               /\ Last(bot.head) \in Commit
                               /\ Last(bot.head).tree \in Tree
                               /\ Last(bot.head).beat \in Heartbeat
         /\ Last(master) \in Commit /\ Last(master).tree \in Tree
<1>1. bot \in BotState /\ BotOK(bot, master[1]) /\ count \in Counts
  BY DEF TypeInv, TypeOK, Counts
<1>2. /\ master \in Seq(Commit) /\ anchor \in Seq(Commit)
      /\ Rooted(master, master[1]) /\ Rooted(anchor, master[1])
  BY DEF TypeInv, TypeOK
<1>3. bot.pc # "idle" => Rooted(bot.base, master[1]) /\ Rooted(bot.head, master[1])
  BY <1>1 DEF BotOK
<1>4. bot.pc # "idle" => /\ Last(bot.head) \in Commit
                         /\ Last(bot.head).tree \in Tree
                         /\ Last(bot.head).beat \in Heartbeat
  BY <1>1, <1>3, BotFields, LastType DEF Rooted
<1>5. Last(master) \in Commit /\ Last(master).tree \in Tree
  BY <1>2, LastType DEF Rooted
<1> QED
  BY <1>1, <1>2, <1>3, <1>4, <1>5

(* A night starts: fetch, reset, verify.                                   *)
LEMMA StartType ==
  ASSUME TypeInv, Start
  PROVE  TypeInv'
<1>1. count' \in Counts
  <2>1. {MaxRuns, MaxFaults, MaxPushes, MaxTime} \subseteq Nat
    BY RollingAssumption DEF RollingAssumption
  <2>2. /\ count \in Counts /\ count.runs \in 0..MaxRuns
        /\ count.faults \in 0..MaxFaults
    BY TypeFacts DEF Counts
  <2>3. CASE count' = [count EXCEPT !.runs = @ + 1] /\ count.runs < MaxRuns
    BY <2>1, <2>2, <2>3 DEF Counts
  <2>4. CASE /\ count' = [count EXCEPT !.runs = @ + 1, !.faults = @ + 1]
             /\ count.runs < MaxRuns /\ count.faults < MaxFaults
    <3>1. count.runs + 1 \in 0..MaxRuns /\ count.faults + 1 \in 0..MaxFaults
      BY <2>1, <2>2, <2>4
    <3> QED
      BY <2>2, <2>4, <3>1 DEF Counts
  <2> QED
    BY <2>3, <2>4 DEF Start
<1>2. BotOK(bot', master[1])
  <2>1. CASE bot' = Ended("fatal", FALSE)
    BY <2>1, EndedOK DEF Exit
  <2>2. CASE bot' = [Ended("0", FALSE) EXCEPT
                       !.pc = "update", !.base = master, !.head = master,
                       !.work = Last(master).tree]
    <3>1. Ended("0", FALSE) \in BotState
      BY EndedType DEF Exit
    <3>2. bot' \in BotState
      BY <2>2, <3>1, TypeFacts DEF BotState, PC
    <3>3. bot'.pc = "update" /\ bot'.base = master /\ bot'.head = master
      BY <2>2, <3>1 DEF BotState
    <3> QED
      BY <3>2, <3>3, TypeFacts DEF BotOK
  <2> QED
    BY <2>1, <2>2 DEF Start
<1> QED
  BY <1>1, <1>2, RunStep DEF Start

(* The inputs of a group, or of all, are updated.                          *)
LEMMA UpdateType ==
  ASSUME TypeInv, Update
  PROVE  TypeInv'
<1> DEFINE new == (Members(bot.next) \cap upstream) \ bot.work
           updated == bot.work \cup new
<1>1. bot \in BotState /\ BotOK(bot, master[1]) /\ bot.pc = "update"
  BY TypeFacts DEF Update
<1>2. updated \in Tree /\ updated \ {Held} \in Tree
  BY <1>1, GroupFacts, BotFields DEF Tree
<1>3. count' \in Counts
  BY TypeFacts, CountsKept DEF Update
<1>4. BotOK(bot', master[1])
  <2>1. CASE bot' = Proceed(bot, TRUE)
    BY <1>1, <2>1, ProceedOK
  <2>2. CASE TransactionFails
    BY <1>1, <2>2, FailsOK
  <2>3. CASE \E t \in {updated, updated \ {Held}} :
               bot' = [bot EXCEPT !.pc = "build", !.work = t,
                                  !.heldBack = FALSE]
    <3>1. PICK t \in Tree : bot' = [bot EXCEPT !.pc = "build", !.work = t,
                                               !.heldBack = FALSE]
      BY <1>2, <2>3
    <3>2. bot' \in BotState
      BY <1>1, <3>1 DEF BotState, PC
    <3>3. bot'.pc = "build" /\ bot'.base = bot.base /\ bot'.head = bot.head
      BY <1>1, <3>1 DEF BotState
    <3> QED
      BY <1>1, <3>2, <3>3 DEF BotOK
  <2> QED
    BY <2>1, <2>2, <2>3 DEF Update, AfterRelease
<1> QED
  BY <1>3, <1>4, RunStep DEF Update

(* The hosts are built.                                                    *)
LEMMA BuildType ==
  ASSUME TypeInv, Build
  PROVE  TypeInv'
<1>1. bot \in BotState /\ BotOK(bot, master[1]) /\ bot.pc = "build"
  BY TypeFacts DEF Build
<1>2. count' \in Counts
  BY TypeFacts, CountsKept DEF Build
<1>3. BotOK(bot', master[1])
  <2>1. CASE Goto("commit")
    <3>1. bot' \in BotState
      BY <1>1, <2>1 DEF Goto, BotState, PC
    <3>2. bot'.pc = "commit" /\ bot'.base = bot.base /\ bot'.head = bot.head
      BY <1>1, <2>1 DEF Goto, BotState
    <3> QED
      BY <1>1, <3>1, <3>2 DEF BotOK
  <2>2. CASE TransactionFails
    BY <1>1, <2>2, FailsOK
  <2>3. CASE AutoHold
    <3>1. bot.work \cup {Held} \in Tree
      BY <1>1, BotFields DEF Tree
    <3>2. bot' \in BotState
      BY <1>1, <2>3, <3>1 DEF AutoHold, BotState
    <3>3. bot'.pc = bot.pc /\ bot'.base = bot.base /\ bot'.head = bot.head
      BY <1>1, <2>3 DEF AutoHold, BotState
    <3> QED
      BY <1>1, <3>2, <3>3 DEF BotOK
  <2> QED
    BY <2>1, <2>2, <2>3 DEF Build
<1>4. built' \subseteq Tree /\ roots' \in Tree \cup {None}
  BY <1>1, BotFields DEF Build, RefreshRoots, TypeInv, TypeOK
<1>5. bot' \in BotState
  BY <1>3 DEF BotOK
<1>6. TypeOK'
  BY <1>2, <1>4, <1>5 DEF TypeInv, TypeOK, Build, outside, Counts
<1> QED
  BY <1>3, <1>6 DEF TypeInv, Build

(* A green transaction is committed.                                       *)
LEMMA CommitGroupType ==
  ASSUME TypeInv, CommitGroup
  PROVE  TypeInv'
<1>1. bot \in BotState /\ BotOK(bot, master[1]) /\ bot.pc = "commit"
  BY TypeFacts DEF CommitGroup
<1>2. count' \in Counts
  BY TypeFacts, CountsKept DEF CommitGroup
<1>3. BotOK(bot', master[1])
  <2>1. CASE TransactionFails
    BY <1>1, <2>1, FailsOK
  <2>2. CASE bot' = Proceed([bot EXCEPT
                               !.head = Append(@, ByBot(bot.work,
                                                        Last(@).beat))], TRUE)
    <3> DEFINE c == ByBot(bot.work, Last(bot.head).beat)
               b == [bot EXCEPT !.head = Append(bot.head, c)]
    <3>1. c \in Commit
      BY <1>1, BotFields, TypeFacts, ByBotType
    <3> HIDE DEF c
    <3>2. Append(bot.head, c) \in Seq(Commit)
          /\ Rooted(Append(bot.head, c), master[1])
      BY <1>1, <3>1, BotFields, AppendLast, RootedAppend, TypeFacts
    <3>3. b \in BotState
      BY <1>1, <3>2 DEF BotState
    <3>4. b.pc = "commit" /\ b.base = bot.base /\ b.head = Append(bot.head, c)
      BY <1>1 DEF BotState
    <3>5. BotOK(b, master[1])
      BY <1>1, <3>2, <3>3, <3>4 DEF BotOK
    <3>6. bot' = Proceed(b, TRUE)
      BY <2>2 DEF c
    <3> QED
      BY <3>4, <3>5, <3>6, ProceedOK
  <2> QED
    BY <2>1, <2>2 DEF CommitGroup
<1> QED
  BY <1>2, <1>3, RunStep DEF CommitGroup

(* A red one is rolled back.                                               *)
LEMMA RestoreType ==
  ASSUME TypeInv, Restore
  PROVE  TypeInv'
<1>1. bot \in BotState /\ BotOK(bot, master[1]) /\ bot.pc = "restore"
  BY TypeFacts DEF Restore
<1>2. count' \in Counts
  BY TypeFacts, CountsKept DEF Restore
<1>3. BotOK(bot', master[1])
  <2>1. CASE End("aborted")
    BY <1>1, <2>1, BotFields, EndedOK DEF End, Exit
  <2>2. CASE bot' = Proceed(Restored(bot), FALSE)
    <3>1. Restored(bot) \in BotState
      BY <1>1, TypeFacts DEF Restored, BotState
    <3>2. /\ Restored(bot).pc = "restore" /\ Restored(bot).base = bot.base
          /\ Restored(bot).head = bot.head
      BY <1>1 DEF Restored, BotState
    <3>3. BotOK(Restored(bot), master[1])
      BY <1>1, <3>1, <3>2 DEF BotOK
    <3> QED
      BY <2>2, <3>2, <3>3, ProceedOK
  <2> QED
    BY <2>1, <2>2 DEF Restore
<1> QED
  BY <1>2, <1>3, RunStep DEF Restore

(* An epoch follows the one before, whatever the clock says.               *)
LEMMA EpochType ==
  ASSUME TypeInv, NEW previous \in Nat
  PROVE  NextEpoch(previous) \in Nat /\ NextEpoch(previous) > previous
<1>1. now \in Nat
  BY RollingAssumption DEF RollingAssumption, TypeInv, TypeOK
<1> QED
  BY <1>1 DEF NextEpoch

(* The run is over, or only its program counter moves.                     *)
LEMMA GotoOK ==
  ASSUME NEW seed, BotOK(bot, seed), bot.pc # "idle", NEW pc \in PC, Goto(pc),
         pc \in {"race", "verify"} => bot.attempt >= 1,
         pc # "push", pc = "race" => bot.attempt <= 2
  PROVE  BotOK(bot', seed)
<1>1. bot \in BotState
  BY DEF BotOK
<1>2. bot' \in BotState
  BY <1>1 DEF Goto, BotState
<1>3. /\ bot'.pc = pc /\ bot'.base = bot.base /\ bot'.head = bot.head
      /\ bot'.attempt = bot.attempt
  BY <1>1 DEF Goto, BotState
<1> QED
  BY <1>2, <1>3 DEF BotOK

(* A night that ends at once is well formed.                               *)
LEMMA FatalOK ==
  ASSUME NEW seed, BotOK(bot, seed), NEW e \in Exit, End(e)
  PROVE  BotOK(bot', seed)
BY EndedOK, BotFields DEF BotOK, End

(* The heartbeat is committed.                                             *)
LEMMA WriteHeartbeatType ==
  ASSUME TypeInv, WriteHeartbeat
  PROVE  TypeInv'
<1>1. bot \in BotState /\ BotOK(bot, master[1]) /\ bot.pc = "beat"
  BY TypeFacts DEF WriteHeartbeat
<1>2. count' \in Counts
  BY TypeFacts, CountsKept DEF WriteHeartbeat
<1> DEFINE last == Last(bot.head)
           beat == [epoch |-> NextEpoch(last.beat.epoch), green |-> ~bot.fail]
           c == ByBot(last.tree, beat)
           head == Append(bot.head, c)
<1>3. BotOK(bot', master[1])
  <2>1. CASE Fatal
    BY <1>1, <2>1, FatalOK DEF Fatal, Exit
  <2>2. CASE bot' = [bot EXCEPT !.pc = "push", !.head = head, !.attempt = 1]
    <3>1. last \in Commit /\ last.beat.epoch \in Nat /\ last.tree \in Tree
      BY <1>1, TypeFacts, CommitType
    <3>2. beat \in Heartbeat
      BY <1>1, <3>1, EpochType, BotFields DEF Heartbeat
    <3>3. c \in Commit
      BY <3>1, <3>2, ByBotType
    <3> HIDE DEF c, beat
    <3>4. head \in Seq(Commit) /\ Rooted(head, master[1])
      BY <1>1, <3>3, BotFields, AppendLast, RootedAppend, TypeFacts
    <3> HIDE DEF head
    <3>5. bot' \in BotState
      <4>1. 1 \in 0..3
        OBVIOUS
      <4> QED
        BY <1>1, <2>2, <3>4, <4>1 DEF BotState, PC
    <3>6. /\ bot'.pc = "push" /\ bot'.base = bot.base /\ bot'.head = head
          /\ bot'.attempt = 1
      BY <1>1, <2>2 DEF BotState
    <3> QED
      BY <1>1, <3>4, <3>5, <3>6 DEF BotOK
  <2> QED
    BY <2>1, <2>2 DEF WriteHeartbeat
<1> QED
  BY <1>2, <1>3, RunStep DEF WriteHeartbeat

(* A push that fails is tried again, or given up.                          *)
LEMMA PushFailsOK ==
  ASSUME NEW seed, BotOK(bot, seed), bot.pc = "push", PushFails
  PROVE  BotOK(bot', seed)
<1>1. bot.attempt \in 1..3
  BY BotFields DEF BotOK
<1>2. CASE bot.attempt = 3
  BY <1>2, FatalOK DEF PushFails, Fatal, Exit
<1>3. CASE bot.attempt # 3
  BY <1>1, <1>3, GotoOK DEF PushFails, PC
<1> QED
  BY <1>2, <1>3

(* The push, and the answer that may be lost.                              *)
LEMMA PushType ==
  ASSUME TypeInv, Push
  PROVE  TypeInv'
<1>1. bot \in BotState /\ BotOK(bot, master[1]) /\ bot.pc = "push"
  BY TypeFacts DEF Push
<1>2. count' \in Counts
  BY TypeFacts, CountsKept DEF Push
<1>3. CASE PushFails /\ UNCHANGED master
  BY <1>1, <1>2, <1>3, PushFailsOK, RunStep DEF Push
<1>4. CASE master' = bot.head
  <2>1. /\ master' \in Seq(Commit) /\ Rooted(master', master[1])
        /\ master'[1] = master[1]
    BY <1>1, <1>4, BotFields, TypeFacts DEF Rooted
  <2>2. bot.attempt \in 1..3
    BY <1>1, BotFields DEF BotOK
  <2> DEFINE b == [bot EXCEPT !.landed = TRUE]
  <2>3. BotOK(bot', master[1])
    <3>1. CASE bot' = [b EXCEPT !.pc = "verify"]
      <4>1. bot' \in BotState
        BY <1>1, <3>1 DEF BotState, PC
      <4>2. /\ bot'.pc = "verify" /\ bot'.base = bot.base
            /\ bot'.head = bot.head /\ bot'.attempt = bot.attempt
        BY <1>1, <3>1 DEF BotState
      <4> QED
        BY <1>1, <2>2, <4>1, <4>2 DEF BotOK
    <3>2. CASE b.attempt = 3 /\ bot' = Ended("fatal", TRUE)
      BY <3>2, EndedOK DEF Exit
    <3>3. CASE b.attempt # 3 /\ bot' = [b EXCEPT !.pc = "race"]
      <4>1. bot' \in BotState
        BY <1>1, <3>3 DEF BotState, PC
      <4>2. /\ bot'.pc = "race" /\ bot'.base = bot.base /\ b.attempt = bot.attempt
            /\ bot'.head = bot.head /\ bot'.attempt = bot.attempt
        BY <1>1, <3>3 DEF BotState
      <4> QED
        BY <1>1, <2>2, <3>3, <4>1, <4>2 DEF BotOK
    <3>4. CASE PushFails
      BY <1>1, <3>4, PushFailsOK
    <3> QED
      BY <3>1, <3>2, <3>3, <3>4 DEF Push
  <2>4. bot' \in BotState
    BY <2>3 DEF BotOK
  <2>5. TypeOK'
    BY <1>2, <2>1, <2>4 DEF TypeInv, TypeOK, Push, store, outside, Counts
  <2> QED
    BY <2>1, <2>3, <2>5 DEF TypeInv, Push, store
<1> QED
  BY <1>3, <1>4 DEF Push

(* A push that was refused: fetch and rebase.                              *)
LEMMA RaceType ==
  ASSUME TypeInv, Race
  PROVE  TypeInv'
<1> DEFINE again == [bot EXCEPT !.pc = "push", !.attempt = @ + 1]
           fetched == [again EXCEPT !.base = master]
           rebased == RebaseOnto(fetched, master)
<1>1. bot \in BotState /\ BotOK(bot, master[1]) /\ bot.pc = "race"
  BY TypeFacts DEF Race
<1>2. count' \in Counts
  BY TypeFacts, CountsKept DEF Race
<1>3. bot.attempt \in 1..2 /\ bot.attempt + 1 \in 0..3 /\ bot.attempt + 1 >= 1
  BY <1>1, BotFields DEF BotOK
<1>4. /\ again \in BotState /\ again.pc = "push" /\ again.base = bot.base
      /\ again.head = bot.head /\ again.attempt = bot.attempt + 1
  BY <1>1, <1>3 DEF BotState, PC
<1>5. /\ fetched \in BotState /\ fetched.pc = "push" /\ fetched.base = master
      /\ fetched.head = bot.head /\ fetched.attempt = bot.attempt + 1
  <2>1. fetched = [bot EXCEPT !.pc = "push", !.attempt = @ + 1, !.base = master]
    BY <1>1 DEF BotState
  <2> QED
    BY <1>1, <1>3, <2>1, TypeFacts DEF BotState, PC
<1>6. BotOK(again, master[1]) /\ BotOK(fetched, master[1])
  BY <1>1, <1>3, <1>4, <1>5, TypeFacts DEF BotOK
<1> HIDE DEF fetched
<1>7. BotOK(rebased, master[1])
  <2>1. /\ Rebased(bot.head, master) \in Seq(Commit)
        /\ Rooted(Rebased(bot.head, master), master[1])
    <3>1. /\ Rooted(master, master[1]) /\ Rooted(bot.head, master[1])
          /\ master \in Seq(Commit) /\ bot.head \in Seq(Commit)
      BY <1>1, TypeFacts, BotFields
    <3>2. /\ Rebased(bot.head, master) \in Seq(Commit)
          /\ Len(Rebased(bot.head, master)) =
               Len(master) + (Len(bot.head) - Shared(bot.head, master))
          /\ Len(bot.head) - Shared(bot.head, master) \in Nat
          /\ \A i \in 1..Len(master) : Rebased(bot.head, master)[i] = master[i]
      BY <3>1, RebasedMeans
    <3> QED
      BY <3>1, <3>2 DEF Rooted
  <2>2. /\ rebased = [fetched EXCEPT !.head = Rebased(bot.head, master),
                                     !.raced = TRUE]
    BY <1>5 DEF RebaseOnto
  <2>3. rebased \in BotState
    BY <1>5, <2>1, <2>2 DEF BotState
  <2>4. /\ rebased.pc = "push" /\ rebased.base = master
        /\ rebased.head = Rebased(bot.head, master)
        /\ rebased.attempt = bot.attempt + 1
    BY <1>5, <2>2 DEF BotState
  <2> QED
    BY <1>3, <2>1, <2>3, <2>4, TypeFacts DEF BotOK
<1>8. BotOK(bot', master[1])
  <2>1. CASE bot' = again
    BY <1>6, <2>1
  <2>2. CASE bot' = fetched
    BY <1>6, <2>2
  <2>3. CASE bot' = rebased
    BY <1>7, <2>3
  <2>4. CASE Fatal
    BY <1>1, <2>4, FatalOK DEF Fatal, Exit
  <2> QED
    BY <2>1, <2>2, <2>3, <2>4 DEF Race, fetched
<1> QED
  BY <1>2, <1>8, RunStep DEF Race

(* What follows the push, and a kill at any moment.                        *)
LEMMA LastStepsType ==
  ASSUME TypeInv, VerifyPush \/ WriteAnchor \/ PushDeploy \/ Finish \/ Kill
  PROVE  TypeInv'
<1>1. bot \in BotState /\ BotOK(bot, master[1]) /\ bot.pc # "idle"
  BY TypeFacts DEF VerifyPush, WriteAnchor, PushDeploy, Finish, Kill
<1>2. count' \in Counts
  <2>1. CASE WriteAnchor \/ Finish
    BY <2>1, TypeFacts DEF WriteAnchor, Finish
  <2>2. CASE VerifyPush \/ PushDeploy \/ Kill
    BY <2>2, TypeFacts, CountsKept DEF VerifyPush, PushDeploy, Kill
  <2> QED
    BY <2>1, <2>2
<1>3. CASE VerifyPush
  <2>1. BotOK(bot', master[1])
    <3>1. CASE Goto("anchor")
      BY <1>1, <3>1, GotoOK DEF PC
    <3>2. CASE End("unadvanced")
      BY <1>1, <3>2, FatalOK DEF Exit
    <3>3. CASE Fatal
      BY <1>1, <3>3, FatalOK DEF Exit, Fatal
    <3> QED
      BY <1>3, <3>1, <3>2, <3>3 DEF VerifyPush
  <2> QED
    BY <1>2, <1>3, <2>1, RunStep DEF VerifyPush
<1>4. CASE WriteAnchor
  <2>1. BotOK(bot', master[1])
    BY <1>1, <1>4, GotoOK DEF WriteAnchor, PC
  <2>2. anchor' \in Seq(Commit) /\ Rooted(anchor', master[1])
    BY <1>1, <1>4, BotFields, TypeFacts DEF WriteAnchor
  <2>3. bot' \in BotState
    BY <2>1 DEF BotOK
  <2>4. TypeOK'
    BY <1>2, <1>4, <2>2, <2>3 DEF TypeInv, TypeOK, WriteAnchor, outside, Counts
  <2> QED
    BY <1>4, <2>1, <2>2, <2>4 DEF TypeInv, WriteAnchor
<1>5. CASE PushDeploy
  <2> DEFINE failed == [bot EXCEPT !.pc = "finish", !.fail = TRUE]
  <2>3. BotOK(bot', master[1])
    <3>1. CASE bot' = failed
      <4>1. failed \in BotState
        BY <1>1 DEF BotState, PC
      <4>2. failed.pc = "finish" /\ failed.base = bot.base /\ failed.head = bot.head
        BY <1>1 DEF BotState
      <4> QED
        BY <1>1, <3>1, <4>1, <4>2 DEF BotOK
    <3>2. CASE Goto("finish")
      BY <1>1, <3>2, GotoOK DEF PC
    <3> QED
      BY <1>5, <3>1, <3>2 DEF PushDeploy
  <2>4. bot' \in BotState
    BY <2>3 DEF BotOK
  <2>5. deployed' \in Tree \cup {None}
    BY <1>5 DEF PushDeploy, TypeInv, TypeOK
  <2>6. TypeOK'
    BY <1>2, <1>5, <2>4, <2>5 DEF TypeInv, TypeOK, PushDeploy, outside, Counts
  <2> QED
    BY <1>5, <2>3, <2>6 DEF TypeInv, PushDeploy
<1>6. CASE Finish
  <2>0. End("0") \/ End("1")
    BY <1>6 DEF Finish
  <2>1. BotOK(bot', master[1])
    BY <1>1, <2>0, FatalOK DEF Exit
  <2>2. bot' \in BotState
    BY <2>1 DEF BotOK
  <2>3. streak' \in Nat
    BY <1>6 DEF Finish, TypeInv, TypeOK
  <2>4. TypeOK'
    BY <1>2, <1>6, <2>2, <2>3 DEF TypeInv, TypeOK, Finish, outside, Counts
  <2> QED
    BY <1>6, <2>1, <2>4 DEF TypeInv, Finish
<1>7. CASE Kill
  <2>1. End("killed")
    BY <1>7 DEF Kill
  <2>2. BotOK(bot', master[1])
    BY <1>1, <2>1, FatalOK DEF Exit
  <2> QED
    BY <1>2, <1>7, <2>2, RunStep DEF Kill
<1> QED
  BY <1>3, <1>4, <1>5, <1>6, <1>7

(* What another push makes of master.                                      *)
LEMMA PushedMeans ==
  ASSUME TypeInv, NEW p \in Pushes, NEW n \in 1..Len(master),
         master' = Pushed(SubSeq(master, 1, n), p)
  PROVE  /\ master' \in Seq(Commit) /\ Len(master') = n + 1
         /\ \A i \in 1..n : master'[i] = master[i]
         /\ master'[n + 1].tree = master[n].tree \cup {p.change}
         /\ master'[n + 1].beat = master[n].beat
<1> DEFINE h == SubSeq(master, 1, n)
           c == [ signer |-> p.signer, merge |-> p.merge,
                  tree |-> Last(h).tree \cup {p.change}, beat |-> Last(h).beat ]
<1>1. master \in Seq(Commit) /\ n \in Nat /\ \A i \in 1..n : master[i] \in Commit
  BY TypeFacts, ElementOfSeq
<1>2. /\ h \in Seq(Commit) /\ Len(h) = n
      /\ \A i \in 1..n : h[i] = master[i]
  <2>1. /\ SubSeq(master, 1, n) \in Seq(Commit)
        /\ Len(SubSeq(master, 1, n)) = IF 1 <= n THEN n - 1 + 1 ELSE 0
        /\ \A i \in 1..(n - 1 + 1) : SubSeq(master, 1, n)[i] = master[1 + i - 1]
    BY <1>1, SubSeqProperties
  <2> QED
    BY <1>1, <2>1
<1>3. master' = Append(h, c)
  BY DEF Pushed
<1> HIDE DEF h
<1>4. Last(h) = master[n] /\ master[n] \in Commit
  BY <1>1, <1>2 DEF Last
<1>5. c \in Commit
  <2>1. p.change \in Change /\ p.merge \in BOOLEAN
        /\ p.signer \in {q.signer : q \in Pushes} \cup {Bot}
    BY RollingAssumption DEF RollingAssumption, Change
  <2>2. Last(h).tree \in Tree /\ Last(h).beat \in Heartbeat
    BY <1>4, CommitType
  <2>3. Last(h).tree \cup {p.change} \in Tree
    BY <2>1, <2>2 DEF Tree
  <2> QED
    BY <2>1, <2>2, <2>3 DEF Commit
<1>6. c.tree = master[n].tree \cup {p.change} /\ c.beat = master[n].beat
  BY <1>4
<1> HIDE DEF c
<1>7. /\ master' \in Seq(Commit) /\ Len(master') = n + 1
      /\ \A i \in 1..n : master'[i] = h[i]
      /\ master'[n + 1] = c
  BY <1>2, <1>3, <1>5, AppendLast
<1> QED
  BY <1>2, <1>6, <1>7

(* What others do, and the clock.                                          *)
LEMMA EnvironmentType ==
  ASSUME TypeInv, OthersPush \/ UpstreamMoves \/ Tick
  PROVE  TypeInv'
<1>1. {MaxRuns, MaxFaults, MaxPushes, MaxTime} \subseteq Nat
  BY RollingAssumption DEF RollingAssumption
<1>2. CASE OthersPush
  <2>1. PICK p \in Pushes, n \in 1..Len(master) :
          master' = Pushed(SubSeq(master, 1, n), p)
    BY <1>2 DEF OthersPush
  <2>2. /\ master' \in Seq(Commit) /\ Len(master') = n + 1
        /\ \A i \in 1..n : master'[i] = master[i]
    BY <2>1, PushedMeans
  <2>3. Rooted(master', master[1]) /\ master'[1] = master[1]
    BY <2>2 DEF Rooted
  <2>4. count' \in Counts
    <3>1. count \in Counts /\ count.pushes \in 0..MaxPushes
      BY TypeFacts DEF Counts
    <3>2. count.pushes + 1 \in 0..MaxPushes
      BY <1>1, <1>2, <3>1 DEF OthersPush
    <3> QED
      BY <1>2, <3>1, <3>2 DEF OthersPush, Counts
  <2>5. TypeOK'
    BY <1>2, <2>2, <2>4 DEF TypeInv, TypeOK, OthersPush, store, outside, Counts
  <2> QED
    BY <1>2, <2>3, <2>5 DEF TypeInv, OthersPush, store
<1>3. CASE UpstreamMoves
  <2>1. upstream' \subseteq Group
    BY <1>3 DEF UpstreamMoves, TypeInv, TypeOK
  <2>2. TypeOK'
    BY <1>3, <2>1 DEF TypeInv, TypeOK, UpstreamMoves, store
  <2> QED
    BY <1>3, <2>2 DEF TypeInv, UpstreamMoves, store
<1>4. CASE Tick
  <2>1. now' \in 0..MaxTime
    BY <1>1, <1>4 DEF Tick, TypeInv, TypeOK
  <2>2. TypeOK'
    BY <1>4, <2>1 DEF TypeInv, TypeOK, Tick, store
  <2> QED
    BY <1>4, <2>2 DEF TypeInv, Tick, store
<1> QED
  BY <1>2, <1>3, <1>4

(* Every step keeps the types.                                             *)
LEMMA NextTypeInv == TypeInv /\ [Next]_vars => TypeInv'
<1> SUFFICES ASSUME TypeInv, [Next]_vars PROVE TypeInv'
  OBVIOUS
<1>1. CASE Step
  BY <1>1, StartType, UpdateType, BuildType, CommitGroupType, RestoreType,
     WriteHeartbeatType, PushType, RaceType, LastStepsType DEF Step
<1>2. CASE Kill \/ OthersPush \/ UpstreamMoves \/ Tick
  BY <1>2, LastStepsType, EnvironmentType
<1>3. CASE UNCHANGED vars
  BY <1>3 DEF TypeInv, TypeOK, vars, store, outside
<1> QED
  BY <1>1, <1>2, <1>3 DEF Next

(* Every state of the bot, the forge and the host has the type TypeOK      *)
(* gives it.                                                               *)
THEOREM TypeCorrect == Spec => []TypeOK
<1>1. Spec => []TypeInv
  BY InitTypeInv, NextTypeInv, PTL DEF Spec
<1>2. TypeInv => TypeOK
  BY DEF TypeInv
<1> QED
  BY <1>1, <1>2, PTL
-----------------------------------------------------------------------------
(* The anchor and the branch.                                              *)
LEMMA PrefixTransitive ==
  ASSUME NEW S, NEW f \in Seq(S), NEW g \in Seq(S), NEW h \in Seq(S),
         IsPrefix(f, g), IsPrefix(g, h)
  PROVE  IsPrefix(f, h)
<1>1. /\ Len(f) <= Len(g) /\ \A i \in 1..Len(f) : f[i] = g[i]
      /\ Len(g) <= Len(h) /\ \A i \in 1..Len(g) : g[i] = h[i]
  BY PrefixMeans
<1>2. \A i \in 1..Len(f) : i \in 1..Len(g)
  BY <1>1
<1>3. Len(f) <= Len(h) /\ \A i \in 1..Len(f) : f[i] = h[i]
  BY <1>1, <1>2
<1> QED
  BY <1>3, PrefixMeans

(* A history extends itself.                                               *)
LEMMA PrefixReflexive ==
  ASSUME NEW S, NEW h \in Seq(S)
  PROVE  IsPrefix(h, h)
BY PrefixMeans

(* A transaction keeps the clone and its base; it ends in another one, in  *)
(* the heartbeat, or with the run.                                         *)
LEMMA TransactionMoves ==
  ASSUME TypeInv, Update \/ Build \/ CommitGroup \/ Restore
  PROVE  /\ bot.pc \in Working
         /\ bot'.pc \in Working \cup {"idle"}
         /\ bot'.pc # "idle" => bot'.base = bot.base
<1>1. bot \in BotState
  BY TypeFacts
<1>2. ASSUME NEW b \in BotState, NEW landed \in BOOLEAN
      PROVE  /\ Proceed(b, landed).pc \in Working
             /\ Proceed(b, landed).base = b.base
  <2>1. CASE Proceed(b, landed) = [b EXCEPT !.pc = "beat"]
    BY <1>1, <2>1 DEF BotState, Working
  <2>2. CASE Proceed(b, landed) =
               [b EXCEPT !.pc = "update", !.next = b.next + 1]
    BY <1>1, <2>2 DEF BotState, Working
  <2> QED
    BY <2>1, <2>2, ProceedMeans
<1>3. ASSUME TransactionFails
      PROVE  bot'.pc \in Working /\ bot'.base = bot.base
  BY <1>1, <1>3 DEF TransactionFails, BotState, Working
<1>4. CASE Update
  <2>1. CASE bot' = Proceed(bot, TRUE)
    BY <1>1, <1>2, <1>4, <2>1 DEF Update, Working
  <2>2. CASE TransactionFails
    BY <1>3, <1>4, <2>2 DEF Update, Working
  <2>3. CASE \E t : bot' = [bot EXCEPT !.pc = "build", !.work = t,
                                       !.heldBack = FALSE]
    BY <1>1, <1>4, <2>3 DEF BotState, Working, Update
  <2> QED
    BY <1>4, <2>1, <2>2, <2>3 DEF Update
<1>5. CASE Build
  <2>1. CASE Goto("commit")
    BY <1>1, <1>5, <2>1 DEF Goto, BotState, Working, Build
  <2>2. CASE AutoHold
    BY <1>1, <1>5, <2>2 DEF AutoHold, BotState, Working, Build
  <2> QED
    BY <1>3, <1>5, <2>1, <2>2 DEF Build, Working
<1>6. CASE CommitGroup
  <2> DEFINE c == ByBot(bot.work, Last(bot.head).beat)
             b == [bot EXCEPT !.head = Append(bot.head, c)]
  <2>1. CASE bot' = Proceed(b, TRUE)
    <3>1. bot.pc # "idle" /\ bot.work \in Tree
      BY <1>1, <1>6, BotFields DEF CommitGroup
    <3>2. c \in Commit
      BY <3>1, TypeFacts, ByBotType
    <3> HIDE DEF c
    <3>3. Append(bot.head, c) \in Seq(Commit)
      BY <1>1, <3>2, BotFields, AppendLast
    <3>4. b \in BotState /\ b.base = bot.base
      BY <1>1, <3>3 DEF BotState
    <3> HIDE DEF b
    <3> QED
      BY <1>2, <1>6, <2>1, <3>4 DEF CommitGroup, Working
  <2> QED
    BY <1>3, <1>6, <2>1 DEF CommitGroup, Working
<1>7. CASE Restore
  <2>1. CASE bot' = Proceed(Restored(bot), FALSE)
    <3>1. bot.pc # "idle"
      BY <1>7 DEF Restore
    <3>2. Restored(bot) \in BotState /\ Restored(bot).base = bot.base
      BY <1>1, <3>1, TypeFacts DEF Restored, BotState
    <3> QED
      BY <1>2, <1>7, <2>1, <3>2 DEF Restore, Working
  <2>2. CASE End("aborted")
    <3>1. bot'.pc = "idle"
      BY <1>1, <2>2, BotFields, EndedType DEF End, Exit
    <3> QED
      BY <1>7, <3>1 DEF Restore, Working
  <2> QED
    BY <1>7, <2>1, <2>2 DEF Restore
<1> QED
  BY <1>4, <1>5, <1>6, <1>7

(* After the end of a night the bot rests.                                 *)
LEMMA EndMoves ==
  ASSUME TypeInv, NEW e \in Exit, End(e)
  PROVE  bot'.pc = "idle"
BY TypeFacts, BotFields, EndedType DEF End

(* A step that only goes on leaves the histories in hand.                  *)
LEMMA GotoMoves ==
  ASSUME TypeInv, NEW pc \in PC, Goto(pc)
  PROVE  /\ bot'.pc = pc /\ bot'.base = bot.base /\ bot'.head = bot.head
         /\ bot'.raced = bot.raced /\ bot'.red = bot.red
         /\ bot'.fail = bot.fail
BY TypeFacts DEF Goto, BotState

(* What an attempt to push does to master and to the clone.                *)
LEMMA PushMoves ==
  ASSUME TypeInv, Push
  PROVE  /\ bot.pc = "push" /\ anchor' = anchor /\ built' = built
         /\ bot'.pc \in {"verify", "race", "idle"}
         /\ bot'.pc # "idle" =>
              /\ bot'.base = bot.base /\ bot'.head = bot.head
              /\ bot'.raced = bot.raced /\ bot'.red = bot.red
              /\ bot'.fail = bot.fail
         /\ \/ master' = master /\ bot'.pc # "verify"
            \/ master' = bot.head /\ IsPrefix(master, bot.head)
<1>1. bot \in BotState /\ bot.pc = "push" /\ anchor' = anchor /\ built' = built
  BY TypeFacts DEF Push, store
<1>2. ASSUME PushFails
      PROVE  /\ bot'.pc \in {"race", "idle"}
             /\ bot'.pc # "idle" =>
                  /\ bot'.base = bot.base /\ bot'.head = bot.head
                  /\ bot'.raced = bot.raced /\ bot'.red = bot.red
                  /\ bot'.fail = bot.fail
  <2>1. CASE Goto("race")
    BY <2>1, GotoMoves DEF PC
  <2>2. CASE End("fatal")
    BY <2>2, EndMoves DEF Exit
  <2> QED
    BY <1>2, <2>1, <2>2 DEF PushFails, Fatal
<1>3. CASE PushFails /\ UNCHANGED master
  BY <1>1, <1>2, <1>3
<1> DEFINE b == [bot EXCEPT !.landed = TRUE]
<1>4. CASE /\ master' = bot.head /\ IsPrefix(master, bot.head)
           /\ \/ bot' = [b EXCEPT !.pc = "verify"]
              \/ bot' = IF b.attempt = 3 THEN Ended("fatal", TRUE)
                                         ELSE [b EXCEPT !.pc = "race"]
  <2>1. CASE bot' = [b EXCEPT !.pc = "verify"]
    BY <1>1, <1>4, <2>1 DEF BotState
  <2>2. CASE bot' = Ended("fatal", TRUE)
    BY <1>1, <1>4, <2>2, EndedType DEF Exit
  <2>3. CASE bot' = [b EXCEPT !.pc = "race"]
    BY <1>1, <1>4, <2>3 DEF BotState
  <2> QED
    BY <1>4, <2>1, <2>2, <2>3
<1> QED
  BY <1>3, <1>4 DEF Push

(* Looking for a race ends the run or leads to another attempt, with the   *)
(* clone as it was or rebased.                                             *)
LEMMA RaceMoves ==
  ASSUME TypeInv, Race
  PROVE  /\ bot.pc = "race" /\ UNCHANGED <<master, anchor, built>>
         /\ bot'.pc \in {"push", "idle"}
         /\ bot'.pc # "idle" =>
              /\ bot'.red = bot.red /\ bot'.fail = bot.fail
              /\ \/ /\ bot'.head = bot.head /\ bot'.base = bot.base
                    /\ bot'.raced = bot.raced
                 \/ /\ bot'.head = bot.head /\ bot'.base = master
                    /\ IsPrefix(master, bot.head) /\ bot'.raced = bot.raced
                 \/ /\ bot'.head = Rebased(bot.head, master)
                    /\ bot'.base = master /\ bot'.raced
                    /\ ~IsPrefix(master, bot.head)
                    /\ RangeVerifies(master, bot.head)
                    /\ RangeVerifies(bot'.head, master)
<1> DEFINE again == [bot EXCEPT !.pc = "push", !.attempt = @ + 1]
           fetched == [again EXCEPT !.base = master]
           rebased == RebaseOnto(fetched, master)
<1>1. bot \in BotState /\ bot.pc = "race" /\ UNCHANGED <<master, anchor, built>>
  BY TypeFacts DEF Race, store
<1>2. /\ again.pc = "push" /\ again.base = bot.base /\ again.head = bot.head
      /\ again.raced = bot.raced /\ again.red = bot.red /\ again.fail = bot.fail
  BY <1>1 DEF BotState
<1>3. /\ fetched.pc = "push" /\ fetched.base = master
      /\ fetched.head = bot.head
      /\ fetched.raced = bot.raced /\ fetched.red = bot.red
      /\ fetched.fail = bot.fail
  BY <1>1 DEF BotState
<1>4. /\ rebased.pc = "push" /\ rebased.base = master
      /\ rebased.head = Rebased(bot.head, master) /\ rebased.raced
      /\ rebased.red = bot.red /\ rebased.fail = bot.fail
  BY <1>1 DEF BotState, RebaseOnto
<1>5. CASE bot' = again
  BY <1>1, <1>2, <1>5
<1>6. CASE bot' = fetched /\ IsPrefix(master, bot.head)
  BY <1>1, <1>3, <1>6
<1>7. CASE /\ bot' = rebased /\ ~IsPrefix(master, bot.head)
           /\ RangeVerifies(master, bot.head)
           /\ RangeVerifies(rebased.head, master)
  <2> HIDE DEF rebased
  <2> QED
    BY <1>1, <1>4, <1>7
<1>8. CASE Fatal
  BY <1>1, <1>8, EndMoves DEF Fatal, Exit
<1> QED
  BY <1>5, <1>6, <1>7, <1>8 DEF Race

(* A night starts from a master that verifies back to the anchor.          *)
LEMMA StartMoves ==
  ASSUME TypeInv, Start
  PROVE  /\ UNCHANGED <<master, anchor, built>>
         /\ bot'.pc \in {"update", "idle"}
         /\ bot'.pc = "update" =>
              /\ bot'.base = master /\ bot'.head = master
              /\ bot'.work = Last(master).tree
              /\ bot'.red = {} /\ ~bot'.raced /\ ~bot'.fail /\ bot'.next = 0
              /\ RangeVerifies(master, anchor)
<1>1. Ended("0", FALSE) \in BotState
  BY EndedType DEF Exit
<1>2. CASE bot' = Ended("fatal", FALSE)
  BY <1>2, EndedType DEF Start, store, Exit
<1>3. CASE /\ bot' = [Ended("0", FALSE) EXCEPT
                        !.pc = "update", !.base = master, !.head = master,
                        !.work = Last(master).tree]
           /\ RangeVerifies(master, anchor)
  <2>1. /\ bot'.pc = "update" /\ bot'.base = master /\ bot'.head = master
        /\ bot'.work = Last(master).tree
        /\ bot'.red = {} /\ ~bot'.raced /\ ~bot'.fail /\ bot'.next = 0
    BY <1>3 DEF Ended
  <2> QED
    BY <1>3, <2>1 DEF Start, store
<1> QED
  BY <1>2, <1>3 DEF Start

(* What is pushed verifies back to the night's base.                       *)
LEMMA WriteHeartbeatMoves ==
  ASSUME TypeInv, WriteHeartbeat
  PROVE  /\ bot.pc = "beat" /\ UNCHANGED <<master, anchor, built>>
         /\ bot'.pc \in {"push", "idle"}
         /\ bot'.pc = "push" =>
              /\ bot'.base = bot.base
              /\ RangeVerifies(bot'.head, bot.base)
              /\ bot'.raced = bot.raced /\ bot'.red = bot.red
              /\ bot'.fail = bot.fail
<1>1. bot \in BotState /\ bot.pc = "beat" /\ UNCHANGED <<master, anchor, built>>
  BY TypeFacts DEF WriteHeartbeat, store
<1>2. CASE Fatal
  BY <1>1, <1>2, EndMoves DEF Fatal, Exit
<1>3. CASE \E h : /\ RangeVerifies(h, bot.base)
                  /\ bot' = [bot EXCEPT !.pc = "push", !.head = h, !.attempt = 1]
  <2>1. PICK h : /\ RangeVerifies(h, bot.base)
                 /\ bot' = [bot EXCEPT !.pc = "push", !.head = h, !.attempt = 1]
    BY <1>3
  <2>2. /\ bot'.pc = "push" /\ bot'.base = bot.base /\ bot'.head = h
        /\ bot'.raced = bot.raced /\ bot'.red = bot.red /\ bot'.fail = bot.fail
    BY <1>1, <2>1 DEF BotState
  <2> QED
    BY <1>1, <2>1, <2>2
<1> QED
  BY <1>2, <1>3 DEF WriteHeartbeat

(* After the landing nothing is pushed any more.                           *)
LEMMA LastMoves ==
  ASSUME TypeInv, VerifyPush \/ WriteAnchor \/ PushDeploy \/ Finish \/ Kill
  PROVE  /\ master' = master
         /\ bot'.pc \in {"anchor", "deploy", "finish", "idle"}
         /\ bot'.pc = "anchor" => VerifyPush /\ bot'.head = bot.head
         /\ anchor' = anchor \/ (WriteAnchor /\ anchor' = bot.head)
<1>1. CASE VerifyPush
  <2>1. CASE Goto("anchor")
    BY <1>1, <2>1, GotoMoves DEF VerifyPush, store, PC
  <2>2. CASE End("unadvanced") \/ End("fatal")
    BY <1>1, <2>2, EndMoves DEF VerifyPush, store, Exit
  <2> QED
    BY <1>1, <2>1, <2>2 DEF VerifyPush, Fatal
<1>2. CASE WriteAnchor
  BY <1>2, GotoMoves DEF WriteAnchor, PC
<1>3. CASE PushDeploy
  <2>1. CASE bot' = [bot EXCEPT !.pc = "finish", !.fail = TRUE]
    BY <1>3, <2>1, TypeFacts DEF PushDeploy, BotState
  <2>2. CASE Goto("finish")
    BY <1>3, <2>2, GotoMoves DEF PushDeploy, PC
  <2> QED
    BY <1>3, <2>1, <2>2 DEF PushDeploy
<1>4. CASE Finish
  <2>1. End("1") \/ End("0")
    BY <1>4 DEF Finish
  <2> QED
    BY <1>4, <2>1, EndMoves DEF Finish, Exit
<1>5. CASE Kill
  <2>1. End("killed")
    BY <1>5 DEF Kill
  <2> QED
    BY <1>5, <2>1, EndMoves DEF Kill, store, Exit
<1> QED
  BY <1>1, <1>2, <1>3, <1>4, <1>5

(* A forge that does not rewrite only adds to master.                      *)
LEMMA OthersPushMoves ==
  ASSUME TypeInv, OthersPush
  PROVE  /\ UNCHANGED <<anchor, bot, built>>
         /\ ~Rewrites =>
              /\ IsPrefix(master, master') /\ Len(master') = Len(master) + 1
              /\ Last(master').beat = Last(master).beat
<1>1. UNCHANGED <<anchor, bot, built>>
  BY DEF OthersPush, store
<1>2. ASSUME ~Rewrites
      PROVE  /\ IsPrefix(master, master') /\ Len(master') = Len(master) + 1
             /\ Last(master').beat = Last(master).beat
  <2>1. PICK p \in Pushes, n \in 1..Len(master) :
               n = Len(master) /\ master' = Pushed(SubSeq(master, 1, n), p)
    BY <1>2 DEF OthersPush
  <2>2. /\ master' \in Seq(Commit) /\ Len(master') = n + 1
        /\ \A i \in 1..n : master'[i] = master[i]
        /\ master'[n + 1].beat = master[n].beat
    BY <2>1, PushedMeans
  <2>3. master \in Seq(Commit) /\ n <= Len(master')
    BY <2>2, TypeFacts
  <2>4. IsPrefix(master, master')
    BY <2>1, <2>2, <2>3, PrefixMeans
  <2> QED
    BY <2>1, <2>2, <2>4 DEF Last
<1> QED
  BY <1>1, <1>2

(* At the start anchor and base are of master.                             *)
LEMMA InitLinearInv == Init => LinearInv
<1> SUFFICES ASSUME Init PROVE LinearInv
  OBVIOUS
<1>1. TypeInv
  BY InitTypeInv
<1>2. IsPrefix(anchor, master)
  BY <1>1, TypeFacts, PrefixReflexive DEF Init
<1>3. bot.pc = "idle"
  BY EndedType DEF Init, Exit
<1> QED
  BY <1>1, <1>2, <1>3 DEF LinearInv

(* On a master nobody rewrites they stay so.                               *)
LEMMA NextLinearInv == LinearInv /\ [Next]_vars => LinearInv'
<1> SUFFICES ASSUME LinearInv, [Next]_vars PROVE LinearInv'
  OBVIOUS
<1>1. TypeInv /\ TypeInv'
  BY NextTypeInv DEF LinearInv
<1>2. /\ master \in Seq(Commit) /\ anchor \in Seq(Commit) /\ bot.head \in Seq(Commit)
      /\ master' \in Seq(Commit)
  BY <1>1, TypeFacts, BotFields DEF TypeInv, TypeOK
<1> SUFFICES ASSUME ~Rewrites
             PROVE  /\ IsPrefix(anchor, master)'
                    /\ bot'.pc \in {"verify", "anchor"} => IsPrefix(bot.head, master)'
  BY <1>1 DEF LinearInv
<1>3. /\ IsPrefix(anchor, master)
      /\ bot.pc \in {"verify", "anchor"} => IsPrefix(bot.head, master)
  BY DEF LinearInv
<1>4. CASE Start
  BY <1>1, <1>3, <1>4, StartMoves
<1>5. CASE Update \/ Build \/ CommitGroup \/ Restore
  <2>1. UNCHANGED <<master, anchor>>
    BY <1>5 DEF Update, Build, CommitGroup, Restore, store
  <2> QED
    BY <1>1, <1>3, <1>5, <2>1, TransactionMoves DEF Working
<1>6. CASE WriteHeartbeat
  BY <1>1, <1>3, <1>6, WriteHeartbeatMoves
<1>7. CASE Push
  <2>1. CASE master' = master /\ bot'.pc # "verify"
    BY <1>1, <1>3, <1>7, <2>1, PushMoves
  <2>2. CASE master' = bot.head /\ IsPrefix(master, bot.head)
    <3>1. IsPrefix(anchor, master')
      BY <1>2, <1>3, <2>2, PrefixTransitive
    <3>2. bot'.pc \in {"verify", "anchor"} => bot'.head = master'
      BY <1>1, <1>7, <2>2, PushMoves
    <3> QED
      BY <1>1, <1>2, <1>7, <3>1, <3>2, PushMoves, PrefixReflexive
  <2> QED
    BY <1>1, <1>7, <2>1, <2>2, PushMoves
<1>8. CASE Race
  BY <1>1, <1>3, <1>8, RaceMoves
<1>9. CASE VerifyPush \/ WriteAnchor \/ PushDeploy \/ Finish \/ Kill
  <2>1. /\ master' = master
        /\ bot'.pc \in {"anchor", "deploy", "finish", "idle"}
        /\ bot'.pc = "anchor" => VerifyPush /\ bot'.head = bot.head
        /\ anchor' = anchor \/ (WriteAnchor /\ anchor' = bot.head)
    BY <1>1, <1>9, LastMoves
  <2>2. IsPrefix(anchor', master)
    BY <1>3, <2>1 DEF WriteAnchor
  <2>3. bot'.pc = "anchor" => IsPrefix(bot'.head, master)
    BY <1>3, <2>1 DEF VerifyPush
  <2> QED
    BY <2>1, <2>2, <2>3
<1>10. CASE OthersPush
  <2>1. IsPrefix(master, master') /\ UNCHANGED <<anchor, bot>>
    BY <1>1, <1>10, OthersPushMoves
  <2> QED
    BY <1>2, <1>3, <2>1, PrefixTransitive
<1>11. CASE UpstreamMoves \/ Tick \/ UNCHANGED vars
  BY <1>3, <1>11 DEF UpstreamMoves, Tick, vars, store
<1> QED
  BY <1>4, <1>5, <1>6, <1>7, <1>8, <1>9, <1>10, <1>11 DEF Next, Step

(* On a forge that never rewrites master, the base anchor is always on it: *)
(* no lost answer, race or refused push makes write_base_anchor record a   *)
(* commit that the next night could not descend from.                      *)
THEOREM AnchorStaysOnMaster == Spec => []AnchorOnMaster
<1>1. Spec => []LinearInv
  BY InitLinearInv, NextLinearInv, PTL DEF Spec
<1>2. LinearInv => AnchorOnMaster
  BY DEF LinearInv, AnchorOnMaster
<1> QED
  BY <1>1, <1>2, PTL

-----------------------------------------------------------------------------
(* Signatures.                                                             *)

(* Ranges that verify join into one: what a has beyond c it has beyond b,  *)
(* or shares with b and has beyond c there.                                *)
LEMMA RangesJoin ==
  ASSUME NEW S, NEW a \in Seq(S), NEW b \in Seq(S), NEW c \in Seq(S),
         RangeVerifies(a, b), RangeVerifies(b, c)
  PROVE  RangeVerifies(a, c)
<1> SUFFICES ASSUME NEW i \in 1..Len(a), i > Shared(a, c)
             PROVE  Verifies(a[i])
  BY RangeMeans
<1>1. CASE i > Shared(a, b)
  BY <1>1, RangeMeans
<1>2. CASE ~(i > Shared(a, b))
  <2>1. Shared(a, b) \in Nat /\ Shared(a, b) <= Len(b)
        /\ \A j \in 1..Shared(a, b) : a[j] = b[j]
    BY SharedMeans
  <2>2. i \in 1..Len(b) /\ \A j \in 1..i : a[j] = b[j]
    BY <1>2, <2>1
  <2>3. i > Shared(b, c)
    <3> SUFFICES ASSUME ~(i > Shared(b, c)) PROVE FALSE
      OBVIOUS
    <3>1. Shared(b, c) \in Nat /\ Shared(b, c) <= Len(c)
          /\ \A j \in 1..Shared(b, c) : b[j] = c[j]
      BY SharedMeans
    <3>2. i \in Nat /\ i <= Len(a) /\ i <= Len(c) /\ \A j \in 1..i : a[j] = c[j]
      BY <2>2, <3>1
    <3>3. i <= Shared(a, c) /\ Shared(a, c) \in Nat
      BY <3>2, SharedMeans
    <3> QED
      BY <3>3
  <2>4. Verifies(b[i])
    BY <2>2, <2>3, RangeMeans
  <2> QED
    BY <2>2, <2>4
<1> QED
  BY <1>1, <1>2

(* At the start nothing was pushed.                                        *)
LEMMA InitSignedInv == Init => SignedInv
<1> SUFFICES ASSUME Init PROVE SignedInv
  OBVIOUS
<1>1. bot.pc = "idle"
  BY EndedType DEF Init, Exit
<1> QED
  BY <1>1, InitTypeInv DEF SignedInv, Working, Landing

(* Whatever becomes of master, what the bot is about to push verifies.     *)
LEMMA NextSignedInv == SignedInv /\ [Next]_vars => SignedInv'
<1> SUFFICES ASSUME SignedInv, [Next]_vars PROVE SignedInv'
  OBVIOUS
<1>1. TypeInv /\ TypeInv'
  BY NextTypeInv DEF SignedInv
<1>2. /\ master \in Seq(Commit) /\ anchor \in Seq(Commit)
      /\ bot.head \in Seq(Commit) /\ bot.base \in Seq(Commit)
      /\ bot'.head \in Seq(Commit)
  BY <1>1, TypeFacts, BotFields DEF TypeInv, TypeOK
<1> SUFFICES /\ bot'.pc \in Working => RangeVerifies(bot.base, anchor)'
             /\ bot'.pc \in Landing => RangeVerifies(bot.head, anchor)'
  BY <1>1 DEF SignedInv
<1>3. /\ bot.pc \in Working => RangeVerifies(bot.base, anchor)
      /\ bot.pc \in Landing => RangeVerifies(bot.head, anchor)
  BY DEF SignedInv
<1>4. CASE Start
  BY <1>1, <1>4, StartMoves DEF Working, Landing
<1>5. CASE Update \/ Build \/ CommitGroup \/ Restore
  <2>1. anchor' = anchor
    BY <1>5 DEF Update, Build, CommitGroup, Restore, store
  <2> QED
    BY <1>1, <1>3, <1>5, <2>1, TransactionMoves DEF Working, Landing
<1>6. CASE WriteHeartbeat
  <2>1. /\ anchor' = anchor /\ bot.pc \in Working
        /\ bot'.pc \notin Working
        /\ bot'.pc \in Landing => RangeVerifies(bot'.head, bot.base)
    BY <1>1, <1>6, WriteHeartbeatMoves DEF Working, Landing
  <2> QED
    BY <1>2, <1>3, <2>1, RangesJoin
<1>7. CASE Push
  BY <1>1, <1>3, <1>7, PushMoves DEF Working, Landing
<1>8. CASE Race
  <2>1. /\ anchor' = anchor /\ bot.pc \in Landing /\ bot'.pc \notin Working
    BY <1>1, <1>8, RaceMoves DEF Working, Landing
  <2>2. CASE bot'.head = bot.head \/ bot'.pc = "idle"
    BY <1>3, <2>1, <2>2 DEF Landing
  <2>3. CASE RangeVerifies(master, bot.head) /\ RangeVerifies(bot'.head, master)
    <3>1. RangeVerifies(master, anchor)
      BY <1>2, <1>3, <2>1, <2>3, RangesJoin
    <3> QED
      BY <1>2, <2>1, <2>3, <3>1, RangesJoin
  <2> QED
    BY <1>1, <1>8, <2>2, <2>3, RaceMoves
<1>9. CASE VerifyPush \/ WriteAnchor \/ PushDeploy \/ Finish \/ Kill
  BY <1>1, <1>9, LastMoves DEF Working, Landing
<1>10. CASE OthersPush
  BY <1>1, <1>3, <1>10, OthersPushMoves
<1>11. CASE UpstreamMoves \/ Tick \/ UNCHANGED vars
  BY <1>3, <1>11 DEF UpstreamMoves, Tick, vars, store
<1> QED
  BY <1>4, <1>5, <1>6, <1>7, <1>8, <1>9, <1>10, <1>11 DEF Next, Step

(* Only Push moves master while the run stands before a push, and then to  *)
(* the run's own history.                                                  *)
LEMMA LandingIsAPush ==
  ASSUME TypeInv, [Next]_vars, Lands
  PROVE  Push /\ master' = bot.head /\ IsPrefix(master, bot.head)
<1>1. bot.pc = "push" /\ bot' # bot /\ master' # master
  BY DEF Lands
<1>2. CASE Push
  BY <1>1, <1>2, PushMoves
<1>3. CASE OthersPush \/ UpstreamMoves \/ Tick \/ UNCHANGED vars
  BY <1>1, <1>3 DEF OthersPush, UpstreamMoves, Tick, vars
<1>4. CASE Kill
  BY <1>1, <1>4 DEF Kill
<1>5. CASE Step /\ ~Push
  BY <1>1, <1>5
     DEF Step, Start, Update, Build, CommitGroup, Restore, WriteHeartbeat, Race,
         VerifyPush, WriteAnchor, PushDeploy, Finish
<1> QED
  BY <1>2, <1>3, <1>4, <1>5 DEF Next

(* Whatever the forge serves before and during the night, and whoever      *)
(* races the bot, a push leaves only commits on master that verify, as far *)
(* back as the base anchor.                                                *)
THEOREM OnlySignedIsPushed == Spec => PushesOnlySigned
<1>1. Spec => []SignedInv
  BY InitSignedInv, NextSignedInv, PTL DEF Spec
<1>2. SignedInv /\ [Next]_vars =>
        [Lands => \A c \in Beyond(master', anchor) : Verifies(c)]_vars
  <2> SUFFICES ASSUME SignedInv, [Next]_vars, Lands
               PROVE  \A c \in Beyond(master', anchor) : Verifies(c)
    OBVIOUS
  <2>1. master' = bot.head
    BY LandingIsAPush DEF SignedInv
  <2>2. RangeVerifies(bot.head, anchor)
    BY DEF SignedInv, Lands, Landing
  <2> QED
    BY <2>1, <2>2 DEF RangeVerifies
<1> QED
  BY <1>1, <1>2, PTL DEF Spec, PushesOnlySigned
-----------------------------------------------------------------------------
(* The night, on a forge that never rewrites master.                       *)

(* Indices and histories of a night, in one place.                         *)
LEMMA NightFacts ==
  ASSUME TypeInv, bot.pc # "idle",
         IsPrefix(bot.base, bot.head), IsPrefix(bot.base, master)
  PROVE  /\ Len(bot.base) \in Nat /\ Len(bot.head) \in Nat /\ Len(master) \in Nat
         /\ 1 <= Len(bot.base) /\ Len(bot.base) <= Len(bot.head)
         /\ Len(bot.base) <= Len(master)
         /\ Last(bot.base) = bot.head[Len(bot.base)]
         /\ Last(bot.head) = bot.head[Len(bot.head)]
         /\ Last(master) = master[Len(master)]
         /\ \A i \in 1..Len(bot.base) : bot.head[i] = master[i]
         /\ \A i \in 1..Len(bot.head) :
              bot.head[i] \in Commit /\ bot.head[i].tree \in Tree
<1>1. /\ bot.base \in Seq(Commit) /\ bot.head \in Seq(Commit)
      /\ master \in Seq(Commit)
      /\ Rooted(bot.base, master[1]) /\ Rooted(bot.head, master[1])
  BY TypeFacts, BotFields
<1>2. /\ Len(bot.base) <= Len(bot.head) /\ Len(bot.base) <= Len(master)
      /\ \A i \in 1..Len(bot.base) : bot.base[i] = bot.head[i]
      /\ \A i \in 1..Len(bot.base) : bot.base[i] = master[i]
  BY <1>1, PrefixMeans
<1>3. /\ Len(bot.base) \in Nat /\ Len(bot.head) \in Nat /\ Len(master) \in Nat
      /\ 1 <= Len(bot.base)
  BY <1>1 DEF Rooted
<1>4. /\ Last(bot.base) = bot.head[Len(bot.base)]
      /\ Last(bot.head) = bot.head[Len(bot.head)]
      /\ Last(master) = master[Len(master)]
  BY <1>2, <1>3 DEF Last
<1>5. \A i \in 1..Len(bot.head) :
        bot.head[i] \in Commit /\ bot.head[i].tree \in Tree
  BY <1>1, ElementOfSeq, CommitType
<1> QED
  BY <1>2, <1>3, <1>4, <1>5

(* Which groups were tried before a transaction, and with it.              *)
LEMMA TriedFacts ==
  ASSUME NEW i \in 0..Len(Groups)
  PROVE  /\ Tried(i) \subseteq Tried(i + 1)
         /\ i = 0 => Tried(i) = {}
         /\ i # 0 => /\ Members(i) = {Groups[i]} /\ Groups[i] \in Group
                     /\ Tried(i + 1) = Tried(i) \cup Members(i)
                     /\ Groups[i] \notin Tried(i)
<1>1. Len(Groups) \in Nat
  BY GroupFacts
<1>2. Tried(i) \subseteq Tried(i + 1)
  <2>1. 1..(i - 1) \subseteq 1..(i + 1 - 1)
    OBVIOUS
  <2> QED
    BY <2>1 DEF Tried
<1>3. i = 0 => Tried(i) = {}
  BY DEF Tried
<1>4. ASSUME i # 0
      PROVE  /\ Members(i) = {Groups[i]} /\ Groups[i] \in Group
             /\ Tried(i + 1) = Tried(i) \cup Members(i)
             /\ Groups[i] \notin Tried(i)
  <2>1. i \in 1..Len(Groups)
    BY <1>1, <1>4
  <2>2. Members(i) = {Groups[i]} /\ Groups[i] \in Group
    BY <2>1, GroupFacts
  <2>3. 1..(i + 1 - 1) = 1..(i - 1) \cup {i}
    BY <2>1
  <2>4. Tried(i + 1) = Tried(i) \cup {Groups[i]}
    BY <2>3 DEF Tried
  <2>5. \A l \in 1..(i - 1) : l \in 1..Len(Groups) /\ l # i
    BY <1>1, <2>1
  <2>6. Groups[i] \notin Tried(i)
    BY <2>1, <2>5, GroupFacts DEF Tried
  <2> QED
    BY <2>2, <2>4, <2>6
<1> QED
  BY <1>2, <1>3, <1>4

(* Going on to the next transaction changes nothing of the night.          *)
LEMMA ProceedFields ==
  ASSUME NEW b \in BotState, NEW landed \in BOOLEAN
  PROVE  /\ Proceed(b, landed).base = b.base
         /\ Proceed(b, landed).head = b.head
         /\ Proceed(b, landed).work = b.work
         /\ Proceed(b, landed).red = b.red
         /\ Proceed(b, landed).fail = b.fail
         /\ Proceed(b, landed).raced = b.raced
         /\ \/ Proceed(b, landed).pc = "beat"
            \/ /\ Proceed(b, landed).pc = "update"
               /\ Proceed(b, landed).next = b.next + 1
<1>1. CASE Proceed(b, landed) = [b EXCEPT !.pc = "beat"]
  BY <1>1 DEF BotState
<1>2. CASE Proceed(b, landed) = [b EXCEPT !.pc = "update", !.next = b.next + 1]
  BY <1>2 DEF BotState
<1> QED
  BY <1>1, <1>2, ProceedMeans

(* A transaction that fails on its own marks its group red.                *)
LEMMA FailsFields ==
  ASSUME bot \in BotState, TransactionFails
  PROVE  /\ bot'.pc = "restore" /\ bot'.base = bot.base /\ bot'.head = bot.head
         /\ bot'.raced = bot.raced /\ bot'.next = bot.next
         /\ bot'.fail = (bot.fail \/ bot.next # 0)
         /\ bot'.red = IF bot.next = 0 THEN bot.red
                                       ELSE bot.red \cup Members(bot.next)
BY DEF TransactionFails, BotState

(* A step within the transactions that adds no commit.                     *)
LEMMA NightKept ==
  ASSUME Night, bot.pc \in Working, bot'.pc \in Working,
         bot'.base = bot.base, bot'.head = bot.head, bot'.raced = bot.raced,
         master' = master, built \subseteq built',
         bot'.red \subseteq Group, bot'.red # {} => bot'.fail,
         bot'.red \cap Last(bot.head).tree \subseteq Last(bot.base).tree
  PROVE  Night'
<1>1. Careful'
  BY DEF Night, Careful, Own
<1>2. Beats'
  BY DEF Night, Beats, Own, Working, Landing
<1> QED
  BY <1>1, <1>2 DEF Night

(* A commit of the run.                                                    *)
LEMMA NightGrows ==
  ASSUME TypeInv, Night, bot.pc \in Working, NEW c \in Commit,
         bot'.pc \in Working \cup Landing,
         bot'.base = bot.base, bot'.head = Append(bot.head, c),
         bot'.raced = bot.raced, bot'.red = bot.red, bot'.fail = bot.fail,
         master' = master, built' = built,
         Last(bot.head).tree \cap Group \subseteq c.tree,
         c.tree \in built \cup {Last(bot.head).tree},
         bot.red \cap c.tree \subseteq Last(bot.base).tree,
         bot'.pc \in Working => c.beat = Last(bot.head).beat,
         bot'.pc \in Landing =>
           /\ c.beat.epoch > Last(bot.head).beat.epoch
           /\ c.beat.green => bot.red = {}
  PROVE  Night'
<1> DEFINE n == Len(bot.head)
           s == Len(bot.base)
<1>1. /\ s \in Nat /\ n \in Nat /\ 1 <= s /\ s <= n
      /\ Last(bot.head) = bot.head[n]
      /\ Last(bot.base) = bot.head[s]
      /\ bot.head \in Seq(Commit) /\ bot.base \in Seq(Commit)
  BY NightFacts, TypeFacts, BotFields DEF Night, Working
<1>2. /\ Len(bot'.head) = n + 1 /\ Last(bot'.head) = c
      /\ bot'.head[n + 1] = c /\ \A i \in 1..n : bot'.head[i] = bot.head[i]
      /\ IsPrefix(bot.head, bot'.head) /\ bot'.head \in Seq(Commit)
  BY <1>1, AppendLast
<1>3. IsPrefix(bot'.base, bot'.head)
  BY <1>1, <1>2, PrefixTransitive DEF Night
<1>4. \A i : i \in Own' <=> i \in Own \/ i = n + 1
  BY <1>1, <1>2 DEF Own
<1>5. \A i \in Own : i \in 1..n /\ i <= n /\ i \in Nat /\ bot'.head[i] = bot.head[i]
  BY <1>1, <1>2 DEF Own
<1>6. n \in Own /\ s \in Own
  BY <1>1 DEF Own
<1>7. \A i \in Own : /\ bot.head[i].tree \cap Group \subseteq bot.head[n].tree
                     /\ ~bot.raced => bot.head[n].tree \in built \cup {bot.head[i].tree}
  BY <1>5, <1>6 DEF Night, Careful
<1>8. ASSUME NEW i \in Own', NEW j \in Own', i <= j
      PROVE  /\ bot'.head[i].tree \cap Group \subseteq bot'.head[j].tree
             /\ ~bot'.raced => bot'.head[j].tree \in built' \cup {bot'.head[i].tree}
  <2>1. CASE j \in Own
    <3>1. i \in Own
      BY <1>1, <1>4, <1>5, <1>8, <2>1
    <3> QED
      BY <1>5, <1>8, <2>1, <3>1 DEF Night, Careful
  <2>2. CASE i = n + 1 /\ j = n + 1
    BY <2>2
  <2>3. CASE i \in Own /\ j = n + 1
    BY <1>1, <1>2, <1>5, <1>7, <2>3
  <2> QED
    BY <1>4, <1>5, <2>1, <2>2, <2>3
<1>9. Careful'
  BY <1>2, <1>8 DEF Night, Careful
<1>10. Last(bot.base).beat = bot.head[n].beat
  BY <1>6 DEF Night, Beats
<1>11. \A i \in Own : bot'.head[i].beat = Last(bot.base).beat
  BY <1>5 DEF Night, Beats
<1>12. \A i \in Own' : i < n + 1 \/ bot'.pc \in Working =>
          bot'.head[i].beat = Last(bot.base).beat
  <2> SUFFICES ASSUME NEW i \in Own', i < n + 1 \/ bot'.pc \in Working
               PROVE  bot'.head[i].beat = Last(bot.base).beat
    OBVIOUS
  <2>1. CASE i \in Own
    BY <1>11, <2>1
  <2>2. CASE i = n + 1
    <3>1. bot'.pc \in Working
      BY <1>1, <2>2
    <3>2. c.beat = bot.head[n].beat
      BY <1>1, <3>1
    <3> QED
      BY <1>2, <1>10, <2>2, <3>2
  <2> QED
    BY <1>4, <2>1, <2>2
<1>13. Last(master).beat = Last(bot.base).beat
  BY DEF Night, Beats, Working, Landing
<1>14. Beats'
  BY <1>1, <1>2, <1>10, <1>12, <1>13 DEF Beats
<1> QED
  BY <1>3, <1>9, <1>14 DEF Night
(* What the transactions leave alone.                                      *)
LEMMA TransactionKeeps ==
  ASSUME TypeInv, NightInv, Update \/ Build \/ CommitGroup \/ Restore
  PROVE  /\ master' = master /\ bot.pc \in Working /\ bot.pc # "idle"
         /\ Night /\ Tidy
         /\ Len(Groups) \in Nat /\ bot.next \in 0..Len(Groups)
         /\ bot.red \subseteq Group
         /\ bot.red # {} => bot.fail
         /\ bot.red \cap Last(bot.head).tree \subseteq Last(bot.base).tree
<1>1. master' = master
  BY DEF Update, Build, CommitGroup, Restore
<1>2. bot.pc \in Working /\ bot.pc # "idle"
  BY TransactionMoves DEF Working
<1>3. Night /\ Tidy
  BY <1>2 DEF NightInv
<1>4. Len(Groups) \in Nat /\ bot.next \in 0..Len(Groups)
  BY GroupFacts, TypeFacts, BotFields
<1>5. /\ bot.red \subseteq Group
      /\ bot.red # {} => bot.fail
      /\ bot.red \cap Last(bot.head).tree \subseteq Last(bot.base).tree
  BY <1>3 DEF Night, Careful
<1> QED
  BY <1>1, <1>2, <1>3, <1>4, <1>5

(* A failed transaction: the group that failed alone was never tried       *)
(* before, so no commit of the night can have brought it in.               *)
LEMMA FailsNight ==
  ASSUME TypeInv, NightInv, Update \/ Build \/ CommitGroup,
         TransactionFails, built \subseteq built'
  PROVE  Night' /\ Tidy'
<1> DEFINE tree == Last(bot.head).tree
           old == Last(bot.base).tree
<1>1. /\ master' = master /\ bot.pc \in Working /\ Night /\ Tidy
      /\ bot.next \in 0..Len(Groups)
      /\ bot.red \subseteq Group
      /\ bot.red # {} => bot.fail
      /\ bot.red \cap tree \subseteq old
  BY TransactionKeeps
<1>2. /\ bot'.pc = "restore" /\ bot'.base = bot.base /\ bot'.head = bot.head
      /\ bot'.raced = bot.raced /\ bot'.next = bot.next
      /\ bot'.fail = (bot.fail \/ bot.next # 0)
      /\ bot'.red = IF bot.next = 0 THEN bot.red
                                    ELSE bot.red \cup Members(bot.next)
  BY FailsFields, TypeFacts
<1>3. bot.pc \in {"update", "build", "commit"}
  BY DEF Update, Build, CommitGroup
<1>4. /\ ~bot.raced /\ (tree \ old) \cap Group \subseteq Tried(bot.next)
      /\ bot.red \subseteq Tried(bot.next)
  BY <1>1, <1>3 DEF Tidy
<1>5. bot'.red \subseteq Group /\ bot'.red \subseteq Tried(bot.next + 1)
      /\ bot'.red \cap tree \subseteq old
  <2>1. CASE bot.next = 0
    BY <1>1, <1>2, <1>4, <2>1, TriedFacts
  <2>2. CASE bot.next # 0
    <3>1. /\ Members(bot.next) = {Groups[bot.next]} /\ Groups[bot.next] \in Group
          /\ Tried(bot.next + 1) = Tried(bot.next) \cup Members(bot.next)
          /\ Groups[bot.next] \notin Tried(bot.next)
      BY <1>1, <2>2, TriedFacts
    <3>2. Groups[bot.next] \in tree => Groups[bot.next] \in old
      BY <1>4, <3>1
    <3>3. bot'.red = bot.red \cup {Groups[bot.next]}
      BY <1>2, <2>2, <3>1
    <3> QED
      BY <1>1, <1>4, <3>1, <3>2, <3>3
  <2> QED
    BY <2>1, <2>2
<1>6. bot'.red # {} => bot'.fail
  BY <1>1, <1>2
<1>7. Night'
  BY <1>1, <1>2, <1>5, <1>6, NightKept DEF Working
<1>8. Tidy'
  BY <1>2, <1>4, <1>5 DEF Tidy
<1> QED
  BY <1>7, <1>8

(* Whatever comes after a transaction that left a clean work tree.         *)
LEMMA ProceedTidy ==
  ASSUME NEW b \in BotState, NEW landed \in BOOLEAN, bot' = Proceed(b, landed),
         ~b.raced, b.work = Last(b.head).tree,
         (Last(b.head).tree \ Last(b.base).tree) \cap Group \subseteq Tried(b.next + 1),
         b.red \subseteq Tried(b.next + 1)
  PROVE  Tidy' /\ bot'.pc \in {"update", "beat"}
<1>1. /\ bot'.base = b.base /\ bot'.head = b.head /\ bot'.work = b.work
      /\ bot'.red = b.red /\ bot'.raced = b.raced
      /\ bot'.pc = "beat" \/ (bot'.pc = "update" /\ bot'.next = b.next + 1)
  BY ProceedFields
<1> QED
  BY <1>1 DEF Tidy

(* The inputs of a group, or of all, are updated.                          *)
LEMMA UpdateNight ==
  ASSUME TypeInv, NightInv, Update
  PROVE  (bot'.pc \in Working => Night' /\ Tidy') /\ bot'.pc \in Working
<1> DEFINE tree == Last(bot.head).tree
           old == Last(bot.base).tree
           new == (Members(bot.next) \cap upstream) \ bot.work
           updated == bot.work \cup new
<1>1. /\ master' = master /\ bot.pc \in Working /\ Night /\ Tidy
      /\ bot.next \in 0..Len(Groups)
      /\ bot.red \subseteq Group
      /\ bot.red # {} => bot.fail
      /\ bot.red \cap tree \subseteq old
  BY TransactionKeeps
<1>2. bot \in BotState /\ bot.pc = "update" /\ built' = built
  BY TypeFacts DEF Update
<1>3. /\ ~bot.raced /\ bot.work = tree
      /\ (tree \ old) \cap Group \subseteq Tried(bot.next)
      /\ bot.red \subseteq Tried(bot.next)
  BY <1>1, <1>2 DEF Tidy
<1>4. Tried(bot.next) \subseteq Tried(bot.next + 1)
  BY <1>1, TriedFacts
<1>5. CASE bot' = Proceed(bot, TRUE)
  <2>1. Tidy' /\ bot'.pc \in {"update", "beat"}
    BY <1>2, <1>3, <1>4, <1>5, ProceedTidy
  <2>2. /\ bot'.base = bot.base /\ bot'.head = bot.head /\ bot'.red = bot.red
        /\ bot'.fail = bot.fail /\ bot'.raced = bot.raced
    BY <1>2, <1>5, ProceedFields
  <2>3. Night'
    BY <1>1, <1>2, <2>1, <2>2, NightKept DEF Working
  <2> QED
    BY <2>1, <2>3 DEF Working
<1>6. CASE TransactionFails
  BY <1>2, <1>6, FailsNight, FailsFields DEF Working
<1>7. CASE \E t \in {updated, updated \ {Held}} :
             bot' = [bot EXCEPT !.pc = "build", !.work = t, !.heldBack = FALSE]
  <2>1. PICK t \in {updated, updated \ {Held}} :
             bot' = [bot EXCEPT !.pc = "build", !.work = t, !.heldBack = FALSE]
    BY <1>7
  <2>2. /\ bot'.pc = "build" /\ bot'.base = bot.base /\ bot'.head = bot.head
        /\ bot'.raced = bot.raced /\ bot'.red = bot.red /\ bot'.work = t
        /\ bot'.fail = bot.fail /\ bot'.next = bot.next
    BY <1>2, <2>1 DEF BotState
  <2>3. Held \notin Group
    BY GroupFacts
  <2>4. /\ tree \cap Group \subseteq t
        /\ (t \ tree) \cap Group \subseteq Members(bot.next)
    BY <1>3, <2>1, <2>3
  <2>5. Tidy'
    BY <1>3, <2>2, <2>4 DEF Tidy
  <2>6. Night'
    BY <1>1, <1>2, <2>2, NightKept DEF Working
  <2> QED
    BY <2>2, <2>5, <2>6 DEF Working
<1> QED
  BY <1>5, <1>6, <1>7 DEF Update, AfterRelease

(* A build shows that the tree in hand is a built one, or that a group is  *)
(* red.                                                                    *)
LEMMA BuildNight ==
  ASSUME TypeInv, NightInv, Build
  PROVE  Night' /\ Tidy'
<1> DEFINE tree == Last(bot.head).tree
           old == Last(bot.base).tree
<1>1. /\ master' = master /\ bot.pc \in Working /\ Night /\ Tidy
      /\ bot.red \subseteq Group
      /\ bot.red # {} => bot.fail
      /\ bot.red \cap tree \subseteq old
  BY TransactionKeeps
<1>2. bot \in BotState /\ bot.pc = "build" /\ built \subseteq built'
  BY TypeFacts DEF Build, RefreshRoots
<1>3. /\ ~bot.raced /\ tree \cap Group \subseteq bot.work
      /\ (bot.work \ tree) \cap Group \subseteq Members(bot.next)
      /\ (tree \ old) \cap Group \subseteq Tried(bot.next)
      /\ bot.red \subseteq Tried(bot.next)
  BY <1>1, <1>2 DEF Tidy
<1>4. CASE RefreshRoots /\ Goto("commit")
  <2>1. /\ bot'.pc = "commit" /\ bot'.base = bot.base /\ bot'.head = bot.head
        /\ bot'.raced = bot.raced /\ bot'.red = bot.red /\ bot'.work = bot.work
        /\ bot'.fail = bot.fail /\ bot'.next = bot.next
    BY <1>2, <1>4 DEF Goto, BotState
  <2>2. bot.work \in built'
    BY <1>4 DEF RefreshRoots
  <2>3. Tidy'
    BY <1>3, <2>1, <2>2 DEF Tidy
  <2> QED
    BY <1>1, <1>2, <2>1, <2>3, NightKept DEF Working
<1>5. CASE TransactionFails
  BY <1>2, <1>5, FailsNight
<1>6. CASE AutoHold
  <2>1. /\ bot'.pc = "build" /\ bot'.base = bot.base /\ bot'.head = bot.head
        /\ bot'.raced = bot.raced /\ bot'.red = bot.red
        /\ bot'.work = bot.work \cup {Held}
        /\ bot'.fail = bot.fail /\ bot'.next = bot.next
    BY <1>2, <1>6 DEF AutoHold, BotState
  <2>2. Held \notin Group
    BY GroupFacts
  <2>3. /\ tree \cap Group \subseteq bot'.work
        /\ (bot'.work \ tree) \cap Group \subseteq Members(bot.next)
    BY <1>3, <2>1, <2>2
  <2>4. Tidy'
    BY <1>3, <2>1, <2>3 DEF Tidy
  <2> QED
    BY <1>1, <1>2, <2>1, <2>4, NightKept DEF Working
<1> QED
  BY <1>4, <1>5, <1>6 DEF Build

(* A green transaction is committed: its changes are of no red group.      *)
LEMMA CommitGroupNight ==
  ASSUME TypeInv, NightInv, CommitGroup
  PROVE  Night' /\ Tidy'
<1> DEFINE tree == Last(bot.head).tree
           old == Last(bot.base).tree
           c == ByBot(bot.work, Last(bot.head).beat)
           b == [bot EXCEPT !.head = Append(bot.head, c)]
<1>1. /\ master' = master /\ bot.pc \in Working /\ Night /\ Tidy
      /\ bot.next \in 0..Len(Groups)
      /\ bot.red \subseteq Group
      /\ bot.red # {} => bot.fail
      /\ bot.red \cap tree \subseteq old
  BY TransactionKeeps
<1>2. bot \in BotState /\ bot.pc = "commit" /\ built' = built /\ bot.head \in Seq(Commit)
  BY TypeFacts, BotFields DEF CommitGroup
<1>3. /\ ~bot.raced /\ tree \cap Group \subseteq bot.work
      /\ (bot.work \ tree) \cap Group \subseteq Members(bot.next)
      /\ bot.work \in built
      /\ (tree \ old) \cap Group \subseteq Tried(bot.next)
      /\ bot.red \subseteq Tried(bot.next)
  BY <1>1, <1>2 DEF Tidy
<1>4. CASE TransactionFails
  BY <1>2, <1>4, FailsNight
<1>5. CASE bot' = Proceed(b, TRUE)
  <2>1. c \in Commit /\ c.tree = bot.work /\ c.beat = Last(bot.head).beat
    BY <1>2, TypeFacts, BotFields, ByBotType
  <2> HIDE DEF c
  <2>2. /\ Append(bot.head, c) \in Seq(Commit) /\ Last(Append(bot.head, c)) = c
    BY <1>2, <2>1, AppendLast
  <2>3. /\ b \in BotState /\ b.base = bot.base /\ b.head = Append(bot.head, c)
        /\ b.work = bot.work /\ b.red = bot.red /\ b.fail = bot.fail
        /\ b.raced = bot.raced /\ b.next = bot.next
    BY <1>2, <2>2 DEF BotState
  <2> HIDE DEF b
  <2>4. /\ bot'.base = bot.base /\ bot'.head = Append(bot.head, c)
        /\ bot'.red = bot.red /\ bot'.fail = bot.fail /\ bot'.raced = bot.raced
    BY <1>5, <2>3, ProceedFields
  <2>5. /\ bot.red \cap bot.work \subseteq old
        /\ (bot.work \ old) \cap Group \subseteq Tried(bot.next + 1)
           \/ bot.next = 0
    <3>1. CASE bot.next = 0
      BY <1>1, <1>3, <3>1, TriedFacts
    <3>2. CASE bot.next # 0
      <4>1. /\ Members(bot.next) = {Groups[bot.next]}
            /\ Tried(bot.next + 1) = Tried(bot.next) \cup Members(bot.next)
            /\ Groups[bot.next] \notin Tried(bot.next)
        BY <1>1, <3>2, TriedFacts
      <4>2. bot.red \cap (bot.work \ tree) = {}
        BY <1>1, <1>3, <4>1
      <4>3. bot.red \cap bot.work \subseteq old
        BY <1>1, <4>2
      <4>4. (bot.work \ old) \cap Group \subseteq Tried(bot.next + 1)
        BY <1>3, <4>1
      <4> QED
        BY <4>3, <4>4
    <3> QED
      BY <3>1, <3>2
  <2>6. Tidy' /\ bot'.pc \in {"update", "beat"}
    <3>1. CASE bot.next = 0
      <4>1. bot' = [b EXCEPT !.pc = "beat"]
        BY <1>5, <2>3, <3>1 DEF Proceed
      <4>2. bot'.pc = "beat" /\ ~bot'.raced
        BY <1>3, <2>3, <2>4, <4>1 DEF BotState
      <4> QED
        BY <4>2 DEF Tidy
    <3>2. CASE bot.next # 0
      <4>1. Tried(bot.next) \subseteq Tried(bot.next + 1)
        BY <1>1, TriedFacts
      <4>2. bot.red \subseteq Tried(bot.next + 1)
        BY <1>3, <4>1
      <4> QED
        BY <1>3, <1>5, <2>1, <2>2, <2>3, <2>5, <3>2, <4>2, ProceedTidy
    <3> QED
      BY <3>1, <3>2
  <2>7. Night'
    <3>1. c.tree \in built \cup {tree} /\ tree \cap Group \subseteq c.tree
          /\ bot.red \cap c.tree \subseteq old
      BY <1>3, <2>1, <2>5
    <3>2. bot'.pc \in Working /\ bot'.pc \notin Landing
      BY <2>6 DEF Working, Landing
    <3> QED
      BY <1>1, <1>2, <2>1, <2>4, <3>1, <3>2, NightGrows
  <2> QED
    BY <2>6, <2>7
<1> QED
  BY <1>4, <1>5 DEF CommitGroup

(* A red one is rolled back, or the night ends.                            *)
LEMMA RestoreNight ==
  ASSUME TypeInv, NightInv, Restore
  PROVE  bot'.pc \in Working => Night' /\ Tidy'
<1> DEFINE tree == Last(bot.head).tree
           old == Last(bot.base).tree
<1>1. /\ master' = master /\ bot.pc \in Working /\ Night /\ Tidy
      /\ bot.next \in 0..Len(Groups)
      /\ bot.red \subseteq Group
      /\ bot.red # {} => bot.fail
      /\ bot.red \cap tree \subseteq old
  BY TransactionKeeps
<1>2. bot \in BotState /\ bot.pc = "restore" /\ built' = built
  BY TypeFacts DEF Restore
<1>3. /\ ~bot.raced /\ (tree \ old) \cap Group \subseteq Tried(bot.next)
      /\ bot.red \subseteq Tried(bot.next + 1)
      /\ Tried(bot.next) \subseteq Tried(bot.next + 1)
  BY <1>1, <1>2, TriedFacts DEF Tidy
<1>4. CASE End("aborted")
  BY <1>4, EndMoves DEF Exit, Working
<1>5. CASE bot' = Proceed(Restored(bot), FALSE)
  <2>1. /\ Restored(bot) \in BotState /\ Restored(bot).base = bot.base
        /\ Restored(bot).head = bot.head /\ Restored(bot).work = tree
        /\ Restored(bot).red = bot.red /\ Restored(bot).fail = bot.fail
        /\ Restored(bot).raced = bot.raced /\ Restored(bot).next = bot.next
    BY <1>2, TypeFacts DEF Restored, BotState
  <2>2. Tidy' /\ bot'.pc \in {"update", "beat"}
    BY <1>3, <1>5, <2>1, ProceedTidy
  <2>3. /\ bot'.base = bot.base /\ bot'.head = bot.head /\ bot'.red = bot.red
        /\ bot'.fail = bot.fail /\ bot'.raced = bot.raced
    BY <1>5, <2>1, ProceedFields
  <2>4. Night'
    BY <1>1, <1>2, <2>2, <2>3, NightKept DEF Working
  <2> QED
    BY <2>2, <2>4
<1> QED
  BY <1>4, <1>5 DEF Restore

(* A night starts with master's tree and no red group.                     *)
LEMMA StartNight ==
  ASSUME TypeInv, Start, bot'.pc = "update"
  PROVE  Night' /\ Tidy'
<1>1. /\ master' = master /\ built' = built
      /\ bot'.base = master /\ bot'.head = master
      /\ bot'.work = Last(master).tree
      /\ bot'.red = {} /\ ~bot'.raced /\ ~bot'.fail /\ bot'.next = 0
  BY StartMoves
<1>2. master \in Seq(Commit) /\ Len(master) \in Nat /\ Last(master) = master[Len(master)]
  BY TypeFacts DEF Last
<1>3. IsPrefix(master, master)
  BY <1>2, PrefixReflexive
<1>4. \A i \in Own' : i = Len(master)
  BY <1>1, <1>2 DEF Own
<1>5. Careful'
  BY <1>1, <1>4 DEF Careful
<1>6. Beats'
  BY <1>1, <1>2, <1>4 DEF Beats, Landing
<1>7. Tidy'
  BY <1>1 DEF Tidy
<1> QED
  BY <1>1, <1>3, <1>5, <1>6, <1>7 DEF Night

(* The heartbeat is green only if no group failed.                         *)
LEMMA WriteHeartbeatNight ==
  ASSUME TypeInv, NightInv, WriteHeartbeat, bot'.pc # "idle"
  PROVE  Night' /\ bot'.pc = "push"
<1> DEFINE last == Last(bot.head)
           beat == [epoch |-> NextEpoch(last.beat.epoch), green |-> ~bot.fail]
           c == ByBot(last.tree, beat)
<1>1. /\ bot.pc = "beat" /\ bot \in BotState
      /\ master' = master /\ built' = built /\ bot'.pc = "push"
  BY TypeFacts, WriteHeartbeatMoves
<1>2. bot.pc \in Working /\ Night
  BY <1>1 DEF NightInv, Working
<1>3. bot' = [bot EXCEPT !.pc = "push", !.head = Append(bot.head, c), !.attempt = 1]
  <2>1. CASE Fatal
    BY <1>1, <2>1, EndMoves DEF Fatal, Exit
  <2> QED
    BY <2>1 DEF WriteHeartbeat
<1>4. last \in Commit /\ last.beat.epoch \in Nat /\ last.tree \in Tree
  BY <1>1, TypeFacts, CommitType
<1>5. beat \in Heartbeat /\ beat.epoch > last.beat.epoch /\ beat.green = ~bot.fail
  BY <1>1, <1>4, EpochType, BotFields DEF Heartbeat
<1> HIDE DEF beat
<1>6. c \in Commit /\ c.tree = last.tree /\ c.beat = beat
  BY <1>4, <1>5, ByBotType
<1> HIDE DEF c
<1>7. /\ bot'.base = bot.base /\ bot'.head = Append(bot.head, c)
      /\ bot'.red = bot.red /\ bot'.fail = bot.fail /\ bot'.raced = bot.raced
  BY <1>1, <1>3 DEF BotState
<1>8. /\ c.tree \in built \cup {last.tree}
      /\ last.tree \cap Group \subseteq c.tree
      /\ bot.red \cap c.tree \subseteq Last(bot.base).tree
  BY <1>2, <1>6 DEF Night, Careful
<1>9. /\ c.beat.epoch > last.beat.epoch
      /\ c.beat.green => bot.red = {}
  BY <1>2, <1>5, <1>6 DEF Night, Careful
<1>10. bot'.pc \in Landing /\ bot'.pc \notin Working
  BY <1>1 DEF Landing, Working
<1> QED
  BY <1>1, <1>2, <1>6, <1>7, <1>8, <1>9, <1>10, NightGrows

(* A push does not change what the night has.                              *)
LEMMA PushNight ==
  ASSUME TypeInv, NightInv, Push, bot'.pc \in Landing
  PROVE  Night'
<1>1. /\ bot.pc = "push" /\ built' = built /\ bot'.pc = "race"
      /\ bot'.base = bot.base /\ bot'.head = bot.head
      /\ bot'.raced = bot.raced /\ bot'.red = bot.red /\ bot'.fail = bot.fail
      /\ master' = master \/ (master' = bot.head /\ IsPrefix(master, bot.head))
  BY PushMoves DEF Landing
<1>2. Night
  BY <1>1 DEF NightInv, Landing
<1>3. Careful'
  BY <1>1, <1>2 DEF Night, Careful, Own
<1>4. CASE master' = master
  <2>1. Beats'
    BY <1>1, <1>2, <1>4 DEF Night, Beats, Own, Working, Landing
  <2> QED
    BY <1>1, <1>2, <1>3, <1>4, <2>1 DEF Night
<1>5. CASE master' = bot.head
  <2>1. IsPrefix(bot.head, bot.head)
    BY TypeFacts, BotFields, PrefixReflexive
  <2>2. Beats'
    BY <1>1, <1>2, <1>5, <2>1 DEF Night, Beats, Own, Working, Landing
  <2> QED
    BY <1>1, <1>2, <1>3, <1>5, <2>2 DEF Night
<1> QED
  BY <1>1, <1>4, <1>5

(* The fetch found nothing new, or what it found is in the clone already.  *)
LEMMA FetchedNight ==
  ASSUME TypeInv, Night, bot.pc \in Landing, bot'.pc \in Landing,
         IsPrefix(master, bot.head), bot'.base = master, bot'.head = bot.head,
         bot'.raced = bot.raced, bot'.red = bot.red, bot'.fail = bot.fail,
         master' = master, built' = built
  PROVE  Night'
<1> DEFINE n == Len(bot.head)
           s == Len(bot.base)
           m == Len(master)
<1>1. /\ s \in Nat /\ n \in Nat /\ m \in Nat /\ 1 <= s /\ s <= n /\ s <= m
      /\ Last(bot.base) = bot.head[s] /\ Last(bot.head) = bot.head[n]
      /\ Last(master) = master[m]
      /\ bot.head \in Seq(Commit) /\ master \in Seq(Commit)
  BY NightFacts, TypeFacts, BotFields DEF Night, Landing
<1>2. m <= n /\ \A i \in 1..m : master[i] = bot.head[i]
  BY <1>1, PrefixMeans
<1>3. Last(master) = bot.head[m] /\ m \in Own /\ n \in Own /\ m \in 1..m
  BY <1>1, <1>2 DEF Own
<1>4. \A i : i \in Own' <=> i \in m..n
  BY DEF Own
<1>5. \A i \in Own' : i \in Own /\ i >= m /\ i <= n /\ i \in Nat
  BY <1>1, <1>2, <1>4 DEF Own
<1>6. Careful'
  <2>1. bot.red \subseteq Group /\ bot.red \cap Last(bot.head).tree \subseteq Last(bot.base).tree
    BY DEF Night, Careful
  <2>2. Last(bot.base).tree \cap Group \subseteq Last(master).tree
    <3>1. s \in Own /\ s <= m
      BY <1>1 DEF Own
    <3>2. bot.head[s].tree \cap Group \subseteq bot.head[m].tree
      BY <1>3, <3>1 DEF Night, Careful
    <3> QED
      BY <1>1, <1>3, <3>2
  <2>3. bot.red \cap Last(bot.head).tree \subseteq Last(master).tree
    BY <2>1, <2>2
  <2> QED
    BY <1>5, <2>3 DEF Night, Careful
<1>7. Beats'
  <2> DEFINE old == Last(bot.base).beat
  <2>1. \A i \in Own : i < n => bot.head[i].beat = old
    BY DEF Night, Beats
  <2>2. m < n => Last(master).beat = old
    BY <1>3, <2>1
  <2>3. \A i \in Own' : i < n => bot.head[i].beat = Last(master).beat
    BY <1>1, <1>2, <1>5, <2>1, <2>2
  <2>4. m < n => /\ bot.head[n].beat.epoch > Last(master).beat.epoch
                 /\ bot.head[n].beat.green => bot.red = {}
    BY <1>1, <2>2 DEF Night, Beats
  <2>5. bot'.pc \notin Working
    BY DEF Landing, Working
  <2> QED
    BY <1>1, <2>3, <2>4, <2>5 DEF Beats
<1>8. IsPrefix(master, master)
  BY <1>1, PrefixReflexive
<1> QED
  BY <1>6, <1>7, <1>8 DEF Night

(* A history that has nothing beyond the merge base is a prefix of the     *)
(* other.                                                                  *)
LEMMA HeadIsOld ==
  ASSUME NEW S, NEW h \in Seq(S), NEW g \in Seq(S), Shared(h, g) = Len(h)
  PROVE  IsPrefix(h, g)
BY SharedMeans, PrefixMeans

(* What the rebase makes of the commits of the night: the trees still grow *)
(* group by group, and the heartbeat is still the last word.               *)
LEMMA RebasedNight ==
  ASSUME TypeInv, Night, bot.pc \in Landing, bot'.pc \in Landing,
         bot'.base = master, bot'.head = Rebased(bot.head, master),
         bot'.raced, bot'.red = bot.red, bot'.fail = bot.fail,
         master' = master, built' = built
  PROVE  Night'
<1> DEFINE n == Len(bot.head)
           s == Len(bot.base)
           m == Len(master)
           k == Shared(bot.head, master)
           d == n - k
           r == Rebased(bot.head, master)
           old == Last(bot.base).beat
           ReplayedTree(i) ==
             (Last(master).tree \cup (bot.head[k + i].tree \ bot.head[k].tree))
               \ (bot.head[k].tree \ bot.head[k + i].tree)
           ReplayedBeat(i) ==
             IF bot.head[k + i].beat # bot.head[k].beat THEN bot.head[k + i].beat
                                                        ELSE Last(master).beat
<1>1. /\ s \in Nat /\ n \in Nat /\ m \in Nat /\ 1 <= s /\ s <= n /\ s <= m
      /\ Last(bot.base) = bot.head[s] /\ Last(bot.head) = bot.head[n]
      /\ Last(master) = master[m]
      /\ bot.head \in Seq(Commit) /\ master \in Seq(Commit)
      /\ \A i \in 1..s : bot.head[i] = master[i]
  BY NightFacts, TypeFacts, BotFields DEF Night, Landing
<1>2. /\ k \in 1..n /\ d \in Nat
      /\ r \in Seq(Commit) /\ Len(r) = m + d /\ IsPrefix(master, r)
      /\ \A i \in 1..m : r[i] = master[i]
      /\ \A i \in 1..d : r[m + i] = Replayed(bot.head[k + i], bot.head[k], Last(master))
  <2>1. Rooted(bot.head, master[1]) /\ Rooted(master, master[1])
    BY TypeFacts DEF Landing
  <2> QED
    BY <1>1, <2>1, RebasedMeans
<1>3. s <= k
  BY <1>1, SharedMeans
<1> HIDE DEF k, r
<1>4. \A i : i \in Own' <=> i \in m..(m + d)
  BY <1>2 DEF Own, r
<1>5. k \in Own /\ n \in Own /\ s \in Own /\ \A i \in 1..d : k + i \in Own
  BY <1>1, <1>2, <1>3 DEF Own
<1>6. \A i \in 1..n : bot.head[i] \in Commit
  BY <1>1, ElementOfSeq
<1>7. Last(master) \in Commit
  BY TypeFacts
<1>8. \A i \in 1..d :
        r[m + i].tree = ReplayedTree(i) /\ r[m + i].beat = ReplayedBeat(i)
  <2> SUFFICES ASSUME NEW i \in 1..d
               PROVE  /\ r[m + i].tree = ReplayedTree(i)
                      /\ r[m + i].beat = ReplayedBeat(i)
    OBVIOUS
  <2>1. k + i \in 1..n /\ k \in 1..n
    BY <1>1, <1>2
  <2>2. bot.head[k + i] \in Commit /\ bot.head[k] \in Commit
    BY <1>6, <2>1
  <2>3. r[m + i] = Replayed(bot.head[k + i], bot.head[k], Last(master))
    BY <1>2
  <2> QED
    BY <1>7, <2>2, <2>3, ReplayedType
<1>9. r[m] = Last(master)
  BY <1>1, <1>2
<1>10. \A i \in Own' : i = m \/ \E l \in 1..d : i = m + l
  <2> SUFFICES ASSUME NEW i \in Own', i # m PROVE i - m \in 1..d /\ i = m + (i - m)
    OBVIOUS
  <2>1. i \in m..(m + d)
    BY <1>4
  <2> QED
    BY <1>1, <1>2, <2>1
<1>11. Last(r) = r[m + d]
  BY <1>2 DEF Last
<1>12. IsPrefix(bot'.base, bot'.head) /\ IsPrefix(bot'.base, master')
  BY <1>1, <1>2, PrefixReflexive DEF r
<1>13. \A i \in Own' : \A l \in 1..d :
          i <= m + l => r[i].tree \cap Group \subseteq r[m + l].tree
  <2> SUFFICES ASSUME NEW i \in Own', NEW l \in 1..d, i <= m + l
               PROVE  r[i].tree \cap Group \subseteq r[m + l].tree
    OBVIOUS
  <2>1. /\ bot.head[k].tree \cap Group \subseteq bot.head[k + l].tree
    BY <1>2, <1>5 DEF Night, Careful
  <2>2. CASE i = m
    BY <1>8, <1>9, <2>1, <2>2
  <2>3. ASSUME NEW j \in 1..d, i = m + j
        PROVE  r[i].tree \cap Group \subseteq r[m + l].tree
    <3>1. j <= l /\ k + j <= k + l
      BY <1>1, <1>2, <2>3
    <3>2. bot.head[k + j].tree \cap Group \subseteq bot.head[k + l].tree
      BY <1>5, <3>1 DEF Night, Careful
    <3> QED
      BY <1>8, <2>1, <2>3, <3>2
  <2> QED
    BY <1>10, <2>2, <2>3
<1>14. \A i, j \in Own' : i <= j => r[i].tree \cap Group \subseteq r[j].tree
  <2> SUFFICES ASSUME NEW i \in Own', NEW j \in Own', i <= j
               PROVE  r[i].tree \cap Group \subseteq r[j].tree
    OBVIOUS
  <2>1. CASE j = m
    <3>1. i = m
      BY <1>1, <1>2, <1>4, <2>1
    <3> QED
      BY <2>1, <3>1
  <2> QED
    BY <1>10, <1>13, <2>1
<1>15. bot.red \cap Last(r).tree \subseteq Last(master).tree
  <2>1. CASE d = 0
    BY <1>1, <1>9, <1>11, <2>1
  <2>2. CASE d # 0
    <3>1. d \in 1..d /\ k + d = n
      BY <1>1, <1>2, <2>2
    <3>2. Last(r).tree \subseteq
            Last(master).tree \cup (bot.head[n].tree \ bot.head[k].tree)
      BY <1>8, <1>11, <3>1
    <3>3. bot.head[s].tree \cap Group \subseteq bot.head[k].tree
      BY <1>3, <1>5 DEF Night, Careful
    <3>4. /\ bot.red \subseteq Group
          /\ bot.red \cap bot.head[n].tree \subseteq bot.head[s].tree
      BY <1>1 DEF Night, Careful
    <3> QED
      BY <3>2, <3>3, <3>4
  <2> QED
    BY <2>1, <2>2
<1>16. Careful'
  <2>1. bot.red \subseteq Group /\ (bot.red # {} => bot.fail)
    BY DEF Night, Careful
  <2> QED
    BY <1>14, <1>15, <2>1 DEF Careful, r
<1>17. d # 0 => Last(master).beat = old
  <2> SUFFICES ASSUME d # 0, IsPrefix(bot.head, master) PROVE FALSE
    BY DEF Night, Beats
  <2>1. Shared(bot.head, master) = Len(bot.head)
    BY <1>1, SharedWithPrefix
  <2> QED
    BY <1>1, <2>1 DEF k
<1>18. d # 0 => bot.head[k].beat = old
  BY <1>1, <1>2, <1>5 DEF Night, Beats
<1>19. \A l \in 1..d : l < d => r[m + l].beat = Last(master).beat
  <2> SUFFICES ASSUME NEW l \in 1..d, l < d PROVE r[m + l].beat = Last(master).beat
    OBVIOUS
  <2>1. k + l \in Own /\ k + l < n
    <3>1. k + l \in Own
      BY <1>5
    <3>2. k + l < n
      BY <1>1, <1>2
    <3> QED
      BY <3>1, <3>2
  <2>2. bot.head[k + l].beat = old
    BY <2>1 DEF Night, Beats
  <2>3. bot.head[k].beat = old
    BY <1>2, <1>18
  <2> QED
    BY <1>8, <2>2, <2>3
<1>20. d # 0 => /\ r[m + d].beat.epoch > Last(master).beat.epoch
                /\ r[m + d].beat.green => bot.red = {}
  <2> SUFFICES ASSUME d # 0
               PROVE  /\ r[m + d].beat.epoch > Last(master).beat.epoch
                      /\ r[m + d].beat.green => bot.red = {}
    OBVIOUS
  <2>1. d \in 1..d /\ k + d = n /\ n > s
    BY <1>1, <1>2, <1>3
  <2>2. /\ bot.head[n].beat.epoch > old.epoch
        /\ bot.head[n].beat.green => bot.red = {}
    BY <2>1 DEF Night, Beats
  <2>3. old.epoch \in Nat
    BY <1>1, <1>6, CommitType
  <2>4. bot.head[n].beat # old
    BY <2>2, <2>3
  <2>5. r[m + d].beat = bot.head[n].beat
    BY <1>8, <1>18, <2>1, <2>4
  <2> QED
    BY <1>17, <2>2, <2>5
<1>21. Beats'
  <2>1. \A i \in Own' : i < m + d => r[i].beat = Last(master).beat
    <3> SUFFICES ASSUME NEW i \in Own', i < m + d PROVE r[i].beat = Last(master).beat
      OBVIOUS
    <3>1. CASE i = m
      BY <1>9, <3>1
    <3>2. ASSUME NEW l \in 1..d, i = m + l PROVE r[i].beat = Last(master).beat
      <4>1. l < d
        BY <1>1, <1>2, <3>2
      <4> QED
        BY <1>19, <3>2, <4>1
    <3> QED
      BY <1>10, <3>1, <3>2
  <2>2. m + d > m => d # 0
    BY <1>1
  <2>3. bot'.pc \notin Working
    BY DEF Landing, Working
  <2>4. bot'.head = r /\ Len(bot'.head) = m + d /\ Last(bot'.base) = Last(master)
    BY <1>2 DEF r
  <2> QED
    BY <1>20, <2>1, <2>2, <2>3, <2>4 DEF Beats
<1> QED
  BY <1>12, <1>16, <1>21 DEF Night

(* A rebase brings others' changes, and those of no red group.             *)
LEMMA RaceNight ==
  ASSUME TypeInv, NightInv, Race, bot'.pc # "idle"
  PROVE  Night' /\ bot'.pc \in Landing
<1>1. /\ bot.pc \in Landing /\ bot'.pc \in Landing
      /\ master' = master /\ built' = built
      /\ bot'.red = bot.red /\ bot'.fail = bot.fail
  BY RaceMoves DEF Landing
<1>2. Night
  BY <1>1 DEF NightInv
<1>3. CASE bot'.head = bot.head /\ bot'.base = bot.base /\ bot'.raced = bot.raced
  <2>1. Careful'
    BY <1>1, <1>2, <1>3 DEF Night, Careful, Own
  <2>2. Beats'
    BY <1>1, <1>2, <1>3 DEF Night, Beats, Own, Working, Landing
  <2> QED
    BY <1>1, <1>2, <1>3, <2>1, <2>2 DEF Night
<1>4. CASE /\ bot'.head = bot.head /\ bot'.base = master
           /\ IsPrefix(master, bot.head) /\ bot'.raced = bot.raced
  BY <1>1, <1>2, <1>4, FetchedNight
<1>5. CASE /\ bot'.head = Rebased(bot.head, master)
           /\ bot'.base = master /\ bot'.raced
  BY <1>1, <1>2, <1>5, RebasedNight
<1> QED
  BY <1>3, <1>4, <1>5, RaceMoves

(* What others push is not the bot's to answer for.                        *)
LEMMA OthersPushNight ==
  ASSUME TypeInv, NightInv, OthersPush, ~Rewrites, bot.pc \in Working \cup Landing
  PROVE  Night' /\ (bot.pc \in Working => Tidy')
<1>1. /\ UNCHANGED <<bot, built>> /\ IsPrefix(master, master')
      /\ Last(master').beat = Last(master).beat
  BY OthersPushMoves
<1>2. Night /\ (bot.pc \in Working => Tidy)
  BY DEF NightInv
<1>3. /\ master \in Seq(Commit) /\ master' \in Seq(Commit)
      /\ bot.base \in Seq(Commit) /\ bot.head \in Seq(Commit)
  <2>1. TypeInv'
    BY EnvironmentType
  <2> QED
    BY <2>1, TypeFacts, BotFields DEF TypeInv, TypeOK
<1>4. IsPrefix(bot.base, master')
  BY <1>1, <1>2, <1>3, PrefixTransitive DEF Night
<1>5. IsPrefix(bot.head, master) => IsPrefix(bot.head, master')
  BY <1>1, <1>3, PrefixTransitive
<1>6. Careful'
  BY <1>1, <1>2 DEF Night, Careful, Own
<1>7. Beats'
  BY <1>1, <1>2, <1>5 DEF Night, Beats, Own
<1>8. bot.pc \in Working => Tidy'
  BY <1>1, <1>2 DEF Tidy
<1> QED
  BY <1>1, <1>2, <1>4, <1>6, <1>7, <1>8 DEF Night

(* At the start there is no night.                                         *)
LEMMA InitNightInv == Init => NightInv
<1> SUFFICES ASSUME Init PROVE NightInv
  OBVIOUS
<1>1. bot.pc = "idle"
  BY EndedType DEF Init, Exit
<1> QED
  BY <1>1, InitTypeInv DEF NightInv, Working, Landing

(* On a master nobody rewrites, every step keeps the night's account.      *)
LEMMA NextNightInv ==
  ASSUME ~Rewrites
  PROVE  NightInv /\ [Next]_vars => NightInv'
<1> SUFFICES ASSUME NightInv, [Next]_vars PROVE NightInv'
  OBVIOUS
<1>1. TypeInv /\ TypeInv'
  BY NextTypeInv DEF NightInv
<1>2. CASE Start
  BY <1>1, <1>2, StartMoves, StartNight DEF NightInv, Working, Landing
<1>3. CASE Update \/ Build \/ CommitGroup
  <2>1. Night' /\ Tidy'
    BY <1>1, <1>3, UpdateNight, BuildNight, CommitGroupNight
  <2> QED
    BY <1>1, <2>1 DEF NightInv
<1>4. CASE Restore
  <2>1. bot'.pc \in Working => Night' /\ Tidy'
    BY <1>1, <1>4, RestoreNight
  <2>2. bot'.pc \notin Landing
    BY <1>1, <1>4, TransactionMoves DEF Working, Landing
  <2> QED
    BY <1>1, <2>1, <2>2 DEF NightInv
<1>5. CASE WriteHeartbeat
  BY <1>1, <1>5, WriteHeartbeatNight DEF NightInv, Working, Landing
<1>6. CASE Push
  <2>1. bot'.pc \notin Working
    BY <1>1, <1>6, PushMoves DEF Working
  <2> QED
    BY <1>1, <1>6, <2>1, PushNight DEF NightInv
<1>7. CASE Race
  <2>1. bot'.pc # "idle" => Night' /\ bot'.pc \in Landing
    BY <1>1, <1>7, RaceNight
  <2> QED
    BY <1>1, <2>1 DEF NightInv, Working, Landing
<1>8. CASE VerifyPush \/ WriteAnchor \/ PushDeploy \/ Finish \/ Kill
  BY <1>1, <1>8, LastMoves DEF NightInv, Working, Landing
<1>9. CASE OthersPush
  <2>1. bot' = bot
    BY <1>1, <1>9, OthersPushMoves
  <2> QED
    BY <1>1, <1>9, <2>1, OthersPushNight DEF NightInv
<1>10. CASE UpstreamMoves \/ Tick \/ UNCHANGED vars
  <2>1. UNCHANGED <<master, bot, built>>
    BY <1>10 DEF UpstreamMoves, Tick, vars
  <2>2. UNCHANGED <<Night, Tidy>>
    BY <2>1 DEF Night, Careful, Beats, Tidy, Own
  <2> QED
    BY <1>1, <2>1, <2>2 DEF NightInv
<1> QED
  BY <1>2, <1>3, <1>4, <1>5, <1>6, <1>7, <1>8, <1>9, <1>10 DEF Next, Step

(* What a landing finds: everything master has is in the history that      *)
(* lands, and that has more.                                               *)
LEMMA LandingFacts ==
  ASSUME NightInv, [Next]_vars, Lands
  PROVE  /\ Night /\ master' = bot.head
         /\ Len(master) \in Own /\ Len(bot.head) \in Own
         /\ Len(bot.base) \in Own
         /\ Len(bot.base) <= Len(master) /\ Len(master) < Len(bot.head)
         /\ Last(master) = bot.head[Len(master)]
         /\ Last(master') = bot.head[Len(bot.head)]
         /\ Last(bot.base) = bot.head[Len(bot.base)]
         /\ Last(master).beat = Last(bot.base).beat
<1>1. TypeInv /\ bot.pc = "push" /\ master' # master
  BY DEF NightInv, Lands
<1>2. Night
  BY <1>1 DEF NightInv, Landing
<1>3. master' = bot.head /\ IsPrefix(master, bot.head)
  BY <1>1, LandingIsAPush
<1>4. master \in Seq(Commit) /\ bot.head \in Seq(Commit)
  BY <1>1, TypeFacts, BotFields
<1>5. /\ Len(bot.base) \in Nat /\ Len(bot.head) \in Nat /\ Len(master) \in Nat
      /\ 1 <= Len(bot.base) /\ Len(bot.base) <= Len(bot.head)
      /\ Len(bot.base) <= Len(master)
      /\ Last(bot.base) = bot.head[Len(bot.base)]
      /\ Last(bot.head) = bot.head[Len(bot.head)]
      /\ Last(master) = master[Len(master)]
  BY <1>1, <1>2, NightFacts DEF Night
<1>6. /\ Len(master) <= Len(bot.head)
      /\ \A i \in 1..Len(master) : master[i] = bot.head[i]
  BY <1>3, <1>4, PrefixMeans
<1>7. Len(master) # Len(bot.head)
  <2> SUFFICES ASSUME Len(master) = Len(bot.head) PROVE master = bot.head
    BY <1>1, <1>3
  <2> QED
    BY <1>4, <1>6, SeqEqual
<1>8. Last(master) = bot.head[Len(master)]
  BY <1>5, <1>6
<1>9. Last(master).beat = Last(bot.base).beat
  <2> SUFFICES ASSUME IsPrefix(bot.head, master) PROVE FALSE
    BY <1>2 DEF Night, Beats
  <2>1. Len(bot.head) <= Len(master)
    BY <1>4, PrefixMeans
  <2> QED
    BY <1>5, <1>6, <1>7, <2>1
<1> QED
  BY <1>2, <1>3, <1>5, <1>6, <1>7, <1>8, <1>9 DEF Own

(* Nothing of a group that failed on its own reaches master that night,    *)
(* through whichever transaction, hold, rebase or lost answer; and the     *)
(* heartbeat of such a night is not green.                                 *)
THEOREM RedGroupsStayOut ==
  ASSUME ~Rewrites
  PROVE  Spec => RedGroupStaysOut
<1>1. Spec => []NightInv
  BY InitNightInv, NextNightInv, PTL DEF Spec
<1>2. NightInv /\ [Next]_vars =>
        [Lands => /\ bot.red \cap (Last(master').tree \ Last(master).tree) = {}
                  /\ Last(master').beat.green => bot.red = {}]_vars
  <2> SUFFICES ASSUME NightInv, [Next]_vars, Lands
               PROVE  /\ bot.red \cap (Last(master').tree \ Last(master).tree) = {}
                      /\ Last(master').beat.green => bot.red = {}
    OBVIOUS
  <2> DEFINE n == Len(bot.head)
             s == Len(bot.base)
  <2>1. /\ Night /\ bot.pc \in Landing
        /\ Last(master) = bot.head[Len(master)] /\ Last(master') = bot.head[n]
        /\ Last(bot.base) = bot.head[s] /\ Last(bot.head) = bot.head[n]
        /\ Len(master) \in Own /\ s \in Own /\ s <= Len(master) /\ n > s
    BY LandingFacts DEF Lands, Landing, Last, Own
  <2>2. /\ bot.red \subseteq Group
        /\ bot.red \cap bot.head[n].tree \subseteq bot.head[s].tree
        /\ bot.head[s].tree \cap Group \subseteq bot.head[Len(master)].tree
    BY <2>1 DEF Night, Careful
  <2>3. Last(master').beat.green => bot.red = {}
    BY <2>1 DEF Night, Beats
  <2> QED
    BY <2>1, <2>2, <2>3
<1> QED
  BY <1>1, <1>2, PTL DEF Spec, RedGroupStaysOut

(* When nobody pushed in between, the tree that lands has been built for   *)
(* every host, or is the one that was there.                               *)
THEOREM OnlyBuiltTreesLand ==
  ASSUME ~Rewrites
  PROVE  Spec => LandsWhatItBuilt
<1>1. Spec => []NightInv
  BY InitNightInv, NextNightInv, PTL DEF Spec
<1>2. NightInv /\ [Next]_vars =>
        [Lands /\ ~bot.raced
           => Last(master').tree \in built \cup {Last(master).tree}]_vars
  <2> SUFFICES ASSUME NightInv, [Next]_vars, Lands, ~bot.raced
               PROVE  Last(master').tree \in built \cup {Last(master).tree}
    OBVIOUS
  <2>1. /\ Night /\ Len(master) \in Own /\ Len(bot.head) \in Own
        /\ Len(master) <= Len(bot.head)
        /\ Last(master) = bot.head[Len(master)]
        /\ Last(master') = bot.head[Len(bot.head)]
    BY LandingFacts DEF Own
  <2> QED
    BY <2>1 DEF Night, Careful
<1> QED
  BY <1>1, <1>2, PTL DEF Spec, LandsWhatItBuilt

(* Every landing raises the epoch of the heartbeat, with the clock         *)
(* standing still and after a rebase too.                                  *)
THEOREM HeartbeatsAdvance ==
  ASSUME ~Rewrites
  PROVE  Spec => HeartbeatAdvances
<1>1. Spec => []NightInv
  BY InitNightInv, NextNightInv, PTL DEF Spec
<1>2. NightInv /\ [Next]_vars =>
        [Lands => Last(master').beat.epoch > Last(master).beat.epoch]_vars
  <2> SUFFICES ASSUME NightInv, [Next]_vars, Lands
               PROVE  Last(master').beat.epoch > Last(master).beat.epoch
    OBVIOUS
  <2>1. /\ Night /\ bot.pc \in Landing /\ Len(bot.head) > Len(bot.base)
        /\ Last(master') = bot.head[Len(bot.head)]
        /\ Last(master).beat = Last(bot.base).beat
    BY LandingFacts DEF Lands, Landing, Own
  <2> QED
    BY <2>1 DEF Night, Beats
<1> QED
  BY <1>1, <1>2, PTL DEF Spec, HeartbeatAdvances
=============================================================================
