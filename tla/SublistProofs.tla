---------------------------- MODULE SublistProofs ----------------------------
(***************************************************************************)
(* Lemmas about sublists, for the proofs about the programs that filter    *)
(* lines, marks and handlers: places and ranks determine each other, and a *)
(* sublist is told by its elements and their order.  And about what the    *)
(* library flattens by recursion: places are climbed one by one.           *)
(***************************************************************************)
EXTENDS Sublists, SequencesExt, SequenceTheorems, FiniteSetTheorems, TLAPS

(* The places of a sequence are finitely many. *)
LEMMA PlacesFinite ==
  ASSUME NEW len \in Nat, NEW P \in SUBSET (1..len)
  PROVE  IsFiniteSet(P) /\ Cardinality(P) \in Nat /\ Cardinality(P) <= len
<1>1. IsFiniteSet(1..len) /\ Cardinality(1..len) = len
  BY FS_Interval
<1> QED  BY <1>1, FS_Subset, FS_CardinalityType

(* A place has a rank, greater than those of the places before it. *)
LEMMA RankGrows ==
  ASSUME NEW len \in Nat, NEW P \in SUBSET (1..len), NEW i \in P
  PROVE  /\ Rank(P, i) \in 1..Cardinality(P)
         /\ \A j \in P : j < i => Rank(P, j) < Rank(P, i)
<1> DEFINE upto(k) == {j \in P : j <= k}
<1>1. \A k \in P : IsFiniteSet(upto(k)) /\ Cardinality(upto(k)) \in Nat
                   /\ Cardinality(upto(k)) <= Cardinality(P)
  BY PlacesFinite, FS_Subset, FS_CardinalityType
<1>2. Cardinality(upto(i)) # 0
  BY <1>1, FS_EmptySet
<1>3. ASSUME NEW j \in P, j < i  PROVE Cardinality(upto(j)) < Cardinality(upto(i))
  <2>1. upto(j) \in SUBSET upto(i) /\ i \in upto(i) /\ i \notin upto(j)
    <3>1. i \in Nat /\ j \in Nat /\ \A k \in P : k \in Nat
      OBVIOUS
    <3>2. \A k \in P : k <= j => k <= i
      BY <1>3, <3>1
    <3>3. ~(i <= j) /\ i <= i
      BY <1>3, <3>1
    <3> QED  BY <3>2, <3>3
  <2>2. Cardinality(upto(j)) <= Cardinality(upto(i)) /\ Cardinality(upto(j)) # Cardinality(upto(i))
    BY <1>1, <2>1, FS_Subset
  <2> QED  BY <1>1, <2>2
<1>4. \A k \in P : Rank(P, k) = Cardinality(upto(k))
  BY DEF Rank
<1> HIDE DEF upto
<1>5. Cardinality(P) \in Nat
  BY PlacesFinite
<1> QED  BY <1>1, <1>2, <1>3, <1>4, <1>5

(* Each rank is the rank of one place. *)
LEMMA SortedPlaces ==
  ASSUME NEW len \in Nat, NEW P \in SUBSET (1..len)
  PROVE  /\ Sorted(P) \in [1..Cardinality(P) -> P]
         /\ \A n \in 1..Cardinality(P) : Rank(P, Sorted(P)[n]) = n
         /\ \A i \in P : Sorted(P)[Rank(P, i)] = i
<1> DEFINE rank == [i \in P |-> Rank(P, i)]
<1>1. Cardinality(P) \in Nat /\ IsFiniteSet(P)
  BY PlacesFinite
<1>2. \A i, j \in P : Rank(P, i) = Rank(P, j) => i = j
  <2> SUFFICES ASSUME NEW i \in P, NEW j \in P, Rank(P, i) = Rank(P, j), i # j  PROVE FALSE
    OBVIOUS
  <2>1. i < j \/ j < i
    OBVIOUS
  <2>2. Rank(P, i) \in Nat
    BY <1>1, RankGrows
  <2>3. i < j => Rank(P, i) < Rank(P, j)
    BY RankGrows
  <2>4. j < i => Rank(P, j) < Rank(P, i)
    BY RankGrows
  <2> QED  BY <2>1, <2>2, <2>3, <2>4
<1>3. rank \in Injection(P, 1..Cardinality(P))
  <2>1. \A i \in P : Rank(P, i) \in 1..Cardinality(P)
    BY RankGrows
  <2> QED  BY <1>2, <2>1 DEF Injection, IsInjective
<1>4. rank \in Surjection(P, 1..Cardinality(P))
  <2>1. IsFiniteSet(1..Cardinality(P)) /\ Cardinality(1..Cardinality(P)) = Cardinality(P)
    BY <1>1, FS_Interval
  <2> QED  BY <1>3, <2>1, FS_Injection
<1>5. ASSUME NEW n \in 1..Cardinality(P)  PROVE \E i \in P : Rank(P, i) = n
  BY <1>4 DEF Surjection
<1>6. \A n \in 1..Cardinality(P) : Sorted(P)[n] \in P /\ Rank(P, Sorted(P)[n]) = n
  BY <1>5 DEF Sorted
<1>7. \A i \in P : Sorted(P)[Rank(P, i)] = i
  BY <1>2, <1>6, RankGrows
<1> QED  BY <1>6, <1>7 DEF Sorted

LEMMA AtPlace ==
  ASSUME NEW len \in Nat, NEW P \in SUBSET (1..len), NEW n \in 1..Cardinality(P)
  PROVE  \E i \in P : Rank(P, i) = n
<1>1. Sorted(P) \in [1..Cardinality(P) -> P]
  BY SortedPlaces
<1>2. Rank(P, Sorted(P)[n]) = n
  BY SortedPlaces
<1> QED  BY <1>1, <1>2

LEMMA AtRank ==
  ASSUME NEW len \in Nat, NEW P \in SUBSET (1..len), NEW seq, NEW i \in P
  PROVE  Rank(P, i) \in 1..Cardinality(P) /\ Sublist(seq, P)[Rank(P, i)] = seq[i]
<1>1. DOMAIN Sorted(P) = 1..Cardinality(P)
  BY SortedPlaces
<1>2. Rank(P, i) \in 1..Cardinality(P)
  BY RankGrows
<1>3. Sorted(P)[Rank(P, i)] = i
  BY SortedPlaces
<1> QED  BY <1>1, <1>2, <1>3 DEF Sublist

(* The elements of a sublist are those of the sequence at its places. *)
LEMMA SublistHas ==
  ASSUME NEW len \in Nat, NEW P \in SUBSET (1..len), NEW seq
  PROVE  /\ DOMAIN Sublist(seq, P) = 1..Cardinality(P) /\ Len(Sublist(seq, P)) = Cardinality(P)
         /\ \A T : (\A i \in P : seq[i] \in T) => Sublist(seq, P) \in Seq(T)
         /\ \A n \in 1..Cardinality(P) :
              Sorted(P)[n] \in P /\ Rank(P, Sorted(P)[n]) = n /\ Sublist(seq, P)[n] = seq[Sorted(P)[n]]
         /\ \A i \in P : Rank(P, i) \in 1..Cardinality(P) /\ Sublist(seq, P)[Rank(P, i)] = seq[i]
<1>1. Cardinality(P) \in Nat /\ DOMAIN Sorted(P) = 1..Cardinality(P)
  BY PlacesFinite, SortedPlaces
<1>2. Sublist(seq, P) = [n \in 1..Cardinality(P) |-> seq[Sorted(P)[n]]]
  BY <1>1 DEF Sublist
<1>4. \A n \in 1..Cardinality(P) : Sorted(P)[n] \in P
  BY SortedPlaces
<1>5. Len(Sublist(seq, P)) = Cardinality(P)
  BY <1>1, <1>2
<1>6. ASSUME NEW T, \A i \in P : seq[i] \in T  PROVE Sublist(seq, P) \in Seq(T)
  <2>1. \A n \in 1..Cardinality(P) : seq[Sorted(P)[n]] \in T
    BY <1>4, <1>6
  <2> QED  BY <1>1, <1>2, <2>1
<1>7. \A n \in 1..Cardinality(P) :
        Sorted(P)[n] \in P /\ Rank(P, Sorted(P)[n]) = n /\ Sublist(seq, P)[n] = seq[Sorted(P)[n]]
  BY <1>2, SortedPlaces
<1>8. \A i \in P : Rank(P, i) \in 1..Cardinality(P) /\ Sublist(seq, P)[Rank(P, i)] = seq[i]
  BY AtRank
<1>9. DOMAIN Sublist(seq, P) = 1..Cardinality(P)
  BY <1>2
<1> QED  BY <1>5, <1>6, <1>7, <1>8, <1>9

(* Places that correspond in their order, with the same elements, give the *)
(* same sublist.                                                           *)
Correspond(P, s, Q, t, g) ==
  /\ \E m, k \in Nat : P \in SUBSET (1..m) /\ Q \in SUBSET (1..k)
  /\ g \in [P -> Q]
  /\ \A q \in Q : \E p \in P : g[p] = q
  /\ \A p, q \in P : p < q => g[p] < g[q]
  /\ \A p \in P : s[p] = t[g[p]]

LEMMA RanksAlike ==
  ASSUME NEW P, NEW s, NEW Q, NEW t, NEW g, Correspond(P, s, Q, t, g)
  PROVE  /\ Cardinality(P) = Cardinality(Q)
         /\ \A p \in P : g[p] \in Q /\ Rank(Q, g[p]) = Rank(P, p)
<1>d. PICK m \in Nat, k \in Nat : P \in SUBSET (1..m) /\ Q \in SUBSET (1..k)
  BY DEF Correspond
<1>c. /\ g \in [P -> Q]
      /\ \A q \in Q : \E p \in P : g[p] = q
      /\ \A p, q \in P : p < q => g[p] < g[q]
      /\ \A p \in P : s[p] = t[g[p]]
  BY DEF Correspond
<1>1. IsFiniteSet(P) /\ IsFiniteSet(Q) /\ Cardinality(P) \in Nat
  BY <1>d, PlacesFinite
<1>b. \A p \in P : p \in Nat /\ g[p] \in Q /\ g[p] \in Nat
  <2>1. (\A p \in P : p \in Nat) /\ \A q \in Q : q \in Nat
    BY <1>d
  <2>2. \A p \in P : g[p] \in Q
    BY <1>c
  <2> QED  BY <2>1, <2>2
<1>2. \A p, q \in P : g[p] = g[q] => p = q
  <2> SUFFICES ASSUME NEW p \in P, NEW q \in P, g[p] = g[q], p # q  PROVE FALSE
    OBVIOUS
  <2>1. p < q \/ q < p
    BY <1>b
  <2>2. g[p] < g[q] \/ g[q] < g[p]
    BY <1>c, <2>1
  <2> QED  BY <1>b, <2>2
<1>a. \A p, q \in P : g[p] <= g[q] <=> p <= q
  <2> SUFFICES ASSUME NEW p \in P, NEW q \in P  PROVE g[p] <= g[q] <=> p <= q
    OBVIOUS
  <2>1. p < q \/ p = q \/ q < p
    BY <1>b
  <2>2. (p < q => g[p] < g[q]) /\ (q < p => g[q] < g[p])
    BY <1>c
  <2> QED  BY <1>b, <2>1, <2>2
<1>3. ASSUME NEW p \in P  PROVE Rank(Q, g[p]) = Rank(P, p)
  <2> DEFINE U == {j \in P : j <= p}
             V == {j \in Q : j <= g[p]}
             h == [j \in U |-> g[j]]
  <2>1. \A j \in U : h[j] \in V
    BY <1>a, <1>b
  <2>2. \A v \in V : \E j \in U : h[j] = v
    BY <1>a, <1>c
  <2>3. h \in Bijection(U, V)
    BY <1>2, <2>1, <2>2 DEF Bijection, Injection, IsInjective, Surjection
  <2>4. IsFiniteSet(U)
    BY <1>1, FS_Subset
  <2>5. Cardinality(U) = Cardinality(V)
    BY <2>3, <2>4, FS_Bijection DEF ExistsBijection
  <2> QED  BY <2>5 DEF Rank
<1>4. Cardinality(Q) = Cardinality(P)
  <2>1. g \in Bijection(P, Q)
    BY <1>2, <1>c DEF Bijection, Injection, IsInjective, Surjection
  <2> QED  BY <1>1, <2>1, FS_Bijection DEF ExistsBijection
<1> QED  BY <1>b, <1>3, <1>4

LEMMA SublistsAlike ==
  ASSUME NEW P, NEW s, NEW Q, NEW t, NEW g, Correspond(P, s, Q, t, g)
  PROVE  Cardinality(P) = Cardinality(Q) /\ Sublist(s, P) = Sublist(t, Q)
<1>d. PICK m \in Nat, k \in Nat : P \in SUBSET (1..m) /\ Q \in SUBSET (1..k)
  BY DEF Correspond
<1>2. \A p \in P : g[p] \in Q /\ Rank(Q, g[p]) = Rank(P, p)
  BY RanksAlike
<1>3. \A p \in P : g[p] \in Q /\ Rank(Q, g[p]) = Rank(P, p) /\ s[p] = t[g[p]]
  BY <1>2 DEF Correspond
<1>4. Cardinality(Q) = Cardinality(P)
  BY RanksAlike
<1>5. ASSUME NEW n \in 1..Cardinality(P)  PROVE s[Sorted(P)[n]] = t[Sorted(Q)[n]]
  <2>1. PICK p \in P : p = Sorted(P)[n] /\ Rank(P, p) = n
    BY <1>d, SortedPlaces
  <2>2. Rank(Q, g[p]) = n
    BY <1>3, <2>1
  <2>3. Sorted(Q)[n] = g[p]
    BY <1>3, <1>d, <2>2, SortedPlaces
  <2> QED  BY <1>3, <2>1, <2>3
<1>6. DOMAIN Sorted(P) = 1..Cardinality(P) /\ DOMAIN Sorted(Q) = 1..Cardinality(P)
  BY <1>4, <1>d, SortedPlaces
<1> QED  BY <1>4, <1>5, <1>6 DEF Sublist

(* Of some places, one comes first. *)
LEMMA FirstPlace ==
  ASSUME NEW len \in Nat, NEW P \in SUBSET (1..len), P # {}
  PROVE  \E i \in P : \A j \in P : i <= j
<1>1. IsFiniteSet(P) /\ Cardinality(P) \in Nat
  BY PlacesFinite
<1>2. 1 \in 1..Cardinality(P)
  BY <1>1, FS_EmptySet
<1>3. PICK i \in P : Rank(P, i) = 1
  BY <1>2, SortedPlaces
<1>4. ASSUME NEW j \in P, j < i  PROVE FALSE
  <2>1. Rank(P, j) < Rank(P, i)
    BY <1>4, RankGrows
  <2>2. Rank(P, j) \in 1..Cardinality(P)
    BY RankGrows
  <2> QED  BY <1>1, <1>3, <2>1, <2>2
<1>5. \A j \in P : i <= j
  <2>1. i \in Nat /\ \A j \in P : j \in Nat
    OBVIOUS
  <2> QED  BY <1>4, <2>1
<1> QED  BY <1>5

(* Of some places and the one before them all, one comes last.            *)
LEMMA LastPlace ==
  ASSUME NEW len \in Nat, NEW P \in SUBSET (0..len), P # {}
  PROVE  Max(P) \in P /\ \A j \in P : Max(P) >= j
<1> DEFINE Q == {i \in P : i # 0}
<1>1. \E i \in P : \A j \in P : i >= j
  <2>1. CASE Q = {}
    <3>1. \A j \in P : j = 0
      BY <2>1
    <3>2. PICK i \in P : i = 0
      BY <3>1
    <3>3. \A j \in P : i >= j
      BY <3>1, <3>2
    <3> QED  BY <3>3
  <2>2. CASE Q # {}
    <3>0. PICK R \in SUBSET (1..len) : R = Q
      <4>1. \A i \in Q : i \in 1..len
        OBVIOUS
      <4> HIDE DEF Q
      <4> QED  BY <4>1
    <3>1. IsFiniteSet(R) /\ Cardinality(R) \in Nat /\ Cardinality(R) # 0
      BY <2>2, <3>0, PlacesFinite, FS_EmptySet
    <3>2. Cardinality(R) \in 1..Cardinality(R)
      BY <3>1
    <3>3. PICK i \in R : Rank(R, i) = Cardinality(R)
      BY <3>2, AtPlace
    <3>4. ASSUME NEW j \in R, i < j  PROVE FALSE
      <4>1. Rank(R, i) < Rank(R, j) /\ Rank(R, j) \in 1..Cardinality(R)
        BY <3>4, RankGrows
      <4> QED  BY <3>1, <3>3, <4>1
    <3>5. \A j \in P : j \in Nat /\ (j = 0 \/ j \in R)
      BY <3>0
    <3> QED  BY <3>0, <3>4, <3>5
  <2> QED  BY <2>1, <2>2
<1> HIDE DEF Q
<1> QED  BY <1>1 DEF Max

(* The places from one on give what the sequence ends with. *)
LEMMA SublistTail ==
  ASSUME NEW len \in Nat, NEW m \in Nat, m <= len, NEW seq
  PROVE  /\ Cardinality((m + 1)..len) = len - m
         /\ \A i \in (m + 1)..len : Sublist(seq, (m + 1)..len)[i - m] = seq[i]
<1> DEFINE P == (m + 1)..len
<1>1. P \in SUBSET (1..len)
  OBVIOUS
<1>2. Cardinality(P) = len - m
  <2>1. Cardinality(P) = IF m + 1 > len THEN 0 ELSE len - (m + 1) + 1
    BY FS_Interval
  <2> QED  BY <2>1
<1>3. ASSUME NEW i \in P  PROVE Sublist(seq, P)[i - m] = seq[i]
  <2>1. {j \in P : j <= i} = (m + 1)..i
    OBVIOUS
  <2>2. Cardinality((m + 1)..i) = i - m
    <3>1. Cardinality((m + 1)..i) = IF m + 1 > i THEN 0 ELSE i - (m + 1) + 1
      BY FS_Interval
    <3> QED  BY <3>1
  <2>3. Rank(P, i) = i - m
    BY <2>1, <2>2 DEF Rank
  <2>4. PICK Q \in SUBSET (1..len) : Q = P
    BY <1>1
  <2>5. Sublist(seq, Q)[Rank(Q, i)] = seq[i]
    <3>1. i \in Q
      BY <2>4
    <3> QED  BY <3>1, AtRank
  <2> QED  BY <2>3, <2>4, <2>5
<1> QED  BY <1>2, <1>3
-----------------------------------------------------------------------------
(* What holds of 0, and of the next number with each, holds of all.        *)
LEMMA Climbs ==
  ASSUME NEW N \in Nat, NEW S, 0 \in S, \A n \in 0..N : n \in S /\ n < N => n + 1 \in S
  PROVE  0..N \subseteq S
<1> DEFINE out == {n \in 1..N : n \notin S}
<1> SUFFICES ASSUME out # {}  PROVE FALSE
  OBVIOUS
<1>1. PICK i \in out : \A j \in out : i <= j
  <2>1. out \in SUBSET (1..N)
    OBVIOUS
  <2> HIDE DEF out
  <2> QED  BY <2>1, FirstPlace
<1>2. i \in 1..N /\ i \notin S /\ i - 1 \in 0..N /\ i - 1 < N /\ i - 1 + 1 = i
  OBVIOUS
<1>3. i - 1 \in S
  BY <1>1, <1>2
<1> QED  BY <1>2, <1>3
-----------------------------------------------------------------------------
(* FlattenSeq, which the library defines by recursion. *)
Flattens(f, n, ss) == f = [i \in 1..n |-> IF i = 1 THEN ss[i] ELSE f[i - 1] \o ss[i]]

LEMMA FlattensThere ==
  ASSUME NEW ss, NEW N \in Nat
  PROVE  \E f : Flattens(f, N, ss)
<1> DEFINE S == {n \in 0..N : \E f : Flattens(f, n, ss)}
<1>1. 0 \in S
  <2>1. Flattens([i \in 1..0 |-> <<>>], 0, ss)
    BY DEF Flattens
  <2> QED  BY <2>1
<1>2. ASSUME NEW n \in 0..N, n \in S, n < N  PROVE n + 1 \in S
  <2>1. PICK f : Flattens(f, n, ss)
    BY <1>2
  <2> DEFINE g == [i \in 1..(n + 1) |-> IF i \in 1..n THEN f[i] ELSE IF i = 1 THEN ss[i] ELSE f[i - 1] \o ss[i]]
  <2>2. ASSUME NEW i \in 1..(n + 1)  PROVE g[i] = IF i = 1 THEN ss[i] ELSE g[i - 1] \o ss[i]
    <3>1. i \in 1..n => f[i] = IF i = 1 THEN ss[i] ELSE f[i - 1] \o ss[i]
      BY <2>1 DEF Flattens
    <3>2. i # 1 => i - 1 \in 1..n /\ i - 1 \in 1..(n + 1)
      OBVIOUS
    <3>3. i # 1 => g[i - 1] = f[i - 1]
      BY <3>2
    <3> QED  BY <3>1, <3>3
  <2>3. g = [i \in 1..(n + 1) |-> g[i]]
    OBVIOUS
  <2> HIDE DEF g
  <2>4. g = [i \in 1..(n + 1) |-> IF i = 1 THEN ss[i] ELSE g[i - 1] \o ss[i]]
    BY <2>2, <2>3
  <2>5. Flattens(g, n + 1, ss)
    BY <2>4 DEF Flattens
  <2>6. n + 1 \in 0..N
    BY <1>2
  <2> QED  BY <2>5, <2>6
<1>3. N \in S
  <2> HIDE DEF S
  <2> QED  BY <1>1, <1>2, Climbs
<1> QED  BY <1>3

LEMMA FlattenIs ==
  ASSUME NEW ss, Len(ss) \in Nat \ {0}
  PROVE  \E f : Flattens(f, Len(ss), ss) /\ FlattenSeq(ss) = f[Len(ss)]
<1> DEFINE flatten[i \in 1..Len(ss)] == IF i = 1 THEN ss[i] ELSE flatten[i-1] \o ss[i]
<1>1. FlattenSeq(ss) = flatten[Len(ss)]
  BY DEF FlattenSeq
<1>2. \E f : f = [i \in 1..Len(ss) |-> IF i = 1 THEN ss[i] ELSE f[i - 1] \o ss[i]]
  BY FlattensThere DEF Flattens
<1>3. flatten = [i \in 1..Len(ss) |-> IF i = 1 THEN ss[i] ELSE flatten[i - 1] \o ss[i]]
  BY <1>2
<1> HIDE DEF flatten
<1>4. Flattens(flatten, Len(ss), ss)
  BY <1>3 DEF Flattens
<1> QED  BY <1>1, <1>4

(* Two of them agree as far as they flatten the same.                      *)
LEMMA FlattensAlike ==
  ASSUME NEW T, NEW n \in Nat, NEW m \in Nat, n <= m, NEW ss, NEW tt, NEW f, NEW g,
         \A i \in 1..n : ss[i] \in Seq(T) /\ tt[i] = ss[i], Flattens(f, n, ss), Flattens(g, m, tt)
  PROVE  \A i \in 1..n : f[i] = g[i] /\ f[i] \in Seq(T)
<1> DEFINE S == {k \in 0..n : k = 0 \/ (f[k] = g[k] /\ f[k] \in Seq(T))}
<1>1. 0 \in S
  OBVIOUS
<1>2. ASSUME NEW k \in 0..n, k \in S, k < n  PROVE k + 1 \in S
  <2>1. PICK i \in 1..n : i = k + 1 /\ i - 1 = k /\ i \in 1..m /\ i \in 0..n /\ i # 0
    BY <1>2
  <2>2. /\ f[i] = IF i = 1 THEN ss[i] ELSE f[i - 1] \o ss[i]
        /\ g[i] = IF i = 1 THEN tt[i] ELSE g[i - 1] \o tt[i]
    BY <2>1 DEF Flattens
  <2>3. ss[i] \in Seq(T) /\ tt[i] = ss[i]
    BY <2>1
  <2>4. CASE i = 1
    BY <2>1, <2>2, <2>3, <2>4
  <2>5. CASE i # 1
    <3>1. f[k] = g[k] /\ f[k] \in Seq(T)
      BY <1>2, <2>1, <2>5
    <3>2. f[i] = f[k] \o ss[i] /\ g[i] = f[i]
      BY <2>1, <2>2, <2>3, <2>5, <3>1
    <3>3. f[i] \in Seq(T)
      BY <2>3, <3>1, <3>2, ConcatProperties
    <3> QED  BY <2>1, <3>2, <3>3
  <2> QED  BY <2>4, <2>5
<1>3. 0..n \subseteq S
  <2> HIDE DEF S
  <2> QED  BY <1>1, <1>2, Climbs
<1> QED  BY <1>3

(* One more at the end is appended.                                        *)
LEMMA FlattenGrows ==
  ASSUME NEW T, NEW ss \in Seq(Seq(T)), NEW s \in Seq(T)
  PROVE  /\ FlattenSeq(ss) \in Seq(T) /\ FlattenSeq(Append(ss, s)) = FlattenSeq(ss) \o s
         /\ FlattenSeq(<<>>) = <<>>
<1>1. FlattenSeq(<<>>) = <<>>
  BY DEF FlattenSeq
<1>2. PICK tt \in Seq(Seq(T)) : tt = Append(ss, s)
  BY AppendProperties
<1>3. /\ Len(ss) \in Nat /\ Len(tt) = Len(ss) + 1 /\ tt[Len(tt)] = s
      /\ \A i \in 1..Len(ss) : ss[i] \in Seq(T) /\ tt[i] = ss[i]
  BY <1>2, AppendProperties
<1>4. PICK g : Flattens(g, Len(tt), tt) /\ FlattenSeq(tt) = g[Len(tt)]
  <2>1. Len(tt) \in Nat \ {0}
    BY <1>3
  <2> QED  BY <2>1, FlattenIs
<1>5. PICK n \in 1..Len(tt) : n = Len(tt) /\ n - 1 = Len(ss)
  BY <1>3
<1>a. g[n] = IF n = 1 THEN tt[n] ELSE g[n - 1] \o tt[n]
  BY <1>3, <1>4 DEF Flattens
<1>6. CASE ss = <<>>
  <2>1. Len(ss) = 0
    BY <1>6
  <2>2. FlattenSeq(tt) = s
    BY <1>3, <1>4, <1>5, <1>a, <2>1
  <2>3. <<>> \o s = s /\ <<>> \in Seq(T)
    BY ConcatEmptySeq
  <2> QED  BY <1>1, <1>2, <1>6, <2>2, <2>3
<1>7. CASE ss # <<>>
  <2>1. Len(ss) \in Nat \ {0}
    BY <1>7
  <2>2. PICK f : Flattens(f, Len(ss), ss) /\ FlattenSeq(ss) = f[Len(ss)]
    BY <2>1, FlattenIs
  <2>3. f[Len(ss)] = g[Len(ss)] /\ f[Len(ss)] \in Seq(T)
    <3>1. Len(ss) <= Len(tt) /\ Len(ss) \in 1..Len(ss) /\ Len(tt) \in Nat
      BY <1>3, <2>1
    <3>2. \A i \in 1..Len(ss) : f[i] = g[i] /\ f[i] \in Seq(T)
      BY <1>3, <1>4, <2>1, <2>2, <3>1, FlattensAlike
    <3> QED  BY <3>1, <3>2
  <2>4. FlattenSeq(tt) = g[Len(ss)] \o s
    BY <1>3, <1>4, <1>5, <1>a, <2>1
  <2> QED  BY <1>1, <1>2, <2>2, <2>3, <2>4
<1> QED  BY <1>6, <1>7
-----------------------------------------------------------------------------
(* A sublist of two sequences is one of each.                              *)
Shifted(n, Q) == {n + q : q \in Q}
LEMMA ShiftedPlaces ==
  ASSUME NEW n \in Nat, NEW m \in Nat, NEW Q \in SUBSET (1..m)
  PROVE  Cardinality(Shifted(n, Q)) = Cardinality(Q) /\ IsFiniteSet(Shifted(n, Q))
<1>1. IsFiniteSet(Q)
  BY PlacesFinite
<1> DEFINE f == [q \in Q |-> n + q]
<1>2. f \in Bijection(Q, Shifted(n, Q))
  BY DEF Bijection, Injection, IsInjective, Surjection, Shifted
<1> HIDE DEF f
<1> QED  BY <1>1, <1>2, FS_Bijection DEF ExistsBijection

Among(P, seq) == P \in SUBSET (1..Len(seq))
LEMMA SublistJoined ==
  ASSUME NEW T, NEW s \in Seq(T), NEW t \in Seq(T), NEW P, NEW Q, Among(P, s), Among(Q, t)
  PROVE  Sublist(s \o t, P \cup Shifted(Len(s), Q)) = Sublist(s, P) \o Sublist(t, Q)
<1>n. PICK n \in Nat, m \in Nat : n = Len(s) /\ m = Len(t)
  OBVIOUS
<1> DEFINE U == Shifted(n, Q)
           R == P \cup U
<1>0. n \in Nat /\ m \in Nat /\ P \in SUBSET (1..n) /\ Q \in SUBSET (1..m) /\ Len(s \o t) = n + m
  BY <1>n DEF Among
<1>1. U \in SUBSET ((n + 1)..(n + m)) /\ R \in SUBSET (1..(n + m))
  <2>1. ASSUME NEW x \in U  PROVE x \in (n + 1)..(n + m)
    <3>1. PICK q \in Q : x = n + q
      BY DEF Shifted
    <3>2. q \in 1..m
      BY <1>0
    <3> QED  BY <3>1, <3>2
  <2>2. U \in SUBSET ((n + 1)..(n + m))
    BY <2>1
  <2>3. P \in SUBSET (1..(n + m)) /\ (n + 1)..(n + m) \in SUBSET (1..(n + m))
    BY <1>0
  <2> HIDE DEF U
  <2> QED  BY <2>2, <2>3
<1>b. PICK N \in Nat : N = n + m /\ R \in SUBSET (1..N)
  BY <1>0, <1>1
<1>2. IsFiniteSet(P) /\ Cardinality(P) \in Nat /\ Cardinality(Q) \in Nat /\ Cardinality(U) = Cardinality(Q) /\ IsFiniteSet(U)
  BY <1>0, PlacesFinite, ShiftedPlaces
<1>3. P \cap U = {}
  BY <1>0, <1>1
<1>4. Cardinality(R) = Cardinality(P) + Cardinality(Q)
  <2>1. Cardinality(R) = Cardinality(P) + Cardinality(U) - Cardinality(P \cap U)
    BY <1>2, FS_Union
  <2>2. Cardinality(P \cap U) = 0
    BY <1>3, FS_EmptySet
  <2> QED  BY <1>2, <2>1, <2>2
<1>5. ASSUME NEW p \in P  PROVE Rank(R, p) = Rank(P, p)
  <2>1. {j \in R : j <= p} = {j \in P : j <= p}
    BY <1>0, <1>1
  <2> QED  BY <2>1 DEF Rank
<1>6. ASSUME NEW q \in Q  PROVE Rank(R, n + q) = Cardinality(P) + Rank(Q, q)
  <2> DEFINE V == {j \in Q : j <= q}
  <2>1. {j \in R : j <= n + q} = P \cup Shifted(n, V)
    BY <1>0, <1>1 DEF Shifted
  <2>2. V \in SUBSET (1..m) /\ Shifted(n, V) \in SUBSET U
    BY <1>0 DEF Shifted
  <2>3. Cardinality(Shifted(n, V)) = Cardinality(V) /\ IsFiniteSet(Shifted(n, V)) /\ Cardinality(V) \in Nat
    BY <1>0, <2>2, ShiftedPlaces, PlacesFinite
  <2>4. P \cap Shifted(n, V) = {}
    BY <1>3, <2>2
  <2>5. Cardinality(P \cup Shifted(n, V)) = Cardinality(P) + Cardinality(V)
    <3>1. Cardinality(P \cup Shifted(n, V)) = Cardinality(P) + Cardinality(Shifted(n, V)) - Cardinality(P \cap Shifted(n, V))
      BY <1>2, <2>3, FS_Union
    <3>2. Cardinality(P \cap Shifted(n, V)) = 0
      BY <2>4, FS_EmptySet
    <3> QED  BY <1>2, <2>3, <3>1, <3>2
  <2> QED  BY <2>1, <2>5 DEF Rank
<1>c. PICK c \in Nat, d \in Nat : c = Cardinality(P) /\ d = Cardinality(Q) /\ Cardinality(R) = c + d
  BY <1>2, <1>4
<1>z. /\ Sorted(P) \in [1..c -> P] /\ \A k \in 1..c : Rank(P, Sorted(P)[k]) = k
      /\ Sorted(Q) \in [1..d -> Q] /\ \A k \in 1..d : Rank(Q, Sorted(Q)[k]) = k
  BY <1>0, <1>c, SortedPlaces
<1> HIDE DEF R
<1>p. PICK a : a = Sublist(s, P)
  OBVIOUS
<1>q. PICK b : b = Sublist(t, Q)
  OBVIOUS
<1>7. a \in [1..c -> T] /\ b \in [1..d -> T]
  <2>2. a = [k \in 1..c |-> s[Sorted(P)[k]]] /\ b = [k \in 1..d |-> t[Sorted(Q)[k]]]
    BY <1>p, <1>q, <1>z DEF Sublist
  <2>3. \A p \in P : s[p] \in T
    BY <1>0, <1>n
  <2>4. \A q \in Q : t[q] \in T
    BY <1>0, <1>n
  <2> QED  BY <1>z, <2>2, <2>3, <2>4
<1>8. a \in Seq(T) /\ b \in Seq(T) /\ Len(a) = c /\ Len(b) = d
  BY <1>7
<1>9. PICK ab : /\ ab = a \o b /\ ab \in Seq(T) /\ Len(ab) = c + d
      /\ \A k \in 1..(c + d) : ab[k] = IF k <= c THEN a[k] ELSE b[k - c]
  <2>1. PICK ab : ab = a \o b
    OBVIOUS
  <2>2. /\ ab \in Seq(T) /\ Len(ab) = Len(a) + Len(b)
        /\ \A k \in 1..(Len(a) + Len(b)) : ab[k] = IF k <= Len(a) THEN a[k] ELSE b[k - Len(a)]
    BY <1>8, <2>1, ConcatProperties
  <2> QED  BY <1>8, <2>1, <2>2
<1>10. PICK st : st = s \o t /\ \A k \in 1..(n + m) : st[k] = IF k <= n THEN s[k] ELSE t[k - n]
  <2>1. PICK st : st = s \o t
    OBVIOUS
  <2>2. \A k \in 1..(Len(s) + Len(t)) : st[k] = IF k <= Len(s) THEN s[k] ELSE t[k - Len(s)]
    BY <2>1, ConcatProperties
  <2> QED  BY <1>n, <2>1, <2>2
<1>11. PICK l : l = Sublist(st, R)
  OBVIOUS
<1>12. l = [k \in 1..(c + d) |-> st[Sorted(R)[k]]]
  <2>1. DOMAIN Sorted(R) = 1..(c + d)
    BY <1>b, <1>c, SortedPlaces
  <2> QED  BY <1>11, <2>1 DEF Sublist
<1>13. ASSUME NEW k \in 1..(c + d)  PROVE l[k] = ab[k]
  <2>1. CASE k <= c
    <3>2. PICK p \in P : Rank(P, p) = k
      BY <1>z, <2>1
    <3>3. p \in R /\ Rank(R, p) = k
      BY <1>5, <3>2 DEF R
    <3>4. l[k] = st[p]
      <4>1. Sublist(st, R)[Rank(R, p)] = st[p]
        BY <1>b, <3>3, AtRank
      <4> QED  BY <1>11, <3>3, <4>1
    <3>5. a[k] = s[p]
      <4>1. Sublist(s, P)[Rank(P, p)] = s[p]
        BY <1>0, AtRank, ZenonT(40)
      <4> QED  BY <1>p, <3>2, <4>1
    <3>6. st[p] = s[p]
      <4>1. p \in 1..(n + m) /\ p <= n
        BY <1>0
      <4> QED  BY <1>10, <4>1
    <3> QED  BY <1>9, <2>1, <3>4, <3>5, <3>6
  <2>2. CASE ~(k <= c)
    <3>1. PICK e \in 1..d : e = k - c /\ c + e = k
      BY <2>2
    <3>2. PICK q \in Q : Rank(Q, q) = e
      BY <1>z
    <3>3. PICK r : r = n + q /\ r \in R /\ Rank(R, r) = k
      BY <1>6, <1>c, <3>1, <3>2 DEF R, Shifted
    <3>4. l[k] = st[r]
      <4>1. Sublist(st, R)[Rank(R, r)] = st[r]
        BY <1>b, <3>3, AtRank
      <4> QED  BY <1>11, <3>3, <4>1
    <3>5. b[e] = t[q]
      BY <1>0, <1>q, <3>2, AtRank
    <3>6. st[r] = t[q]
      <4>1. r \in 1..(n + m) /\ ~(r <= n) /\ r - n = q
        BY <1>0, <3>3
      <4> QED  BY <1>10, <4>1
    <3> QED  BY <1>9, <2>2, <3>1, <3>4, <3>5, <3>6
  <2> QED  BY <2>1, <2>2
<1>14. ab = [k \in 1..(c + d) |-> ab[k]]
  <2>1. ab = [k \in 1..Len(ab) |-> ab[k]]
    BY <1>9, LenProperties
  <2> QED  BY <1>9, <2>1
<1>15. l = ab
  BY <1>12, <1>13, <1>14
<1> QED  BY <1>n, <1>9, <1>10, <1>11, <1>15, <1>p, <1>q DEF R

(* All of a sequence.                                                      *)
LEMMA SublistAll ==
  ASSUME NEW T, NEW s \in Seq(T)
  PROVE  Sublist(s, DOMAIN s) = s
<1>1. Cardinality(1..Len(s)) = Len(s)
  <2>1. 0 + 1 = 1 /\ Len(s) - 0 = Len(s) /\ Len(s) \in Nat
    OBVIOUS
  <2> QED  BY <2>1, SublistTail
<1>2. \A i \in 1..Len(s) : Sublist(s, 1..Len(s))[i] = s[i]
  <2>1. \A i \in (0 + 1)..Len(s) : Sublist(s, (0 + 1)..Len(s))[i - 0] = s[i]
    BY SublistTail
  <2> QED  BY <2>1
<1>3. Sublist(s, 1..Len(s)) = [i \in 1..Len(s) |-> Sublist(s, 1..Len(s))[i]]
  <2>1. PICK P \in SUBSET (1..Len(s)) : P = 1..Len(s)
    OBVIOUS
  <2>2. DOMAIN Sorted(P) = 1..Cardinality(P)
    <3>1. Len(s) \in Nat
      OBVIOUS
    <3> QED  BY <3>1, SortedPlaces
  <2> QED  BY <1>1, <2>1, <2>2 DEF Sublist
<1> QED  BY <1>2, <1>3

LEMMA SublistAt ==
  ASSUME NEW len \in Nat, NEW P \in SUBSET (1..len), NEW s
  PROVE  /\ DOMAIN Sublist(s, P) = 1..Cardinality(P)
         /\ \A n \in 1..Cardinality(P) : Sorted(P)[n] \in P /\ Sublist(s, P)[n] = s[Sorted(P)[n]]
<1>1. Sorted(P) \in [1..Cardinality(P) -> P]
  BY SortedPlaces
<1>2. Sublist(s, P) = [n \in 1..Cardinality(P) |-> s[Sorted(P)[n]]]
  BY <1>1 DEF Sublist
<1> QED  BY <1>1, <1>2

(* What a sequence has of a set, in its order: of what two sequences have  *)
(* joined, what each has.                                                  *)
Where(s, X) == {i \in DOMAIN s : s[i] \in X}
Only(s, X) == Sublist(s, Where(s, X))

LEMMA OnlyHas ==
  ASSUME NEW T, NEW s \in Seq(T), NEW X
  PROVE  /\ Only(s, X) \in Seq(T) /\ \A n \in DOMAIN Only(s, X) : Only(s, X)[n] \in X
         /\ Only(<<>>, X) = <<>>
         /\ (\A i \in DOMAIN s : s[i] \in X) => Only(s, X) = s
<1>0. PICK len \in Nat : len = Len(s) /\ DOMAIN s = 1..len
  BY LenProperties
<1>1. PICK P \in SUBSET (1..len) : P = Where(s, X)
  BY <1>0 DEF Where
<1>2. \A i \in P : s[i] \in T /\ s[i] \in X
  BY <1>0, <1>1 DEF Where
<1>3. Sublist(s, P) \in Seq(T)
  BY <1>2, SublistHas
<1>4. \A n \in DOMAIN Sublist(s, P) : Sublist(s, P)[n] \in X
  <2>1. /\ DOMAIN Sublist(s, P) = 1..Cardinality(P)
        /\ \A n \in 1..Cardinality(P) : Sorted(P)[n] \in P /\ Sublist(s, P)[n] = s[Sorted(P)[n]]
    BY SublistAt
  <2> QED  BY <1>2, <2>1
<1>5. Only(<<>>, X) = <<>>
  <2>1. <<>> \in Seq(T) /\ Where(<<>>, X) = DOMAIN <<>>
    BY DEF Where
  <2> QED  BY <2>1, SublistAll DEF Only
<1>6. ASSUME \A i \in DOMAIN s : s[i] \in X  PROVE Only(s, X) = s
  <2>1. Where(s, X) = DOMAIN s
    BY <1>6 DEF Where
  <2> QED  BY <2>1, SublistAll DEF Only
<1> QED  BY <1>1, <1>3, <1>4, <1>5, <1>6 DEF Only

LEMMA OnlyJoined ==
  ASSUME NEW T, NEW s \in Seq(T), NEW t \in Seq(T), NEW X
  PROVE  Only(s \o t, X) = Only(s, X) \o Only(t, X)
<1>1. PICK n \in Nat, m \in Nat : n = Len(s) /\ m = Len(t) /\ DOMAIN s = 1..n /\ DOMAIN t = 1..m
  BY LenProperties
<1>2. PICK st : /\ st = s \o t /\ st \in Seq(T) /\ Len(st) = n + m
                /\ \A k \in 1..(n + m) : st[k] = IF k <= n THEN s[k] ELSE t[k - n]
  <2>1. PICK st : st = s \o t
    OBVIOUS
  <2>2. /\ st \in Seq(T) /\ Len(st) = Len(s) + Len(t)
        /\ \A k \in 1..(Len(s) + Len(t)) : st[k] = IF k <= Len(s) THEN s[k] ELSE t[k - Len(s)]
    BY <2>1, ConcatProperties
  <2> QED  BY <1>1, <2>1, <2>2
<1>3. DOMAIN st = 1..(n + m)
  BY <1>2, LenProperties
<1>4. ASSUME NEW k  PROVE k \in Where(st, X) <=> k \in Where(s, X) \cup Shifted(n, Where(t, X))
  <2>1. CASE k \in 1..n
    <3>1. k \in 1..(n + m) /\ k <= n /\ st[k] = s[k]
      BY <1>2, <2>1
    <3>2. k \notin Shifted(n, Where(t, X))
      BY <1>1, <2>1 DEF Shifted, Where
    <3> QED  BY <1>1, <1>3, <2>1, <3>1, <3>2 DEF Where
  <2>2. CASE k \in 1..(n + m) /\ k \notin 1..n
    <3>1. PICK j \in 1..m : j = k - n /\ k = n + j
      BY <2>2
    <3>2. st[k] = t[j]
      BY <1>2, <2>2, <3>1
    <3>3. k \in Shifted(n, Where(t, X)) <=> j \in Where(t, X)
      <4>1. PICK W \in SUBSET (1..m) : W = Where(t, X)
        BY <1>1 DEF Where
      <4>2. \A q \in W : n + q = n + j => q = j
        OBVIOUS
      <4> QED  BY <3>1, <4>1, <4>2 DEF Shifted
    <3> QED  BY <1>1, <1>3, <2>2, <3>1, <3>2, <3>3 DEF Where
  <2>3. CASE k \notin 1..(n + m)
    <3>1. k \notin Where(st, X) /\ k \notin Where(s, X)
      BY <1>1, <1>3, <2>3 DEF Where
    <3>2. \A j \in 1..m : n + j \in 1..(n + m)
      BY <1>1
    <3> QED  BY <1>1, <2>3, <3>1, <3>2 DEF Shifted, Where
  <2> QED  BY <2>1, <2>2, <2>3
<1>5. Where(st, X) = Where(s, X) \cup Shifted(n, Where(t, X))
  BY <1>4
<1>6. Among(Where(s, X), s) /\ Among(Where(t, X), t)
  BY DEF Among, Where
<1>7. Sublist(s \o t, Where(s, X) \cup Shifted(Len(s), Where(t, X))) = Sublist(s, Where(s, X)) \o Sublist(t, Where(t, X))
  BY <1>6, SublistJoined
<1> QED  BY <1>1, <1>2, <1>5, <1>7 DEF Only

(* Of what stands alone.                                                   *)
LEMMA OnlyOne ==
  ASSUME NEW T, NEW x \in T, NEW X
  PROVE  Only(<<x>>, X) = IF x \in X THEN <<x>> ELSE <<>>
<1>1. <<x>> \in Seq(T) /\ DOMAIN <<x>> = 1..1 /\ <<x>>[1] = x
  OBVIOUS
<1>2. CASE x \in X
  <2>1. \A i \in DOMAIN <<x>> : <<x>>[i] \in X
    BY <1>1, <1>2
  <2>2. Only(<<x>>, X) = <<x>>
    BY <1>1, <2>1, OnlyHas
  <2> QED  BY <1>2, <2>2
<1>3. CASE x \notin X
  <2>1. PICK P \in SUBSET (1..1) : P = Where(<<x>>, X) /\ P = {}
    <3>1. \A i \in 1..1 : <<x>>[i] \notin X
      BY <1>1, <1>3
    <3>2. Where(<<x>>, X) = {}
      BY <1>1, <3>1 DEF Where
    <3>3. {} \in SUBSET (1..1)
      OBVIOUS
    <3> QED  BY <3>2, <3>3
  <2>2. Cardinality(P) = 0
    BY <2>1, FS_EmptySet
  <2>3. Sublist(<<x>>, P) \in Seq(T) /\ Len(Sublist(<<x>>, P)) = 0
    BY <2>1, <2>2, SublistHas
  <2>4. Sublist(<<x>>, P) = <<>>
    BY <2>3
  <2> QED  BY <1>3, <2>1, <2>4 DEF Only
<1> QED  BY <1>2, <1>3
-----------------------------------------------------------------------------
(* A sequence in rows: the next row, and the one it joins. *)
LEMMA RowsJoin ==
  ASSUME NEW T, NEW s \in Seq(T), NEW a \in Nat, NEW b \in Nat, a <= b, b <= Len(s)
  PROVE  /\ SubSeq(s, 1, a) \in Seq(T) /\ SubSeq(s, a + 1, b) \in Seq(T)
         /\ a = b => SubSeq(s, a + 1, b) = <<>>
         /\ a < b => SubSeq(s, a + 1, b) # <<>>
         /\ SubSeq(s, 1, a) \o SubSeq(s, a + 1, b) = SubSeq(s, 1, b)
<1>1. PICK len \in Nat : len = Len(s) /\ DOMAIN s = 1..len
  BY LenProperties
<1>2. \A i \in 1..len : s[i] \in T
  BY <1>1
<1>3. SubSeq(s, 1, a) \in Seq(T)
  BY <1>1, <1>2, SubSeqProperties
<1>4. SubSeq(s, a + 1, b) \in Seq(T) /\ Len(SubSeq(s, a + 1, b)) = IF a + 1 <= b THEN b - (a + 1) + 1 ELSE 0
  <2>1. \A i \in (a + 1)..b : s[i] \in T
    BY <1>1, <1>2
  <2>2. a + 1 \in Int /\ b \in Int
    OBVIOUS
  <2> QED  BY <2>1, <2>2, SubSeqProperties
<1>5. a = b => SubSeq(s, a + 1, b) = <<>>
  <2>1. a + 1 \in Int /\ b \in Int
    OBVIOUS
  <2>2. a = b => b < a + 1
    OBVIOUS
  <2> QED  BY <2>1, <2>2, SubSeqEmpty
<1>6. a < b => SubSeq(s, a + 1, b) # <<>>
  BY <1>4
<1>7. SubSeq(s, 1, a) \o SubSeq(s, a + 1, b) = SubSeq(s, 1, b)
  <2>1. 1 \in 1..Len(s) + 1 /\ a \in 1 - 1..Len(s) /\ b \in a..Len(s)
    BY <1>1
  <2> QED  BY <2>1, ConcatAdjacentSubSeq
<1> QED  BY <1>3, <1>4, <1>5, <1>6, <1>7

LEMMA OneMorePart ==
  ASSUME NEW T, NEW s \in Seq(T), NEW n \in 0..Len(s), n < Len(s)
  PROVE  /\ SubSeq(s, 1, n) \in Seq(T) /\ s[n + 1] \in T
         /\ SubSeq(s, 1, n + 1) = Append(SubSeq(s, 1, n), s[n + 1])
<1>1. Len(s) \in Nat /\ n + 1 \in 1..Len(s) /\ DOMAIN s = 1..Len(s)
  BY LenProperties
<1>2. SubSeq(s, 1, n) \in Seq(T) /\ Len(SubSeq(s, 1, n)) = n /\ \A i \in 1..n : SubSeq(s, 1, n)[i] = s[i]
  <2>1. \A i \in 1..n : s[i] \in T
    BY <1>1
  <2>2. SubSeq(s, 1, n) = [i \in 1..n |-> s[i]]
    BY <1>1
  <2> QED  BY <2>1, <2>2
<1>3. SubSeq(s, 1, n + 1) = [i \in 1..(n + 1) |-> s[i]]
  BY <1>1
<1>4. s[n + 1] \in T
  BY <1>1
<1>5. Append(SubSeq(s, 1, n), s[n + 1]) = [i \in 1..(n + 1) |-> s[i]]
  BY <1>1, <1>2, <1>4
<1> QED  BY <1>2, <1>3, <1>4, <1>5

(* Sequences in order. *)
Ordered(seq, R) == \A i, j \in DOMAIN seq : i < j => <<seq[i], seq[j]>> \in R

(* What is in order, and stands in order, is in order when joined.         *)
LEMMA FlattenInOrder ==
  ASSUME NEW T, NEW ss \in Seq(Seq(T)), NEW R, \A k \in DOMAIN ss : Ordered(ss[k], R),
         \A k, l \in DOMAIN ss : k < l =>
           \A i \in DOMAIN ss[k], j \in DOMAIN ss[l] : <<ss[k][i], ss[l][j]>> \in R
  PROVE  Ordered(FlattenSeq(ss), R)
<1> DEFINE part(n) == SubSeq(ss, 1, n)
           flat(n) == FlattenSeq(part(n))
           OneOf(x, n) == \E k \in 1..n : \E i \in DOMAIN ss[k] : x = ss[k][i]
           S == {n \in 0..Len(ss) : Ordered(flat(n), R) /\ \A x \in DOMAIN flat(n) : OneOf(flat(n)[x], n)}
<1>0. Len(ss) \in Nat /\ DOMAIN ss = 1..Len(ss)
  BY LenProperties
<1>1. 0 \in S
  <2>1. part(0) = <<>>
    BY <1>0
  <2>2. <<>> \in Seq(T) /\ <<>> \in Seq(Seq(T))
    OBVIOUS
  <2>3. flat(0) = <<>>
    BY <2>1, <2>2, FlattenGrows
  <2> QED  BY <1>0, <2>3 DEF Ordered
<1>2. ASSUME NEW n \in 0..Len(ss), n \in S, n < Len(ss)  PROVE n + 1 \in S
  <2>1. /\ part(n) \in Seq(Seq(T)) /\ ss[n + 1] \in Seq(T)
        /\ part(n + 1) = Append(part(n), ss[n + 1])
    BY <1>2, OneMorePart
  <2>2. PICK f \in Seq(T), s \in Seq(T), g \in Seq(T) :
          f = flat(n) /\ s = ss[n + 1] /\ g = flat(n + 1) /\ g = f \o s
    <3>1. PICK q \in Seq(Seq(T)), s \in Seq(T) : q = part(n) /\ s = ss[n + 1] /\ part(n + 1) = Append(q, s)
      BY <2>1
    <3> HIDE DEF part
    <3>2. FlattenSeq(q) \in Seq(T) /\ FlattenSeq(Append(q, s)) = FlattenSeq(q) \o s
      BY FlattenGrows
    <3>3. FlattenSeq(q) \o s \in Seq(T)
      BY <3>2, ConcatProperties
    <3> QED  BY <3>1, <3>2, <3>3
  <2>3. PICK a \in Nat, b \in Nat : a = Len(f) /\ b = Len(s) /\ DOMAIN f = 1..a /\ DOMAIN s = 1..b
    BY LenProperties
  <2>4. DOMAIN g = 1..(a + b) /\ \A x \in 1..(a + b) : g[x] = IF x <= a THEN f[x] ELSE s[x - a]
    <3>1. /\ f \o s \in Seq(T) /\ Len(f \o s) = a + b
          /\ \A x \in 1..(a + b) : (f \o s)[x] = IF x <= a THEN f[x] ELSE s[x - a]
      BY <2>3, ConcatProperties
    <3>2. DOMAIN (f \o s) = 1..(a + b)
      BY <3>1, LenProperties
    <3> HIDE DEF flat, part
    <3> QED  BY <2>2, <3>1, <3>2
  <2>5. Ordered(f, R) /\ \A x \in 1..a : OneOf(f[x], n)
    BY <1>2, <2>2, <2>3
  <2> HIDE DEF flat, part
  <2>6. n + 1 \in DOMAIN ss /\ Ordered(s, R)
    <3>1. n < Len(ss) /\ n + 1 \in 1..Len(ss)
      BY <1>0, <1>2
    <3>2. n + 1 \in DOMAIN ss
      BY <1>0, <3>1
    <3> QED  BY <2>2, <3>2
  <2>7. ASSUME NEW x \in 1..(a + b), x > a  PROVE x - a \in 1..b /\ g[x] = s[x - a]
    BY <2>4, <2>7
  <2>8. ASSUME NEW i \in 1..(a + b), NEW j \in 1..(a + b), i < j  PROVE <<g[i], g[j]>> \in R
    <3>1. CASE j <= a
      <4>1. i \in 1..a /\ j \in 1..a /\ i <= a
        BY <2>8, <3>1
      <4>2. g[i] = f[i] /\ g[j] = f[j]
        BY <2>4, <3>1, <4>1
      <4> QED  BY <2>3, <2>5, <2>8, <4>1, <4>2 DEF Ordered
    <3>2. CASE i > a
      <4>1. j > a /\ i - a < j - a
        BY <2>8, <3>2
      <4>2. i - a \in 1..b /\ g[i] = s[i - a] /\ j - a \in 1..b /\ g[j] = s[j - a]
        BY <2>7, <3>2, <4>1
      <4> QED  BY <2>3, <2>6, <4>1, <4>2 DEF Ordered
    <3>3. CASE i <= a /\ j > a
      <4>1. i \in 1..a /\ g[i] = f[i] /\ j - a \in 1..b /\ g[j] = s[j - a]
        BY <2>4, <2>7, <3>3
      <4>2. PICK k \in 1..n : \E y \in DOMAIN ss[k] : f[i] = ss[k][y]
        BY <2>5, <4>1
      <4>3. PICK y \in DOMAIN ss[k] : f[i] = ss[k][y]
        BY <4>2
      <4>4. k \in DOMAIN ss /\ k < n + 1 /\ j - a \in DOMAIN ss[n + 1]
        <5>1. k < n + 1 /\ k \in 1..Len(ss)
          BY <1>0
        <5> QED  BY <1>0, <2>2, <2>3, <4>1, <5>1
      <4> QED  BY <2>2, <2>6, <4>1, <4>3, <4>4
    <3> QED  BY <2>3, <3>1, <3>2, <3>3
  <2>9. ASSUME NEW x \in 1..(a + b)  PROVE OneOf(g[x], n + 1)
    <3>1. CASE x <= a
      <4>1. x \in 1..a /\ g[x] = f[x]
        BY <2>4, <3>1
      <4>2. PICK k \in 1..n : \E y \in DOMAIN ss[k] : f[x] = ss[k][y]
        BY <2>5, <4>1
      <4>3. k \in 1..(n + 1)
        BY <1>0, <1>2
      <4> QED  BY <4>1, <4>2, <4>3
    <3>2. CASE x > a
      <4>1. x - a \in DOMAIN ss[n + 1] /\ g[x] = ss[n + 1][x - a] /\ n + 1 \in 1..(n + 1)
        <5>1. x - a \in 1..b /\ g[x] = s[x - a]
          BY <2>7, <3>2
        <5>2. s = ss[n + 1] /\ n + 1 \in 1..(n + 1) /\ DOMAIN s = 1..b
          BY <1>2, <2>2, <2>3
        <5> QED  BY <5>1, <5>2
      <4> QED  BY <4>1
    <3> QED  BY <2>3, <3>1, <3>2
  <2>10. n + 1 \in 0..Len(ss)
    BY <1>0, <1>2
  <2>11. Ordered(g, R)
    BY <2>4, <2>8 DEF Ordered
  <2> HIDE DEF OneOf
  <2>12. \A x \in DOMAIN g : OneOf(g[x], n + 1)
    BY <2>4, <2>9
  <2> QED  BY <2>2, <2>10, <2>11, <2>12
<1>3. Len(ss) \in S
  <2> HIDE DEF S
  <2>1. 0..Len(ss) \subseteq S
    BY <1>0, <1>1, <1>2, Climbs
  <2> QED  BY <1>0, <2>1
<1>4. part(Len(ss)) = ss
  BY <1>0
<1> QED  BY <1>3, <1>4

(* One at a time. *)
Singles(segs) == [k \in DOMAIN segs |-> <<segs[k]>>]

LEMMA SinglesAre ==
  ASSUME NEW T, NEW segs \in Seq(T)
  PROVE  Singles(segs) \in Seq(Seq(T)) /\ DOMAIN Singles(segs) = DOMAIN segs /\ FlattenSeq(Singles(segs)) = segs
<1>1. PICK len \in Nat : len = Len(segs) /\ DOMAIN segs = 1..len
  BY LenProperties
<1>2. PICK ss : ss = Singles(segs)
  OBVIOUS
<1>3. ss \in Seq(Seq(T)) /\ Len(ss) = len /\ DOMAIN ss = 1..len /\ \A k \in 1..len : ss[k] = <<segs[k]>> /\ segs[k] \in T
  <2>1. \A k \in 1..len : segs[k] \in T
    BY <1>1
  <2>2. PICK U : U = Seq(T)
    OBVIOUS
  <2>3. \A k \in 1..len : <<segs[k]>> \in U
    BY <2>1, <2>2
  <2>4. ss \in [1..len -> U]
    BY <1>1, <1>2, <2>3 DEF Singles
  <2>5. ss \in Seq(U) /\ Len(ss) = len /\ DOMAIN ss = 1..len
    BY <2>4
  <2>6. \A k \in 1..len : ss[k] = <<segs[k]>>
    BY <1>1, <1>2 DEF Singles
  <2> QED  BY <2>1, <2>2, <2>5, <2>6
<1> DEFINE S == {k \in 0..len : FlattenSeq(SubSeq(ss, 1, k)) = SubSeq(segs, 1, k)}
<1>4. 0 \in S
  <2>1. SubSeq(ss, 1, 0) = <<>> /\ SubSeq(segs, 1, 0) = <<>>
    BY SubSeqEmpty
  <2>2. <<>> \in Seq(T) /\ <<>> \in Seq(Seq(T))
    OBVIOUS
  <2>3. FlattenSeq(<<>>) = <<>>
    BY <2>2, FlattenGrows
  <2>4. 0 \in 0..len
    OBVIOUS
  <2>5. PICK a, b : a = SubSeq(ss, 1, 0) /\ b = SubSeq(segs, 1, 0)
    OBVIOUS
  <2>6. FlattenSeq(a) = b
    BY <2>1, <2>3, <2>5
  <2> QED  BY <2>4, <2>5, <2>6
<1>5. ASSUME NEW k \in 0..len, k \in S, k < len  PROVE k + 1 \in S
  <2>1. k + 1 \in 1..len
    BY <1>5
  <2>2. PICK p \in Seq(Seq(T)), x \in Seq(T) :
          p = SubSeq(ss, 1, k) /\ x = ss[k + 1] /\ SubSeq(ss, 1, k + 1) = Append(p, x)
    <3>1. k \in 0..Len(ss) /\ k < Len(ss)
      BY <1>3, <1>5
    <3> QED  BY <1>3, <3>1, OneMorePart
  <2>3. PICK q \in Seq(T), y \in T :
          q = SubSeq(segs, 1, k) /\ y = segs[k + 1] /\ SubSeq(segs, 1, k + 1) = Append(q, y)
    <3>1. k \in 0..Len(segs) /\ k < Len(segs)
      BY <1>1, <1>5
    <3> QED  BY <3>1, OneMorePart
  <2>4. x = <<y>>
    BY <1>3, <2>1, <2>2, <2>3
  <2>5. FlattenSeq(Append(p, x)) = FlattenSeq(p) \o x
    BY FlattenGrows
  <2>6. Append(q, y) = q \o <<y>>
    BY AppendIsConcat
  <2>7. FlattenSeq(p) = q
    BY <1>5, <2>2, <2>3
  <2>8. FlattenSeq(SubSeq(ss, 1, k + 1)) = SubSeq(segs, 1, k + 1)
    BY <2>2, <2>3, <2>4, <2>5, <2>6, <2>7
  <2> QED  BY <2>1, <2>8
<1>6. len \in S
  <2> HIDE DEF S
  <2>1. 0..len \subseteq S
    BY <1>4, <1>5, Climbs
  <2> QED  BY <2>1
<1>7. SubSeq(ss, 1, len) = ss /\ SubSeq(segs, 1, len) = segs
  BY <1>1, <1>3, SubSeqFull
<1> QED  BY <1>1, <1>2, <1>3, <1>6, <1>7
=============================================================================
