--------------------------- MODULE YotoShareProofs ---------------------------
(***************************************************************************)
(* Theorems about YotoShare, for any library, limits, slots and threads.   *)
(*                                                                         *)
(* First what a plan is, whatever the file: its tracks are pieces that     *)
(* follow each other, and its cards are rows of them.  Then what is cut    *)
(* and sent by a plan, where it matters only which versions of the files   *)
(* it is the plan of.                                                      *)
(***************************************************************************)
EXTENDS YotoShare, SublistProofs, FiniteSetTheorems, TLAPS

(* Whole numbers: what a division to the unit below is.                    *)
LEMMA DivIs ==
  ASSUME NEW a \in Nat, NEW n \in Nat \ {0}
  PROVE  a \div n \in Nat /\ n * (a \div n) <= a /\ a < n * (a \div n) + n
OBVIOUS

LEMMA DivAtMost ==
  ASSUME NEW a \in Nat, NEW n \in Nat \ {0}, NEW q \in Nat, a < n * q + n
  PROVE  a \div n <= q
<1>1. a \div n \in Nat /\ n * (a \div n) <= a
  BY DivIs
<1>2. PICK d \in Nat : d = a \div n
  BY <1>1
<1> SUFFICES ASSUME q < d PROVE FALSE
  BY <1>2
<1>3. n * (q + 1) <= n * d
  <2>1. PICK x \in Nat : d = q + 1 + x
    BY <1>2
  <2>2. n * d = n * (q + 1) + n * x /\ n * x \in Nat
    BY <2>1
  <2> QED  BY <2>2
<1>4. n * (q + 1) = n * q + n
  OBVIOUS
<1> QED  BY <1>1, <1>2, <1>3, <1>4

LEMMA DivAtLeast ==
  ASSUME NEW a \in Nat, NEW n \in Nat \ {0}, NEW q \in Nat, n * q <= a
  PROVE  q <= a \div n
<1>1. a \div n \in Nat /\ a < n * (a \div n) + n
  BY DivIs
<1>2. PICK d \in Nat : d = a \div n
  BY <1>1
<1> SUFFICES ASSUME d < q PROVE FALSE
  BY <1>2
<1>3. n * (d + 1) <= n * q
  <2>1. PICK x \in Nat : q = d + 1 + x
    BY <1>2
  <2>2. n * q = n * (d + 1) + n * x /\ n * x \in Nat
    BY <2>1
  <2> QED  BY <2>2
<1>4. n * (d + 1) = n * d + n
  OBVIOUS
<1> QED  BY <1>1, <1>2, <1>3, <1>4

LEMMA TimesGrows ==
  ASSUME NEW a \in Nat, NEW b \in Nat, NEW n \in Nat, a <= b
  PROVE  a * n \in Nat /\ a * n <= b * n /\ n * a = a * n
<1>1. PICK x \in Nat : b = a + x
  OBVIOUS
<1>2. b * n = a * n + x * n /\ x * n \in Nat /\ a * n \in Nat
  BY <1>1
<1> QED  BY <1>2

LEMMA DivGrows ==
  ASSUME NEW a \in Nat, NEW b \in Nat, NEW n \in Nat \ {0}, a <= b
  PROVE  a \div n <= b \div n
<1>1. a \div n \in Nat /\ n * (a \div n) <= b
  BY DivIs
<1> QED  BY <1>1, DivAtLeast

(* As many as are needed.                                                  *)
LEMMA CeilCovers ==
  ASSUME NEW a \in Nat, NEW b \in Nat \ {0}
  PROVE  CeilDiv(a, b) \in Nat \ {0} /\ a <= b * CeilDiv(a, b)
<1>1. PICK q \in Nat : q = (a + b - 1) \div b /\ a + b - 1 < b * q + b
  <2>1. a + b - 1 \in Nat
    OBVIOUS
  <2> QED  BY <2>1, DivIs
<1>2. CeilDiv(a, b) \in Nat \ {0} /\ q <= CeilDiv(a, b)
  BY <1>1 DEF CeilDiv, Greatest
<1>3. b * q <= b * CeilDiv(a, b)
  BY <1>2, TimesGrows
<1>4. b * q \in Nat /\ b * CeilDiv(a, b) \in Nat
  BY <1>2
<1> QED  BY <1>1, <1>2, <1>3, <1>4
-----------------------------------------------------------------------------
(* A segment is cut in equal parts, at whole units.                        *)
LEMMA EqualParts ==
  ASSUME NEW d \in Nat, NEW n \in Nat \ {0}
  PROVE  /\ \A p \in 0..n : (p * d) \div n \in 0..d
         /\ \A p, r \in 0..n : p <= r => (p * d) \div n <= (r * d) \div n
         /\ (0 * d) \div n = 0 /\ (n * d) \div n = d
         /\ \A q \in Nat : d <= n * q => \A p \in 1..n : (p * d) \div n - ((p - 1) * d) \div n <= q
<1>1. ASSUME NEW p \in 0..n, NEW r \in 0..n, p <= r
      PROVE  p * d \in Nat /\ r * d \in Nat /\ (p * d) \div n <= (r * d) \div n
  <2>1. p * d \in Nat /\ r * d \in Nat /\ p * d <= r * d
    BY <1>1, TimesGrows
  <2> QED  BY <2>1, DivGrows
<1>2. n * d \in Nat /\ (n * d) \div n = d
  <2>1. n * d \in Nat /\ n * d < n * d + n
    OBVIOUS
  <2>2. (n * d) \div n <= d /\ d <= (n * d) \div n /\ (n * d) \div n \in Nat
    BY <2>1, DivAtMost, DivAtLeast, DivIs
  <2> QED  BY <2>1, <2>2
<1>3. ASSUME NEW p \in 0..n  PROVE (p * d) \div n \in 0..d
  <2>1. (p * d) \div n \in Nat
    BY <1>1, DivIs
  <2>2. (p * d) \div n <= (n * d) \div n
    BY <1>1
  <2> QED  BY <1>2, <2>1, <2>2
<1>4. (0 * d) \div n = 0
  <2>1. 0 * d = 0 /\ 0 < n * 0 + n
    OBVIOUS
  <2>2. 0 \div n <= 0 /\ 0 \div n \in Nat
    BY <2>1, DivAtMost, DivIs
  <2> QED  BY <2>1, <2>2
<1>5. ASSUME NEW q \in Nat, d <= n * q, NEW p \in 1..n
      PROVE  (p * d) \div n - ((p - 1) * d) \div n <= q
  <2>1. p - 1 \in 0..n /\ p \in 0..n
    OBVIOUS
  <2>2. PICK x \in Nat : x = ((p - 1) * d) \div n /\ (p - 1) * d < n * x + n
    BY <1>1, <2>1, DivIs
  <2>3. p * d = (p - 1) * d + d /\ n * (x + q) = n * x + n * q
    OBVIOUS
  <2>4. p * d \in Nat /\ (p - 1) * d \in Nat /\ n * x \in Nat /\ n * q \in Nat
    BY <1>1, <2>1
  <2>5. p * d < n * (x + q) + n
    BY <1>5, <2>2, <2>3, <2>4
  <2>6. (p * d) \div n <= x + q /\ (p * d) \div n \in Nat
    BY <2>4, <2>5, DivAtMost, DivIs
  <2> QED  BY <2>2, <2>6
<1> QED  BY <1>1, <1>2, <1>3, <1>4, <1>5
-----------------------------------------------------------------------------
(* Segments that go forward; those that are tracks; which come before which. *)
Forward == {s \in Segment : s.start <= s.end}
Piece(bytes) == {s \in Forward : Duration(s) <= TrackTime /\ Bytes(s) <= bytes}
Precedes == {p \in Segment \X Segment : Follows(p[1], p[2])}
Within(s, seg) == s.of = seg.of /\ s.rate = seg.rate /\ seg.start <= s.start /\ s.end <= seg.end
Parts(seg) == {s \in Forward : Within(s, seg)}

LEMMA DurationIs ==
  ASSUME NEW s \in Segment
  PROVE  /\ s.of \in Nat /\ s.start \in Nat /\ s.end \in Nat /\ s.rate \in Nat /\ Duration(s) \in Int
         /\ s.start <= s.end => Duration(s) \in Nat /\ Bytes(s) \in Nat
<1>1. s.of \in Nat /\ s.start \in Nat /\ s.end \in Nat /\ s.rate \in Nat /\ Duration(s) \in Int
  BY DEF Segment, Duration
<1>2. ASSUME s.start <= s.end  PROVE Duration(s) \in Nat /\ Bytes(s) \in Nat
  <2>1. Duration(s) \in Nat
    BY <1>1, <1>2 DEF Duration
  <2> QED  BY <1>1, <2>1, TimesGrows DEF Bytes
<1> QED  BY <1>1, <1>2

(* What a segment is divided into: parts that follow each other, and no    *)
(* longer or larger than a track where the limit is worth whole units.     *)
LEMMA PartsAre ==
  ASSUME NEW seg \in Forward, NEW bytes \in Nat \ {0}
  PROVE  /\ Subdivide(seg, bytes) \in Seq(Parts(seg)) /\ Ordered(Subdivide(seg, bytes), Precedes)
         /\ \A m \in Nat \ {0} : bytes = m * seg.rate => Subdivide(seg, bytes) \in Seq(Piece(bytes))
<1>1. seg \in Segment /\ seg.start \in Nat /\ seg.end \in Nat /\ Duration(seg) \in Nat /\ Bytes(seg) \in Nat
      /\ seg.rate \in Nat /\ seg.of \in Nat
  BY DurationIs DEF Forward
<1>2. PICK d \in Nat, b \in Nat, n \in Nat \ {0} :
        /\ d = Duration(seg) /\ b = Bytes(seg) /\ n = PartsOf(seg, bytes)
        /\ d <= TrackTime * n /\ b <= bytes * n
  <2>1. TrackTime \in Nat \ {0}
    BY LimitsAssumption
  <2>2. PICK x \in Nat \ {0} : x = CeilDiv(Duration(seg), TrackTime) /\ Duration(seg) <= TrackTime * x
    BY <1>1, <2>1, CeilCovers
  <2>3. PICK y \in Nat \ {0} : y = CeilDiv(Bytes(seg), bytes) /\ Bytes(seg) <= bytes * y
    BY <1>1, CeilCovers
  <2>4. PICK n \in Nat \ {0} : n = PartsOf(seg, bytes) /\ x <= n /\ y <= n
    BY <2>2, <2>3 DEF PartsOf, Greatest
  <2>5. TrackTime * x \in Nat /\ TrackTime * n \in Nat /\ TrackTime * x <= TrackTime * n
    BY <2>1, <2>4, TimesGrows
  <2>6. bytes * y \in Nat /\ bytes * n \in Nat /\ bytes * y <= bytes * n
    BY <2>4, TimesGrows
  <2> QED  BY <1>1, <2>2, <2>3, <2>4, <2>5, <2>6
<1> DEFINE at(p) == seg.start + (p * d) \div n
           part(p) == [seg EXCEPT !.start = at(p - 1), !.end = at(p)]
<1>3. Subdivide(seg, bytes) = [p \in 1..n |-> part(p)]
  BY <1>2 DEF Subdivide
<1>4. /\ \A p \in 0..n : at(p) \in Nat /\ seg.start <= at(p) /\ at(p) <= seg.end
      /\ \A p, r \in 0..n : p <= r => at(p) <= at(r)
      /\ \A q \in Nat : d <= n * q => \A p \in 1..n : at(p) - at(p - 1) <= q
  <2>1. d = seg.end - seg.start
    BY <1>2 DEF Duration
  <2>2. \A p \in 0..n : (p * d) \div n \in 0..d
    BY EqualParts
  <2>3. \A p \in 0..n : at(p) \in Nat /\ seg.start <= at(p) /\ at(p) <= seg.end
    BY <1>1, <2>1, <2>2
  <2>4. \A p, r \in 0..n : p <= r => at(p) <= at(r)
    <3>1. \A p, r \in 0..n : p <= r => (p * d) \div n <= (r * d) \div n
      BY EqualParts
    <3> QED  BY <1>1, <2>2, <3>1
  <2>5. ASSUME NEW q \in Nat, d <= n * q, NEW p \in 1..n  PROVE at(p) - at(p - 1) <= q
    <3>1. (p * d) \div n - ((p - 1) * d) \div n <= q
      BY <2>5, EqualParts
    <3>2. (p * d) \div n \in 0..d /\ ((p - 1) * d) \div n \in 0..d
      BY <2>2
    <3> QED  BY <1>1, <3>1, <3>2
  <2> QED  BY <2>3, <2>4, <2>5
<1> HIDE DEF at
<1>5. ASSUME NEW p \in 1..n
      PROVE  /\ part(p) \in Segment /\ part(p).of = seg.of /\ part(p).rate = seg.rate
             /\ part(p).start = at(p - 1) /\ part(p).end = at(p) /\ part(p) \in Parts(seg)
  <2>1. p - 1 \in 0..n /\ p \in 0..n /\ p - 1 <= p
    OBVIOUS
  <2>2. at(p - 1) \in Nat /\ at(p) \in Nat /\ seg.start <= at(p - 1) /\ at(p) <= seg.end /\ at(p - 1) <= at(p)
    BY <1>4, <2>1
  <2>3. part(p) \in Segment /\ part(p).of = seg.of /\ part(p).rate = seg.rate
        /\ part(p).start = at(p - 1) /\ part(p).end = at(p)
    BY <1>1, <2>2 DEF Segment
  <2> QED  BY <2>2, <2>3 DEF Parts, Forward, Within
<1> HIDE DEF part
<1>6. Subdivide(seg, bytes) \in Seq(Parts(seg)) /\ DOMAIN Subdivide(seg, bytes) = 1..n
  BY <1>3, <1>5
<1>7. Ordered(Subdivide(seg, bytes), Precedes)
  <2>1. ASSUME NEW i \in 1..n, NEW j \in 1..n, i < j  PROVE <<part(i), part(j)>> \in Precedes
    <3>1. i \in 0..n /\ j - 1 \in 0..n /\ i <= j - 1
      BY <2>1
    <3>2. part(i).end <= part(j).start
      BY <1>4, <1>5, <3>1
    <3> QED  BY <1>5, <3>2 DEF Precedes, Follows
  <2> QED  BY <1>3, <2>1 DEF Ordered
<1>8. ASSUME NEW m \in Nat \ {0}, bytes = m * seg.rate  PROVE Subdivide(seg, bytes) \in Seq(Piece(bytes))
  <2>1. seg.rate \in Nat \ {0}
    BY <1>1, <1>8
  <2>2. d <= n * m
    <3>1. PICK r \in Nat \ {0} : r = seg.rate
      BY <2>1
    <3>2. d * r <= (n * m) * r
      <4>1. b = d * r
        BY <1>2, <3>1 DEF Bytes
      <4>2. bytes * n = (n * m) * r
        BY <1>8, <3>1
      <4> QED  BY <1>2, <4>1, <4>2
    <3>3. n * m \in Nat
      OBVIOUS
    <3>4. PICK k \in Nat : k = n * m
      BY <3>3
    <3>5. ~(k < d)
      <4> SUFFICES ASSUME k < d PROVE FALSE
        OBVIOUS
      <4>1. k + 1 \in Nat /\ k + 1 <= d
        OBVIOUS
      <4>2. (k + 1) * r <= d * r
        BY <4>1, TimesGrows
      <4>3. (k + 1) * r = k * r + r /\ k * r \in Nat
        OBVIOUS
      <4> QED  BY <3>2, <3>4, <4>2, <4>3
    <3> QED  BY <3>4, <3>5
  <2>3. TrackTime \in Nat /\ d <= n * TrackTime
    <3>1. TrackTime \in Nat
      BY LimitsAssumption
    <3>2. TrackTime * n = n * TrackTime
      BY <3>1
    <3> QED  BY <1>2, <3>1, <3>2
  <2>4. ASSUME NEW p \in 1..n  PROVE part(p) \in Piece(bytes)
    <3>1. part(p) \in Forward
      BY <1>5 DEF Parts
    <3>2. Duration(part(p)) <= TrackTime /\ Duration(part(p)) <= m /\ Duration(part(p)) \in Nat
      <4>1. at(p) - at(p - 1) <= TrackTime /\ at(p) - at(p - 1) <= m
        BY <1>4, <2>2, <2>3
      <4>2. Duration(part(p)) = at(p) - at(p - 1)
        BY <1>5 DEF Duration
      <4>3. Duration(part(p)) \in Nat
        BY <3>1, DurationIs DEF Forward
      <4> QED  BY <4>1, <4>2, <4>3
    <3>3. Bytes(part(p)) <= bytes
      <4>1. Duration(part(p)) * seg.rate <= m * seg.rate
        BY <1>1, <3>2, TimesGrows
      <4> QED  BY <1>5, <1>8, <4>1 DEF Bytes
    <3> QED  BY <3>1, <3>2, <3>3 DEF Piece
  <2> QED  BY <1>3, <2>4
<1> QED  BY <1>6, <1>7, <1>8

OfFile(file, k) == {s \in Forward : s.of = k /\ s.rate = file.rate}

LEMMA SourceIs ==
  ASSUME NEW file \in Source
  PROVE  /\ file.time \in Nat \ {0} /\ file.rate \in Nat \ {0} /\ file.chapters \in Seq([start : Nat, end : Nat])
         /\ \A n \in DOMAIN file.chapters : file.chapters[n].start \in Nat /\ file.chapters[n].end \in Nat
<1>1. file.time \in Nat \ {0} /\ file.rate \in Nat \ {0} /\ file.chapters \in Seq([start : Nat, end : Nat])
  BY DEF Source
<1>2. \A n \in DOMAIN file.chapters : file.chapters[n] \in [start : Nat, end : Nat]
  <2>1. PICK chapters \in Seq([start : Nat, end : Nat]) : chapters = file.chapters
    BY <1>1
  <2>2. \A n \in 1..Len(chapters) : chapters[n] \in [start : Nat, end : Nat]
    BY ElementOfSeq
  <2>3. DOMAIN chapters = 1..Len(chapters)
    BY LenProperties
  <2> QED  BY <2>1, <2>2, <2>3
<1> QED  BY <1>1, <1>2

(* The chapters of a file go forward, and follow each other as they do in  *)
(* the file.                                                               *)
LEMMA ChaptersAre ==
  ASSUME NEW file \in Source, NEW k \in Nat
  PROVE  /\ Chapters(file, k) \in Seq(OfFile(file, k))
         /\ InOrder(file.chapters) => Ordered(Chapters(file, k), Precedes)
<1> DEFINE cut(ch) == [of |-> k, start |-> ch.start, end |-> Smallest(ch.end, file.time), rate |-> file.rate]
           all == [n \in DOMAIN file.chapters |-> cut(file.chapters[n])]
           good == {i \in DOMAIN all : Usable(all[i])}
<1>1. PICK len \in Nat : len = Len(file.chapters) /\ DOMAIN file.chapters = 1..len
  BY SourceIs, LenProperties
<1>2. Chapters(file, k) = Sublist(all, good)
  BY DEF Chapters, Keep
<1>3. ASSUME NEW n \in 1..len
      PROVE  /\ all[n] \in Segment /\ all[n].of = k /\ all[n].rate = file.rate
             /\ all[n].start = file.chapters[n].start /\ all[n].end <= file.chapters[n].end
             /\ all[n].end \in Nat /\ all[n].start \in Nat
  <2>1. file.chapters[n].start \in Nat /\ file.chapters[n].end \in Nat /\ file.time \in Nat /\ file.rate \in Nat
    BY <1>1, SourceIs
  <2>2. PICK e \in Nat : e = Smallest(file.chapters[n].end, file.time) /\ e <= file.chapters[n].end
    BY <2>1 DEF Smallest
  <2>3. all[n] = [of |-> k, start |-> file.chapters[n].start, end |-> e, rate |-> file.rate]
    BY <1>1, <2>2
  <2> QED  BY <2>1, <2>2, <2>3 DEF Segment
<1>4. DOMAIN all = 1..len
  BY <1>1
<1> HIDE DEF all
<1>5. PICK P \in SUBSET (1..len) : P = good
  BY <1>4
<1>6. \A i \in P : all[i] \in OfFile(file, k)
  <2>1. ASSUME NEW i \in P  PROVE all[i] \in OfFile(file, k)
    <3>1. Duration(all[i]) >= Sliver /\ Sliver \in Nat /\ i \in 1..len
      BY <1>4, <1>5, LimitsAssumption DEF Usable
    <3>2. all[i].start <= all[i].end
      BY <1>3, <3>1 DEF Duration
    <3> QED  BY <1>3, <3>1, <3>2 DEF OfFile, Forward
  <2> QED  BY <2>1
<1>7. Sublist(all, P) \in Seq(OfFile(file, k))
  BY <1>6, SublistHas
<1>8. ASSUME InOrder(file.chapters)  PROVE Ordered(Sublist(all, P), Precedes)
  <2>1. /\ DOMAIN Sublist(all, P) = 1..Cardinality(P)
        /\ \A n \in 1..Cardinality(P) : /\ Sorted(P)[n] \in P /\ Rank(P, Sorted(P)[n]) = n
                                        /\ Sublist(all, P)[n] = all[Sorted(P)[n]]
    <3>1. /\ DOMAIN Sublist(all, P) = 1..Cardinality(P)
          /\ \A n \in 1..Cardinality(P) : Sorted(P)[n] \in P /\ Sublist(all, P)[n] = all[Sorted(P)[n]]
      BY SublistAt
    <3>2. \A n \in 1..Cardinality(P) : Rank(P, Sorted(P)[n]) = n
      BY SortedPlaces
    <3> QED  BY <3>1, <3>2
  <2>2. ASSUME NEW i \in 1..Cardinality(P), NEW j \in 1..Cardinality(P), i < j
        PROVE  <<Sublist(all, P)[i], Sublist(all, P)[j]>> \in Precedes
    <3>1. PICK p \in P, q \in P : p = Sorted(P)[i] /\ q = Sorted(P)[j] /\ Rank(P, p) = i /\ Rank(P, q) = j
      BY <2>1
    <3>2. p < q
      <4>1. q < p => Rank(P, q) < Rank(P, p)
        BY RankGrows
      <4>2. p \in Nat /\ q \in Nat /\ p # q
        BY <2>2, <3>1
      <4> QED  BY <2>2, <3>1, <4>1, <4>2
    <3>3. all[p].end <= all[q].start
      <4>1. file.chapters[p].end <= file.chapters[q].start
        BY <1>1, <1>8, <3>2 DEF InOrder
      <4>2. file.chapters[p].end \in Nat
        BY <1>1, SourceIs
      <4> QED  BY <1>3, <4>1, <4>2
    <3>4. <<all[p], all[q]>> \in Precedes
      BY <1>3, <3>3 DEF Precedes, Follows
    <3> QED  BY <2>1, <3>1, <3>4
  <2> QED  BY <2>1, <2>2 DEF Ordered
<1> QED  BY <1>2, <1>5, <1>7, <1>8

LEMMA SlicesAre ==
  ASSUME NEW file \in Source, NEW k \in Nat
  PROVE  Slices(file, k) \in Seq(OfFile(file, k)) /\ Ordered(Slices(file, k), Precedes)
<1>1. SliceTime \in Nat \ {0}
  BY LimitsAssumption
<1>2. PICK t \in Nat \ {0}, r \in Nat, n \in Nat \ {0} :
        t = file.time /\ r = file.rate /\ n = CeilDiv(file.time, SliceTime)
  BY <1>1, SourceIs, CeilCovers
<1>3. SliceTime * (n - 1) <= t
  <2>1. PICK q \in Nat : q = (t + SliceTime - 1) \div SliceTime /\ SliceTime * q <= t + SliceTime - 1
    <3>1. t + SliceTime - 1 \in Nat
      BY <1>1
    <3> QED  BY <1>1, <3>1, DivIs
  <2>2. n = 1 \/ n = q
    BY <1>2, <2>1 DEF CeilDiv, Greatest
  <2>3. SliceTime * q = SliceTime * (q - 1) + SliceTime
    BY <1>1
  <2>4. SliceTime * (1 - 1) = 0 /\ SliceTime * (q - 1) \in Int
    BY <1>1
  <2> QED  BY <1>1, <1>2, <2>1, <2>2, <2>3, <2>4
<1> DEFINE slice(m) == [of |-> k, start |-> (m - 1) * SliceTime, end |-> Smallest(m * SliceTime, t), rate |-> r]
<1>4. Slices(file, k) = [m \in 1..n |-> slice(m)]
  BY <1>2 DEF Slices
<1>5. ASSUME NEW m \in 1..n
      PROVE  /\ slice(m) \in OfFile(file, k) /\ slice(m) \in Segment /\ slice(m).of = k
             /\ slice(m).start = (m - 1) * SliceTime /\ slice(m).end <= m * SliceTime
             /\ m * SliceTime \in Nat /\ slice(m).end \in Nat
  <2>1. (m - 1) * SliceTime \in Nat /\ m * SliceTime \in Nat /\ (m - 1) * SliceTime <= (n - 1) * SliceTime
        /\ (n - 1) * SliceTime \in Nat
    <3>1. m - 1 \in Nat /\ n - 1 \in Nat /\ m - 1 <= n - 1 /\ m \in Nat
      OBVIOUS
    <3> QED  BY <1>1, <3>1, TimesGrows
  <2>2. (n - 1) * SliceTime <= t
    <3>1. (n - 1) * SliceTime = SliceTime * (n - 1)
      BY <1>1
    <3> QED  BY <1>3, <3>1
  <2>3. (m - 1) * SliceTime <= m * SliceTime
    <3>1. m - 1 \in Nat /\ m \in Nat /\ m - 1 <= m
      OBVIOUS
    <3> QED  BY <1>1, <3>1, TimesGrows
  <2>4. PICK x \in Nat, y \in Nat, z \in Nat :
          /\ x = (m - 1) * SliceTime /\ y = m * SliceTime /\ z = Smallest(y, t)
          /\ x <= z /\ z <= y
    BY <2>1, <2>2, <2>3 DEF Smallest
  <2>5. slice(m) = [of |-> k, start |-> x, end |-> z, rate |-> r]
    BY <2>4
  <2>6. slice(m) \in Segment
    BY <2>5 DEF Segment
  <2> QED  BY <1>2, <2>4, <2>5, <2>6 DEF OfFile, Forward
<1>6. Slices(file, k) \in Seq(OfFile(file, k))
  <2> HIDE DEF slice
  <2> QED  BY <1>4, <1>5
<1>7. ASSUME NEW i \in 1..n, NEW j \in 1..n, i < j  PROVE <<slice(i), slice(j)>> \in Precedes
  <2>1. i * SliceTime <= (j - 1) * SliceTime
    <3>1. i \in Nat /\ j - 1 \in Nat /\ i <= j - 1
      BY <1>7
    <3> QED  BY <1>1, <3>1, TimesGrows
  <2>2. (j - 1) * SliceTime \in Nat
    <3>1. j - 1 \in Nat
      OBVIOUS
    <3> QED  BY <1>1, <3>1, TimesGrows
  <2> HIDE DEF slice
  <2>3. slice(i).end <= slice(j).start
    BY <1>5, <2>1, <2>2
  <2> QED  BY <1>5, <2>3 DEF Precedes, Follows
<1>8. Ordered(Slices(file, k), Precedes)
  <2> HIDE DEF slice
  <2> QED  BY <1>4, <1>7 DEF Ordered
<1> QED  BY <1>6, <1>8

(* The tracks a file is cut into.                                          *)
LEMMA SegmentsAre ==
  ASSUME NEW file \in Source, NEW k \in Nat, NEW bytes \in Nat \ {0}
  PROVE  /\ BuildSegments(file, k, bytes) \in Seq(OfFile(file, k))
         /\ InOrder(file.chapters) => Ordered(BuildSegments(file, k, bytes), Precedes)
         /\ WholeRate(file, bytes) => BuildSegments(file, k, bytes) \in Seq(Piece(bytes))
<1> DEFINE segs == IF Chapters(file, k) # <<>> THEN Chapters(file, k) ELSE Slices(file, k)
<1>1. PICK s \in Seq(OfFile(file, k)) :
        s = segs /\ (InOrder(file.chapters) => Ordered(s, Precedes))
  BY ChaptersAre, SlicesAre
<1>2. PICK len \in Nat : len = Len(s) /\ DOMAIN s = 1..len
  BY LenProperties
<1> DEFINE ss == [n \in 1..len |-> Subdivide(s[n], bytes)]
<1>3. BuildSegments(file, k, bytes) = FlattenSeq(ss)
  BY <1>1, <1>2 DEF BuildSegments
<1>4. ASSUME NEW n \in 1..len
      PROVE  /\ s[n] \in Forward /\ s[n].of = k /\ s[n].rate = file.rate
             /\ ss[n] \in Seq(Parts(s[n])) /\ Ordered(ss[n], Precedes)
             /\ ss[n] \in Seq(OfFile(file, k))
             /\ WholeRate(file, bytes) => ss[n] \in Seq(Piece(bytes))
  <2>1. s[n] \in Forward /\ s[n].of = k /\ s[n].rate = file.rate
    BY <1>2 DEF OfFile
  <2>2. PICK p \in Seq(Parts(s[n])) : p = Subdivide(s[n], bytes) /\ Ordered(p, Precedes)
    BY <2>1, PartsAre
  <2>3. WholeRate(file, bytes) => p \in Seq(Piece(bytes))
    BY <2>1, <2>2, PartsAre DEF WholeRate
  <2>4. p \in Seq(OfFile(file, k))
    <3>1. Parts(s[n]) \subseteq OfFile(file, k)
      BY <2>1 DEF Parts, Within, OfFile
    <3> QED  BY <3>1
  <2> QED  BY <2>1, <2>2, <2>3, <2>4
<1>5. ss \in Seq(Seq(OfFile(file, k))) /\ DOMAIN ss = 1..len
  <2>1. PICK T : T = Seq(OfFile(file, k))
    OBVIOUS
  <2>2. \A n \in 1..len : Subdivide(s[n], bytes) \in T
    BY <1>4, <2>1
  <2>3. ss \in [1..len -> T]
    BY <2>2
  <2> HIDE DEF ss
  <2>4. ss \in Seq(T) /\ DOMAIN ss = 1..len
    BY <2>3
  <2> QED  BY <2>1, <2>4
<1>6. FlattenSeq(ss) \in Seq(OfFile(file, k))
  <2> HIDE DEF ss
  <2>1. <<>> \in Seq(OfFile(file, k))
    OBVIOUS
  <2> QED  BY <1>5, <2>1, FlattenGrows
<1>7. ASSUME InOrder(file.chapters)  PROVE Ordered(FlattenSeq(ss), Precedes)
  <2>1. ASSUME NEW a \in 1..len, NEW b \in 1..len, a < b, NEW i \in DOMAIN ss[a], NEW j \in DOMAIN ss[b]
        PROVE  <<ss[a][i], ss[b][j]>> \in Precedes
    <3> HIDE DEF ss
    <3>1. ss[a][i] \in Parts(s[a]) /\ ss[b][j] \in Parts(s[b])
      <4>1. PICK x, y : x = ss[a] /\ y = ss[b]
        OBVIOUS
      <4>2. x \in Seq(Parts(s[a])) /\ y \in Seq(Parts(s[b]))
        BY <1>4, <4>1
      <4>3. x[i] \in Parts(s[a])
        BY <2>1, <4>1, <4>2, LenProperties, ElementOfSeq
      <4>4. y[j] \in Parts(s[b])
        BY <2>1, <4>1, <4>2, LenProperties, ElementOfSeq
      <4> QED  BY <4>1, <4>3, <4>4
    <3>2. <<s[a], s[b]>> \in Precedes
      BY <1>1, <1>2, <1>7, <2>1 DEF Ordered
    <3>3. s[a].of = k /\ s[b].of = k /\ s[a].end \in Nat /\ s[b].start \in Nat /\ s[a] \in Segment /\ s[b] \in Segment
      BY <1>4, DurationIs DEF Forward
    <3>4. s[a].end <= s[b].start
      BY <3>2, <3>3 DEF Precedes, Follows
    <3>5. PICK p \in Segment, q \in Segment : p = ss[a][i] /\ q = ss[b][j]
      BY <3>1 DEF Parts, Forward
    <3>6. p.of = k /\ q.of = k /\ p.end <= s[a].end /\ s[b].start <= q.start
      BY <3>1, <3>3, <3>5 DEF Parts, Within
    <3>7. p.end \in Nat /\ q.start \in Nat
      BY DurationIs
    <3>8. p.end <= q.start
      BY <3>3, <3>4, <3>6, <3>7
    <3> QED  BY <3>5, <3>6, <3>8 DEF Precedes, Follows
  <2> HIDE DEF ss
  <2>2. \A n \in DOMAIN ss : Ordered(ss[n], Precedes)
    BY <1>4, <1>5
  <2> QED  BY <1>5, <2>1, <2>2, FlattenInOrder
<1>8. ASSUME WholeRate(file, bytes)  PROVE FlattenSeq(ss) \in Seq(Piece(bytes))
  <2>1. ss = [n \in 1..len |-> ss[n]]
    OBVIOUS
  <2> HIDE DEF ss
  <2>2. ss \in Seq(Seq(Piece(bytes)))
    BY <1>4, <1>8, <2>1
  <2>3. <<>> \in Seq(Piece(bytes))
    OBVIOUS
  <2> QED  BY <2>2, <2>3, FlattenGrows
<1> QED  BY <1>3, <1>6, <1>7, <1>8

LEMMA WholeIs ==
  ASSUME NEW file \in Source
  PROVE  Whole(file) \in Source /\ Whole(file).rate = file.rate /\ InOrder(Whole(file).chapters)
<1>1. file.time \in Nat \ {0}
  BY SourceIs
<1>2. PICK all : all = <<[start |-> 0, end |-> file.time]>>
  OBVIOUS
<1>3. all \in Seq([start : Nat, end : Nat]) /\ DOMAIN all = 1..1
  BY <1>1, <1>2
<1>4. Whole(file) = [file EXCEPT !.chapters = all]
  BY <1>2 DEF Whole
<1>5. Whole(file) \in Source /\ Whole(file).rate = file.rate /\ Whole(file).chapters = all
  BY <1>3, <1>4 DEF Source
<1>6. InOrder(all)
  BY <1>3 DEF InOrder
<1> QED  BY <1>5, <1>6

LEMMA ShareTracksAre ==
  ASSUME NEW files \in Seq(Source)
  PROVE  /\ ShareTracks(files) \in Seq(Forward)
         /\ ChaptersFollow(files) => Ordered(ShareTracks(files), Precedes)
         /\ RatesAreWhole(files, ShareTrackBytes) => ShareTracks(files) \in Seq(Piece(ShareTrackBytes))
<1>1. PICK len \in Nat : len = Len(files) /\ DOMAIN files = 1..len
  BY LenProperties
<1> DEFINE source(k) == IF files[k].chapters = <<>> /\ ~(Len(files) = 1) THEN Whole(files[k]) ELSE files[k]
           ss == [k \in 1..len |-> BuildSegments(source(k), k, ShareTrackBytes)]
<1>2. ShareTracks(files) = FlattenSeq(ss)
  BY <1>1 DEF ShareTracks
<1>3. PICK bytes \in Nat \ {0} : bytes = ShareTrackBytes
  BY LimitsAssumption
<1>4. ASSUME NEW k \in 1..len
      PROVE  /\ source(k) \in Source /\ source(k).rate = files[k].rate /\ k \in Nat
             /\ InOrder(files[k].chapters) => InOrder(source(k).chapters)
  <2>1. files[k] \in Source
    BY <1>1, ElementOfSeq
  <2> QED  BY <2>1, WholeIs
<1> HIDE DEF source
<1>5. ASSUME NEW k \in 1..len
      PROVE  /\ ss[k] \in Seq(Forward) /\ \A i \in DOMAIN ss[k] : ss[k][i] \in Segment /\ ss[k][i].of = k
             /\ InOrder(files[k].chapters) => Ordered(ss[k], Precedes)
             /\ WholeRate(files[k], bytes) => ss[k] \in Seq(Piece(bytes))
  <2>1. PICK s \in Seq(OfFile(source(k), k)) :
          /\ s = ss[k] /\ (InOrder(source(k).chapters) => Ordered(s, Precedes))
          /\ (WholeRate(source(k), bytes) => s \in Seq(Piece(bytes)))
    BY <1>3, <1>4, SegmentsAre
  <2>2. WholeRate(files[k], bytes) => WholeRate(source(k), bytes)
    BY <1>4 DEF WholeRate
  <2>3. s \in Seq(Forward)
    <3>1. OfFile(source(k), k) \subseteq Forward
      BY DEF OfFile
    <3> QED  BY <3>1
  <2>4. ASSUME NEW i \in DOMAIN s  PROVE s[i] \in Segment /\ s[i].of = k
    <3>1. s[i] \in OfFile(source(k), k)
      BY LenProperties, ElementOfSeq
    <3> QED  BY <3>1 DEF OfFile, Forward
  <2> QED  BY <1>4, <2>1, <2>2, <2>3, <2>4
<1>6. ss \in Seq(Seq(Forward)) /\ DOMAIN ss = 1..len
  <2>1. PICK T : T = Seq(Forward)
    OBVIOUS
  <2>2. \A n \in 1..len : BuildSegments(source(n), n, ShareTrackBytes) \in T
    BY <1>5, <2>1
  <2>3. ss \in [1..len -> T]
    BY <2>2
  <2> HIDE DEF ss
  <2>4. ss \in Seq(T) /\ DOMAIN ss = 1..len
    BY <2>3
  <2> QED  BY <2>1, <2>4
<1>7. FlattenSeq(ss) \in Seq(Forward)
  <2> HIDE DEF ss
  <2>1. <<>> \in Seq(Forward)
    OBVIOUS
  <2> QED  BY <1>6, <2>1, FlattenGrows
<1>8. ASSUME ChaptersFollow(files)  PROVE Ordered(FlattenSeq(ss), Precedes)
  <2> HIDE DEF ss
  <2>1. ASSUME NEW a \in 1..len, NEW b \in 1..len, a < b, NEW i \in DOMAIN ss[a], NEW j \in DOMAIN ss[b]
        PROVE  <<ss[a][i], ss[b][j]>> \in Precedes
    BY <1>5, <2>1 DEF Precedes, Follows
  <2>2. \A n \in DOMAIN ss : Ordered(ss[n], Precedes)
    BY <1>1, <1>5, <1>6, <1>8 DEF ChaptersFollow
  <2> QED  BY <1>6, <2>1, <2>2, FlattenInOrder
<1>9. ASSUME RatesAreWhole(files, bytes)  PROVE FlattenSeq(ss) \in Seq(Piece(bytes))
  <2>1. PICK T : T = Seq(Piece(bytes))
    OBVIOUS
  <2>2. \A n \in 1..len : BuildSegments(source(n), n, ShareTrackBytes) \in T
    BY <1>1, <1>5, <1>9, <2>1 DEF RatesAreWhole
  <2>3. ss \in [1..len -> T]
    BY <2>2
  <2> HIDE DEF ss
  <2>4. ss \in Seq(T)
    BY <2>3
  <2>5. <<>> \in Seq(Piece(bytes))
    OBVIOUS
  <2> QED  BY <2>1, <2>4, <2>5, FlattenGrows
<1> QED  BY <1>2, <1>3, <1>7, <1>8, <1>9
-----------------------------------------------------------------------------
SumsUp(f, n, seq) == f = [i \in 0..n |-> IF i = 0 THEN 0 ELSE f[i - 1] + seq[i]]

LEMMA SumsThere ==
  ASSUME NEW seq, NEW N \in Nat
  PROVE  \E f : SumsUp(f, N, seq)
<1> DEFINE S == {n \in 0..N : \E f : SumsUp(f, n, seq)}
<1>1. 0 \in S
  <2>1. SumsUp([i \in 0..0 |-> 0], 0, seq)
    BY DEF SumsUp
  <2> QED  BY <2>1
<1>2. ASSUME NEW n \in 0..N, n \in S, n < N  PROVE n + 1 \in S
  <2>1. PICK f : SumsUp(f, n, seq)
    BY <1>2
  <2> DEFINE g == [i \in 0..(n + 1) |-> IF i \in 0..n THEN f[i] ELSE f[i - 1] + seq[i]]
  <2>2. ASSUME NEW i \in 0..(n + 1)  PROVE g[i] = IF i = 0 THEN 0 ELSE g[i - 1] + seq[i]
    <3>1. CASE i = 0
      BY <2>1, <3>1 DEF SumsUp
    <3>2. CASE i \in 1..n
      <4>1. i - 1 \in 0..n /\ i \in 0..n /\ i # 0
        BY <3>2
      <4>2. f[i] = f[i - 1] + seq[i]
        BY <2>1, <4>1 DEF SumsUp
      <4>3. g[i] = f[i] /\ g[i - 1] = f[i - 1]
        BY <4>1
      <4> QED  BY <4>1, <4>2, <4>3
    <3>3. CASE i = n + 1
      <4>1. i - 1 \in 0..n /\ i \notin 0..n /\ i # 0
        BY <3>3
      <4>2. g[i] = f[i - 1] + seq[i] /\ g[i - 1] = f[i - 1]
        BY <4>1
      <4> QED  BY <4>1, <4>2
    <3> QED  BY <3>1, <3>2, <3>3
  <2>3. g = [i \in 0..(n + 1) |-> g[i]]
    OBVIOUS
  <2> HIDE DEF g
  <2>4. SumsUp(g, n + 1, seq)
    BY <2>2, <2>3 DEF SumsUp
  <2> QED  BY <1>2, <2>4
<1> HIDE DEF S
<1>3. N \in S
  BY <1>1, <1>2, Climbs
<1> QED  BY <1>3 DEF S

LEMMA SumsAre ==
  ASSUME NEW n \in Nat, NEW seq, Len(seq) = n, \A i \in 1..n : seq[i] \in Nat
  PROVE  /\ Sums(seq)[0] = 0
         /\ \A i \in 0..n : Sums(seq)[i] \in Nat
         /\ \A i \in 1..n : Sums(seq)[i] = Sums(seq)[i - 1] + seq[i]
         /\ \A i, j \in 0..n : i <= j => Sums(seq)[i] <= Sums(seq)[j]
<1> DEFINE sum[i \in 0..Len(seq)] == IF i = 0 THEN 0 ELSE sum[i - 1] + seq[i]
<1>1. Sums(seq) = sum
  BY DEF Sums
<1>2. \E f : f = [i \in 0..Len(seq) |-> IF i = 0 THEN 0 ELSE f[i - 1] + seq[i]]
  BY SumsThere DEF SumsUp
<1>3. sum = [i \in 0..Len(seq) |-> IF i = 0 THEN 0 ELSE sum[i - 1] + seq[i]]
  BY <1>2
<1> HIDE DEF sum
<1>4. PICK f : f = Sums(seq) /\ f = [i \in 0..n |-> IF i = 0 THEN 0 ELSE f[i - 1] + seq[i]]
  BY <1>1, <1>3
<1>5. f[0] = 0 /\ \A i \in 1..n : f[i] = f[i - 1] + seq[i]
  <2>1. ASSUME NEW i \in 0..n  PROVE f[i] = IF i = 0 THEN 0 ELSE f[i - 1] + seq[i]
    BY <1>4
  <2>2. f[0] = 0
    BY <2>1
  <2>3. ASSUME NEW i \in 1..n  PROVE f[i] = f[i - 1] + seq[i]
    <3>1. i \in 0..n /\ i # 0
      OBVIOUS
    <3> QED  BY <2>1, <3>1
  <2> QED  BY <2>2, <2>3
<1> DEFINE S == {i \in 0..n : f[i] \in Nat /\ \A j \in 0..i : f[j] \in Nat /\ f[j] <= f[i]}
<1>6. 0..n \subseteq S
  <2>1. 0 \in S
    BY <1>5
  <2>2. ASSUME NEW i \in 0..n, i \in S, i < n  PROVE i + 1 \in S
    <3>1. i + 1 \in 1..n /\ i + 1 - 1 = i
      BY <2>2
    <3>2. f[i + 1] = f[i] + seq[i + 1]
      BY <1>5, <3>1
    <3>3. seq[i + 1] \in Nat /\ f[i] \in Nat
      BY <2>2, <3>1
    <3>4. f[i + 1] \in Nat /\ f[i] <= f[i + 1]
      BY <3>2, <3>3
    <3>5. ASSUME NEW j \in 0..(i + 1)  PROVE f[j] \in Nat /\ f[j] <= f[i + 1]
      <4>1. j \in 0..i \/ j = i + 1
        BY <2>2
      <4> QED  BY <2>2, <3>3, <3>4, <4>1
    <3> QED  BY <3>1, <3>4, <3>5
  <2> HIDE DEF S
  <2> QED  BY <2>1, <2>2, Climbs
<1>7. \A i \in 0..n : f[i] \in Nat
  BY <1>6
<1>8. ASSUME NEW i \in 0..n, NEW j \in 0..n, i <= j  PROVE f[i] <= f[j]
  <2>1. j \in S /\ i \in 0..j
    BY <1>6, <1>8
  <2> QED  BY <2>1
<1> HIDE DEF S
<1> QED  BY <1>4, <1>5, <1>7, <1>8

(* The time before and with each segment. *)
LEMMA TimesAre ==
  ASSUME NEW segs \in Seq(Forward), NEW n, n = Len(segs)
  PROVE  \E upto :
           /\ n \in Nat /\ DOMAIN segs = 1..n /\ upto = Sums(Durations(segs)) /\ upto[0] = 0
           /\ \A i \in 0..n : upto[i] \in Nat
           /\ \A i \in 1..n : Duration(segs[i]) \in Nat /\ upto[i] = upto[i - 1] + Duration(segs[i])
           /\ \A i, j \in 0..n : i <= j => upto[i] <= upto[j]
<1>1. n \in Nat /\ DOMAIN segs = 1..n
  BY LenProperties
<1>2. ASSUME NEW i \in 1..n  PROVE Duration(segs[i]) \in Nat
  <2>1. segs[i] \in Forward
    BY <1>1, ElementOfSeq
  <2> QED  BY <2>1, DurationIs DEF Forward
<1>3. PICK d : d = Durations(segs)
  OBVIOUS
<1>4. d = [i \in 1..n |-> Duration(segs[i])]
  BY <1>1, <1>3 DEF Durations
<1>5. Len(d) = n /\ \A i \in 1..n : d[i] = Duration(segs[i]) /\ d[i] \in Nat
  BY <1>1, <1>2, <1>4
<1>6. PICK upto : upto = Sums(d)
  OBVIOUS
<1>7. /\ upto[0] = 0
      /\ \A i \in 0..n : upto[i] \in Nat
      /\ \A i \in 1..n : upto[i] = upto[i - 1] + d[i]
      /\ \A i, j \in 0..n : i <= j => upto[i] <= upto[j]
  BY <1>1, <1>5, <1>6, SumsAre
<1> QED  BY <1>1, <1>2, <1>3, <1>5, <1>6, <1>7

(* Every segment has a card, and later ones no earlier cards.              *)
LEMMA CardsGrow ==
  ASSUME NEW segs \in Seq(Forward), NEW n \in Nat \ {0}
  PROVE  /\ \A i \in DOMAIN segs : CardOf(segs, n, i) \in 1..n
         /\ \A i, j \in DOMAIN segs : i <= j => CardOf(segs, n, i) <= CardOf(segs, n, j)
<1>1. PICK len, upto :
        /\ len \in Nat /\ len = Len(segs) /\ DOMAIN segs = 1..len /\ upto = Sums(Durations(segs)) /\ upto[0] = 0
        /\ \A i \in 0..len : upto[i] \in Nat
        /\ \A i, j \in 0..len : i <= j => upto[i] <= upto[j]
  BY TimesAre
<1>2. PICK total \in Nat : total = upto[len]
  BY <1>1
<1> DEFINE place(i) == Smallest(n, 1 + ((upto[i - 1] + upto[i]) * n) \div (2 * total))
<1>3. \A i \in 1..len : CardOf(segs, n, i) = IF total = 0 THEN 1 ELSE place(i)
  BY <1>1, <1>2 DEF CardOf
<1>4. ASSUME total # 0, NEW i \in 1..len, NEW j \in 1..len, i <= j
      PROVE  place(i) \in 1..n /\ place(i) <= place(j)
  <2>1. PICK a \in Nat, b \in Nat : a = upto[i - 1] + upto[i] /\ b = upto[j - 1] + upto[j] /\ a <= b
    <3>1. i - 1 \in 0..len /\ i \in 0..len /\ j - 1 \in 0..len /\ j \in 0..len /\ i - 1 <= j - 1
      BY <1>1, <1>4
    <3>2. /\ upto[i - 1] \in Nat /\ upto[i] \in Nat /\ upto[j - 1] \in Nat /\ upto[j] \in Nat
          /\ upto[i - 1] <= upto[j - 1] /\ upto[i] <= upto[j]
      BY <1>1, <1>4, <3>1
    <3>3. upto[i - 1] + upto[i] \in Nat /\ upto[j - 1] + upto[j] \in Nat
          /\ upto[i - 1] + upto[i] <= upto[j - 1] + upto[j]
      BY SMTT(30), <3>2
    <3> QED  BY <3>3
  <2>2. a * n \in Nat /\ b * n \in Nat /\ a * n <= b * n /\ 2 * total \in Nat \ {0}
    BY <1>4, <2>1, TimesGrows
  <2>3. PICK x \in Nat, y \in Nat : x = (a * n) \div (2 * total) /\ y = (b * n) \div (2 * total) /\ x <= y
    <3>1. PICK c \in Nat, d \in Nat, m \in Nat \ {0} : c = a * n /\ d = b * n /\ m = 2 * total /\ c <= d
      BY <2>2
    <3>2. c \div m \in Nat /\ d \div m \in Nat /\ c \div m <= d \div m
      BY <3>1, DivIs, DivGrows
    <3> QED  BY <3>1, <3>2
  <2>4. place(i) = Smallest(n, 1 + x) /\ place(j) = Smallest(n, 1 + y)
    BY <2>1, <2>3
  <2>5. /\ Smallest(n, 1 + x) \in 1..n
        /\ Smallest(n, 1 + x) <= Smallest(n, 1 + y)
    BY <2>3 DEF Smallest
  <2> QED  BY <2>4, <2>5
<1> HIDE DEF place
<1> QED  BY <1>1, <1>3, <1>4

(* The first and last of some places in a row. *)
LEMMA RowEnds ==
  ASSUME NEW a \in Nat, NEW b \in Nat, a <= b
  PROVE  Min(a..b) = a /\ Max(a..b) = b
<1>1. a \in a..b /\ \A y \in a..b : a <= y
  OBVIOUS
<1>2. b \in a..b /\ \A y \in a..b : b >= y
  OBVIOUS
<1>3. Min(a..b) \in a..b /\ \A y \in a..b : Min(a..b) <= y
  <2>1. \E x \in a..b : \A y \in a..b : x <= y
    BY <1>1
  <2> QED  BY <2>1 DEF Min
<1>4. Max(a..b) \in a..b /\ \A y \in a..b : Max(a..b) >= y
  <2>1. \E x \in a..b : \A y \in a..b : x >= y
    BY <1>2
  <2> QED  BY <2>1 DEF Max
<1> QED  BY <1>1, <1>2, <1>3, <1>4

(* Whoever is numbered upward stands in rows.                              *)
Upto(c, k) == Max({0} \cup {i \in DOMAIN c : c[i] <= k})

LEMMA RowsAre ==
  ASSUME NEW len \in Nat, NEW n \in Nat, NEW c \in [1..len -> 1..n],
         \A i, j \in 1..len : i <= j => c[i] <= c[j]
  PROVE  /\ \A k \in 0..n : Upto(c, k) \in 0..len
         /\ Upto(c, 0) = 0 /\ Upto(c, n) = len
         /\ \A k \in 1..n : /\ Upto(c, k - 1) <= Upto(c, k)
                            /\ \A i \in 1..len : c[i] = k <=> i \in (Upto(c, k - 1) + 1)..Upto(c, k)
<1>1. ASSUME NEW k \in 0..n
      PROVE  Upto(c, k) \in 0..len /\ \A i \in 1..len : i <= Upto(c, k) <=> c[i] <= k
  <2>1. PICK P \in SUBSET (0..len) : P = {0} \cup {i \in DOMAIN c : c[i] <= k}
    <3>1. PICK P : P = {0} \cup {i \in DOMAIN c : c[i] <= k}
      OBVIOUS
    <3>2. \A x \in P : x \in 0..len
      BY <3>1
    <3> QED  BY <3>1, <3>2
  <2>2. PICK u \in P : u = Upto(c, k) /\ \A j \in P : u >= j
    BY <2>1, LastPlace DEF Upto
  <2>3. ASSUME NEW i \in 1..len  PROVE i <= u <=> c[i] <= k
    <3>1. ASSUME c[i] <= k  PROVE i <= u
      BY <2>1, <2>2, <3>1
    <3>2. ASSUME i <= u  PROVE c[i] <= k
      <4>1. u \in 1..len /\ c[u] <= k
        BY <2>1, <2>2, <3>2
      <4>2. c[i] <= c[u] /\ c[i] \in 1..n /\ c[u] \in 1..n
        BY <3>2, <4>1
      <4> QED  BY <4>1, <4>2
    <3> QED  BY <3>1, <3>2
  <2> QED  BY <2>2, <2>3
<1>2. Upto(c, 0) = 0
  <2>1. PICK u \in 0..len : u = Upto(c, 0) /\ \A i \in 1..len : i <= u <=> c[i] <= 0
    BY <1>1
  <2>2. \A i \in 1..len : ~(c[i] <= 0)
    OBVIOUS
  <2>3. ~(u \in 1..len)
    BY <2>1, <2>2
  <2> QED  BY <2>1, <2>3
<1>3. Upto(c, n) = len
  <2>1. PICK u \in 0..len : u = Upto(c, n) /\ \A i \in 1..len : i <= u <=> c[i] <= n
    BY <1>1
  <2>2. \A i \in 1..len : c[i] <= n
    OBVIOUS
  <2>3. len \in 1..len => len <= u
    BY <2>1, <2>2
  <2> QED  BY <2>1, <2>3
<1>4. ASSUME NEW k \in 1..n
      PROVE  /\ Upto(c, k - 1) <= Upto(c, k)
             /\ \A i \in 1..len : c[i] = k <=> i \in (Upto(c, k - 1) + 1)..Upto(c, k)
  <2>1. k - 1 \in 0..n /\ k \in 0..n
    OBVIOUS
  <2>2. PICK u \in 0..len, v \in 0..len :
          /\ u = Upto(c, k - 1) /\ v = Upto(c, k)
          /\ \A i \in 1..len : i <= u <=> c[i] <= k - 1
          /\ \A i \in 1..len : i <= v <=> c[i] <= k
    BY <1>1, <2>1
  <2>3. u <= v
    <3>1. CASE u = 0
      BY <3>1
    <3>2. CASE u \in 1..len
      <4>1. c[u] <= k - 1 /\ c[u] \in 1..n
        BY <2>2, <3>2
      <4>2. c[u] <= k
        BY <4>1
      <4> QED  BY <2>2, <3>2, <4>2
    <3> QED  BY <3>1, <3>2
  <2>4. ASSUME NEW i \in 1..len  PROVE c[i] = k <=> i \in (u + 1)..v
    <3>1. c[i] \in 1..n
      OBVIOUS
    <3>2. c[i] = k <=> c[i] <= k /\ ~(c[i] <= k - 1)
      BY <3>1
    <3>3. i \in (u + 1)..v <=> i <= v /\ ~(i <= u)
      OBVIOUS
    <3> QED  BY <2>2, <3>2, <3>3
  <2>5. (u + 1)..v \subseteq 1..len
    OBVIOUS
  <2> QED  BY <2>2, <2>3, <2>4, <2>5
<1> QED  BY <1>1, <1>2, <1>3, <1>4

(* However the segments are split, they are played in their order.         *)
LEMMA SplitPlaysAll ==
  ASSUME NEW T \in SUBSET Forward, NEW segs \in Seq(T), NEW n \in Nat \ {0}
  PROVE  /\ SplitEvenly(segs, n) \in Seq(Seq(T))
         /\ \A k \in DOMAIN SplitEvenly(segs, n) : SplitEvenly(segs, n)[k] # <<>>
         /\ FlattenSeq(SplitEvenly(segs, n)) = segs
<1>1. segs \in Seq(Forward)
  OBVIOUS
<1>2. PICK len \in Nat : len = Len(segs) /\ DOMAIN segs = 1..len
  BY LenProperties
<1>3. PICK c \in [1..len -> 1..n] :
        /\ \A i \in 1..len : c[i] = CardOf(segs, n, i)
        /\ \A i, j \in 1..len : i <= j => c[i] <= c[j]
  <2>1. PICK c : c = [i \in 1..len |-> CardOf(segs, n, i)]
    OBVIOUS
  <2>2. /\ \A i \in 1..len : CardOf(segs, n, i) \in 1..n
        /\ \A i, j \in 1..len : i <= j => CardOf(segs, n, i) <= CardOf(segs, n, j)
    BY <1>1, <1>2, CardsGrow
  <2> QED  BY <2>1, <2>2
<1>4. PICK e : e = [k \in 0..n |-> Upto(c, k)]
  OBVIOUS
<1>5. /\ \A k \in 0..n : e[k] \in 0..len
      /\ e[0] = 0 /\ e[n] = len
      /\ \A k \in 1..n : /\ k - 1 \in 0..n /\ k \in 0..n /\ e[k - 1] <= e[k]
                         /\ \A i \in 1..len : c[i] = k <=> i \in (e[k - 1] + 1)..e[k]
  <2>1. \A k \in 1..n : k - 1 \in 0..n /\ k \in 0..n
    OBVIOUS
  <2>2. 0 \in 0..n /\ n \in 0..n
    OBVIOUS
  <2>3. \A k \in 0..n : e[k] = Upto(c, k)
    BY <1>4
  <2>4. n \in Nat
    OBVIOUS
  <2>5. /\ \A k \in 0..n : Upto(c, k) \in 0..len
        /\ Upto(c, 0) = 0 /\ Upto(c, n) = len
        /\ \A k \in 1..n : /\ Upto(c, k - 1) <= Upto(c, k)
                           /\ \A i \in 1..len : c[i] = k <=> i \in (Upto(c, k - 1) + 1)..Upto(c, k)
    <3>1. /\ c \in [1..len -> 1..n] /\ len \in Nat
          /\ \A i, j \in 1..len : i <= j => c[i] <= c[j]
      BY <1>3
    <3> QED  BY <2>4, <3>1, RowsAre
  <2>6. ASSUME NEW k \in 1..n
        PROVE  e[k - 1] <= e[k] /\ \A i \in 1..len : c[i] = k <=> i \in (e[k - 1] + 1)..e[k]
    <3>1. e[k - 1] = Upto(c, k - 1) /\ e[k] = Upto(c, k)
      BY <2>1, <2>3
    <3> QED  BY <2>5, <3>1
  <2> QED  BY <2>1, <2>2, <2>3, <2>5, <2>6
<1>6. PICK cards : cards = [k \in 1..n |-> OnCard(segs, n, k)]
  OBVIOUS
<1>7. ASSUME NEW k \in 1..n
      PROVE  /\ cards[k] = SubSeq(segs, e[k - 1] + 1, e[k]) /\ cards[k] \in Seq(T)
             /\ cards[k] = <<>> <=> e[k - 1] = e[k]
             /\ SubSeq(segs, 1, e[k - 1]) \in Seq(T)
             /\ SubSeq(segs, 1, e[k - 1]) \o cards[k] = SubSeq(segs, 1, e[k])
  <2>1. PICK a \in Nat, b \in Nat : a = e[k - 1] /\ b = e[k] /\ a <= b /\ b <= len
    <3>1. k - 1 \in 0..n /\ k \in 0..n /\ e[k - 1] <= e[k]
      BY <1>5
    <3>2. e[k - 1] \in 0..len /\ e[k] \in 0..len
      BY <1>5, <3>1
    <3> QED  BY <3>1, <3>2
  <2>2. {i \in DOMAIN segs : CardOf(segs, n, i) = k} = (a + 1)..b
    <3>1. \A i \in 1..len : CardOf(segs, n, i) = k <=> i \in (a + 1)..b
      BY <1>3, <1>5, <2>1
    <3>2. (a + 1)..b \subseteq 1..len
      BY SMTT(30), <2>1
    <3> QED  BY <1>2, <3>1, <3>2
  <2>3. cards[k] = IF (a + 1)..b = {} THEN <<>> ELSE SubSeq(segs, Min((a + 1)..b), Max((a + 1)..b))
    BY <1>6, <2>2 DEF OnCard
  <2>4. /\ SubSeq(segs, 1, a) \in Seq(T) /\ SubSeq(segs, a + 1, b) \in Seq(T)
        /\ a = b => SubSeq(segs, a + 1, b) = <<>>
        /\ a < b => SubSeq(segs, a + 1, b) # <<>>
        /\ SubSeq(segs, 1, a) \o SubSeq(segs, a + 1, b) = SubSeq(segs, 1, b)
    <3>1. a \in Nat /\ b \in Nat /\ a <= b /\ b <= Len(segs)
      BY <1>2, <2>1
    <3> QED  BY <3>1, RowsJoin, ZenonT(40)
  <2>5. cards[k] = SubSeq(segs, a + 1, b)
    <3>1. CASE a = b
      <4>1. (a + 1)..b = {}
        BY <3>1
      <4> QED  BY <2>3, <2>4, <3>1, <4>1
    <3>2. CASE a < b
      <4>1. a + 1 \in Nat /\ a + 1 <= b /\ a + 1 \in (a + 1)..b
        BY <3>2
      <4>2. Min((a + 1)..b) = a + 1 /\ Max((a + 1)..b) = b
        BY <4>1, RowEnds
      <4> QED  BY <2>3, <4>1, <4>2
    <3> QED  BY <2>1, <3>1, <3>2
  <2>6. cards[k] = <<>> <=> a = b
    <3>1. PICK q : q = SubSeq(segs, a + 1, b)
      OBVIOUS
    <3>2. (a = b => q = <<>>) /\ (a < b => q # <<>>) /\ cards[k] = q
      BY <2>4, <2>5, <3>1
    <3>3. a = b \/ a < b
      BY <2>1
    <3> HIDE <2>1
    <3>4. a < b => ~(a = b)
      OBVIOUS
    <3> QED  BY <3>2, <3>3, <3>4
  <2> QED  BY <2>1, <2>4, <2>5, <2>6
<1>8. cards \in Seq(Seq(T)) /\ Len(cards) = n /\ DOMAIN cards = 1..n
  <2>1. PICK U : U = Seq(T)
    OBVIOUS
  <2>2. cards \in [1..n -> U]
    BY <1>6, <1>7, <2>1
  <2>3. cards \in Seq(U) /\ Len(cards) = n /\ DOMAIN cards = 1..n
    BY <2>2
  <2> QED  BY <2>1, <2>3
<1>9. PICK X : X = {x \in Seq(T) : x # <<>>}
  OBVIOUS
<1>10. SplitEvenly(segs, n) = Only(cards, X)
  <2>1. {k \in DOMAIN cards : cards[k] # <<>>} = Where(cards, X)
    BY <1>7, <1>8, <1>9 DEF Where
  <2> QED  BY <1>6, <2>1 DEF SplitEvenly, Keep, NonEmpty, Only
<1> DEFINE part(k) == SubSeq(cards, 1, k)
           kept(k) == Only(part(k), X)
           S == {k \in 0..n : kept(k) \in Seq(Seq(T)) /\ FlattenSeq(kept(k)) = SubSeq(segs, 1, e[k])}
<1>11. 0 \in S
  <2>1. part(0) = <<>> /\ SubSeq(segs, 1, 0) = <<>>
    BY SubSeqEmpty
  <2>2. <<>> \in Seq(T) /\ <<>> \in Seq(Seq(T))
    OBVIOUS
  <2>3. kept(0) = <<>>
    BY <2>1, <2>2, OnlyHas
  <2>4. FlattenSeq(<<>>) = <<>>
    BY <2>2, FlattenGrows
  <2>5. FlattenSeq(kept(0)) = SubSeq(segs, 1, e[0]) /\ kept(0) \in Seq(Seq(T))
    BY <1>5, <2>1, <2>2, <2>3, <2>4
  <2> HIDE DEF kept
  <2> QED  BY <2>5
<1>12. ASSUME NEW k \in 0..n, k \in S, k < n  PROVE k + 1 \in S
  <2>1. k + 1 \in 1..n /\ k + 1 - 1 = k
    BY <1>12
  <2>2. PICK p \in Seq(Seq(T)), x \in Seq(T) :
          p = part(k) /\ x = cards[k + 1] /\ part(k + 1) = Append(p, x)
    <3>1. k \in 0..Len(cards) /\ k < Len(cards)
      BY <1>8, <1>12
    <3> QED  BY <1>8, <3>1, OneMorePart, ZenonT(40)
  <2>3. PICK q \in Seq(Seq(T)) : q = Only(p, X) /\ FlattenSeq(q) = SubSeq(segs, 1, e[k])
    BY <1>12, <2>2
  <2> HIDE DEF part
  <2>4. kept(k + 1) = q \o (IF x \in X THEN <<x>> ELSE <<>>)
    <3>1. PICK y \in Seq(Seq(T)) : y = <<x>> /\ Append(p, x) = p \o y
      <4>1. PICK U : U = Seq(T)
        OBVIOUS
      <4>2. p \in Seq(U) /\ x \in U
        BY <4>1
      <4>3. Append(p, x) = p \o <<x>> /\ <<x>> \in Seq(U)
        BY <4>2, AppendIsConcat
      <4> QED  BY <4>1, <4>3
    <3>2. Only(p \o y, X) = Only(p, X) \o Only(y, X)
      BY OnlyJoined, SMTT(30)
    <3>3. Only(y, X) = IF x \in X THEN <<x>> ELSE <<>>
      BY <3>1, OnlyOne
    <3> QED  BY <2>2, <2>3, <3>1, <3>2, <3>3
  <2>5. SubSeq(segs, 1, e[k]) \in Seq(T) /\ SubSeq(segs, 1, e[k]) \o x = SubSeq(segs, 1, e[k + 1])
        /\ (x = <<>> <=> e[k] = e[k + 1])
    <3>1. PICK m \in 1..n : m = k + 1 /\ m - 1 = k
      BY <2>1
    <3>2. /\ cards[m] = <<>> <=> e[m - 1] = e[m]
          /\ SubSeq(segs, 1, e[m - 1]) \in Seq(T)
          /\ SubSeq(segs, 1, e[m - 1]) \o cards[m] = SubSeq(segs, 1, e[m])
      BY <1>7
    <3>3. x = cards[m] /\ e[m - 1] = e[k] /\ e[m] = e[k + 1]
      BY <2>2, <3>1
    <3> HIDE DEF kept
    <3> QED  BY <3>2, <3>3
  <2>6. CASE x \in X
    <3>1. kept(k + 1) = Append(q, x) /\ Append(q, x) \in Seq(Seq(T))
      BY <2>4, <2>6
    <3>2. FlattenSeq(Append(q, x)) = FlattenSeq(q) \o x
      BY FlattenGrows
    <3>3. FlattenSeq(q) \o x = SubSeq(segs, 1, e[k + 1])
      BY <2>3, <2>5
    <3>4. k + 1 \in 0..n
      BY <2>1
    <3> HIDE DEF kept
    <3> QED  BY <3>1, <3>2, <3>3, <3>4
  <2>7. CASE x \notin X
    <3>1. x = <<>>
      BY <1>9, <2>7
    <3>2. kept(k + 1) = q
      <4>1. q \o <<>> = q
        OBVIOUS
      <4> QED  BY <2>4, <2>7, <4>1
    <3>3. k + 1 \in 0..n /\ FlattenSeq(kept(k + 1)) = SubSeq(segs, 1, e[k + 1]) /\ kept(k + 1) \in Seq(Seq(T))
      BY <2>1, <2>3, <2>5, <3>1, <3>2
    <3> HIDE DEF kept
    <3> QED  BY <3>3
  <2> QED  BY <2>6, <2>7
<1>13. FlattenSeq(Only(cards, X)) = segs /\ Only(cards, X) \in Seq(Seq(T))
  <2>1. n \in S
    <3> HIDE DEF S
    <3>1. 0..n \subseteq S
      BY <1>11, <1>12, Climbs
    <3> QED  BY <3>1
  <2>2. part(n) = cards /\ SubSeq(segs, 1, len) = segs
    BY <1>2, <1>8, SubSeqFull
  <2> QED  BY <1>5, <2>1, <2>2
<1>14. \A k \in DOMAIN Only(cards, X) : Only(cards, X)[k] \in X
  BY <1>8, OnlyHas
<1> QED  BY <1>9, <1>10, <1>13, <1>14
-----------------------------------------------------------------------------
(* The tracks of glued chapters: what was dropped before the last of them  *)
(* may come on top of the limit.                                           *)
Loose == {s \in Forward : TrackFits(s, TrackBytes, Sliver - 1)}

LEMMA PiecesAreLoose == Piece(TrackBytes) \subseteq Loose
<1> SUFFICES ASSUME NEW s \in Piece(TrackBytes)  PROVE s \in Loose
  OBVIOUS
<1>1. s \in Forward /\ Duration(s) <= TrackTime /\ Bytes(s) <= TrackBytes /\ Duration(s) \in Nat
  BY DurationIs DEF Piece, Forward
<1>2. 0 \in 0..Sliver - 1 /\ Duration(s) - 0 = Duration(s)
  BY <1>1, LimitsAssumption
<1> QED  BY <1>1, <1>2 DEF Loose, TrackFits, Bytes

(* Two neighbours glued into one.                                          *)
LEMMA GluedTwo ==
  ASSUME NEW file \in Source, NEW k \in Nat, NEW a \in OfFile(file, k), NEW b \in OfFile(file, k),
         a.end <= b.start, Glues(a, b)
  PROVE  LET g == [a EXCEPT !.end = b.end] IN
           g \in OfFile(file, k) /\ g \in Loose /\ g.start = a.start /\ g.end = b.end
<1>1. a \in Segment /\ b \in Segment /\ a.start <= a.end /\ b.start <= b.end
  BY DEF OfFile, Forward
<1>2. /\ a.of \in Nat /\ a.start \in Nat /\ a.end \in Nat /\ a.rate \in Nat /\ b.start \in Nat /\ b.end \in Nat
      /\ a.of = k /\ a.rate = file.rate
  BY <1>1, DurationIs DEF OfFile
<1>3. PICK g : g = [a EXCEPT !.end = b.end]
  OBVIOUS
<1>4. /\ g \in Segment /\ g.of = a.of /\ g.rate = a.rate /\ g.start = a.start /\ g.end = b.end
  BY <1>1, <1>2, <1>3 DEF Segment
<1>5. g.start <= g.end
  BY <1>1, <1>2, <1>4
<1>6. PICK gap : gap = b.start - a.end /\ gap \in 0..Sliver - 1
  <2>1. b.start - a.end \in (1 - Sliver)..(Sliver - 1)
    BY DEF Glues
  <2> QED  BY <1>2, <2>1, LimitsAssumption
<1>7. Duration(g) - gap = Duration(a) + Duration(b)
  BY <1>2, <1>4, <1>6 DEF Duration
<1>8. Duration(a) + Duration(b) <= TrackTime /\ (Duration(a) + Duration(b)) * a.rate <= TrackBytes
  BY DEF Glues
<1>9. TrackFits(g, TrackBytes, Sliver - 1)
  BY <1>4, <1>6, <1>7, <1>8 DEF TrackFits
<1> QED  BY <1>2, <1>3, <1>4, <1>5, <1>9 DEF OfFile, Forward, Loose

LEMMA GluedIs ==
  ASSUME NEW file \in Source, NEW k \in Nat, NEW got \in Seq(OfFile(file, k)), NEW seg \in OfFile(file, k),
         Ordered(got, Precedes), \A j \in DOMAIN got : got[j].end <= seg.start
  PROVE  /\ Glued(got, seg) \in Seq(OfFile(file, k)) /\ Ordered(Glued(got, seg), Precedes)
         /\ \A j \in DOMAIN Glued(got, seg) : Glued(got, seg)[j].end <= seg.end
         /\ got \in Seq(Loose) /\ seg \in Loose => Glued(got, seg) \in Seq(Loose)
<1>1. PICK n \in Nat : n = Len(got) /\ DOMAIN got = 1..n
  BY LenProperties
<1>2. ASSUME NEW x \in OfFile(file, k)
      PROVE  x \in Segment /\ x.of = k /\ x.start \in Nat /\ x.end \in Nat /\ x.start <= x.end
  BY DurationIs DEF OfFile, Forward
<1>3. \A j \in 1..n : got[j] \in OfFile(file, k)
  BY <1>1, ElementOfSeq
<1>4. PICK g : g = Glued(got, seg)
  OBVIOUS
<1>5. \E m \in Nat, last \in OfFile(file, k) :
        /\ g = [j \in 1..(m + 1) |-> IF j <= m THEN got[j] ELSE last] /\ m <= n
        /\ last.end = seg.end /\ \A j \in 1..m : got[j].end <= last.start
        /\ got \in Seq(Loose) /\ seg \in Loose => last \in Loose
  <2>1. CASE got # <<>> /\ Glues(Last(got), seg)
    <3>1. PICK m \in Nat : m = n - 1 /\ n \in 1..n /\ Last(got) = got[n] /\ m <= n
      <4>1. n # 0
        BY <1>1, <2>1
      <4> QED  BY <1>1, <4>1 DEF Last
    <3>2. PICK last \in OfFile(file, k) :
            last = [got[n] EXCEPT !.end = seg.end] /\ last \in Loose /\ last.start = got[n].start /\ last.end = seg.end
      <4>1. got[n] \in OfFile(file, k) /\ got[n].end <= seg.start /\ Glues(got[n], seg)
        BY <1>1, <1>3, <2>1, <3>1
      <4>2. PICK a \in OfFile(file, k) : a = got[n] /\ a.end <= seg.start /\ Glues(a, seg)
        BY <4>1
      <4>3. PICK g2 : g2 = [a EXCEPT !.end = seg.end]
        OBVIOUS
      <4>4. g2 \in OfFile(file, k) /\ g2 \in Loose /\ g2.start = a.start /\ g2.end = seg.end
        BY <4>2, <4>3, GluedTwo
      <4> QED  BY <4>2, <4>3, <4>4
    <3>3. g = Append(SubSeq(got, 1, m), last)
      BY <1>1, <1>4, <2>1, <3>1, <3>2 DEF Glued, Front
    <3>4. SubSeq(got, 1, m) \in Seq(OfFile(file, k)) /\ Len(SubSeq(got, 1, m)) = m /\ \A j \in 1..m : SubSeq(got, 1, m)[j] = got[j]
      <4>1. \A j \in 1..m : got[j] \in OfFile(file, k)
        BY <1>3, <3>1
      <4>2. SubSeq(got, 1, m) = [j \in 1..m |-> got[j]]
        BY <1>1, <3>1
      <4> QED  BY <4>1, <4>2
    <3>5. g = [j \in 1..(m + 1) |-> IF j <= m THEN got[j] ELSE last]
      BY <3>2, <3>3, <3>4
    <3>6. ASSUME NEW j \in 1..m  PROVE got[j].end <= last.start
      <4>1. j \in 1..n /\ n \in 1..n /\ j < n
        BY <3>1
      <4>2. <<got[j], got[n]>> \in Precedes
        BY <1>1, <4>1 DEF Ordered
      <4>3. got[j].of = k /\ got[n].of = k
        BY <1>2, <1>3, <4>1
      <4>4. got[j].end <= got[n].start
        <5>1. Follows(got[j], got[n])
          BY <4>2 DEF Precedes
        <5> QED  BY <4>3, <5>1 DEF Follows
      <4> QED  BY <3>2, <4>4
    <3> QED  BY <3>1, <3>2, <3>5, <3>6
  <2>2. CASE ~(got # <<>> /\ Glues(Last(got), seg))
    <3>1. g = Append(got, seg)
      BY <1>4, <2>2 DEF Glued
    <3>2. g = [j \in 1..(n + 1) |-> IF j <= n THEN got[j] ELSE seg]
      <4>1. /\ Len(Append(got, seg)) = n + 1 /\ Append(got, seg) \in Seq(OfFile(file, k))
            /\ \A j \in 1..n : Append(got, seg)[j] = got[j]
            /\ Append(got, seg)[n + 1] = seg
        BY <1>1, AppendProperties
      <4>2. g = [j \in 1..(n + 1) |-> g[j]]
        <5>1. g \in Seq(OfFile(file, k)) /\ Len(g) = n + 1
          BY <3>1, <4>1
        <5>2. g \in [1..(n + 1) -> OfFile(file, k)]
          BY <5>1, LenProperties
        <5> QED  BY <5>2
      <4>3. \A j \in 1..(n + 1) : g[j] = IF j <= n THEN got[j] ELSE seg
        BY <3>1, <4>1
      <4> QED  BY <4>2, <4>3
    <3> QED  BY <1>1, <3>2
  <2> QED  BY <2>1, <2>2
<1>6. PICK m \in Nat, last \in OfFile(file, k) :
        /\ g = [j \in 1..(m + 1) |-> IF j <= m THEN got[j] ELSE last] /\ m <= n
        /\ last.end = seg.end /\ \A j \in 1..m : got[j].end <= last.start
        /\ got \in Seq(Loose) /\ seg \in Loose => last \in Loose
  BY <1>5
<1>7. DOMAIN g = 1..(m + 1) /\ g[m + 1] = last /\ \A j \in 1..m : g[j] = got[j] /\ j \in 1..n
  BY <1>6
<1>8. g \in Seq(OfFile(file, k))
  BY <1>3, <1>6, <1>7
<1>9. ASSUME NEW i \in 1..(m + 1), NEW j \in 1..(m + 1), i < j  PROVE <<g[i], g[j]>> \in Precedes
  <2>1. i \in 1..m /\ g[i] = got[i] /\ i \in 1..n
    BY <1>7, <1>9
  <2>2. CASE j = m + 1
    <3>1. got[i].end <= last.start /\ got[i] \in OfFile(file, k)
      BY <1>3, <1>6, <2>1
    <3> QED  BY <1>2, <1>7, <2>1, <2>2, <3>1 DEF Precedes, Follows
  <2>3. CASE j # m + 1
    <3>1. j \in 1..m /\ g[j] = got[j] /\ j \in 1..n
      BY <1>7, <2>3
    <3> QED  BY <1>1, <1>9, <2>1, <3>1 DEF Ordered
  <2> QED  BY <2>2, <2>3
<1>10. ASSUME NEW j \in 1..(m + 1)  PROVE g[j].end <= seg.end
  <2>1. CASE j = m + 1
    BY <1>2, <1>6, <1>7, <2>1
  <2>2. CASE j # m + 1
    <3>1. j \in 1..m /\ g[j] = got[j] /\ j \in 1..n
      BY <1>7, <2>2
    <3>2. got[j].end <= seg.start /\ got[j].end \in Nat
      BY <1>1, <1>2, <1>3, <3>1
    <3>3. seg.start <= seg.end /\ seg.start \in Nat /\ seg.end \in Nat
      BY <1>2
    <3> QED  BY <3>1, <3>2, <3>3
  <2> QED  BY <2>1, <2>2
<1>11. ASSUME got \in Seq(Loose), seg \in Loose  PROVE g \in Seq(Loose)
  <2>1. \A j \in 1..n : got[j] \in Loose
    BY <1>1, <1>11, ElementOfSeq
  <2>2. \A j \in 1..(m + 1) : g[j] \in Loose
    BY <1>6, <1>7, <1>11, <2>1
  <2> QED  BY <1>6, <1>7, <2>2
<1> QED  BY <1>4, <1>7, <1>8, <1>9, <1>10, <1>11 DEF Ordered

MergesUp(f, n, segs) == f = [i \in 0..n |-> IF i = 0 THEN <<>> ELSE Glued(f[i - 1], segs[i])]

LEMMA MergesThere ==
  ASSUME NEW segs, NEW N \in Nat
  PROVE  \E f : MergesUp(f, N, segs)
<1> DEFINE S == {n \in 0..N : \E f : MergesUp(f, n, segs)}
<1>1. 0 \in S
  <2>1. MergesUp([i \in 0..0 |-> <<>>], 0, segs)
    BY DEF MergesUp
  <2> QED  BY <2>1
<1>2. ASSUME NEW n \in 0..N, n \in S, n < N  PROVE n + 1 \in S
  <2>1. PICK f : MergesUp(f, n, segs)
    BY <1>2
  <2> DEFINE g == [i \in 0..(n + 1) |-> IF i \in 0..n THEN f[i] ELSE Glued(f[i - 1], segs[i])]
  <2>2. ASSUME NEW i \in 0..(n + 1)  PROVE g[i] = IF i = 0 THEN <<>> ELSE Glued(g[i - 1], segs[i])
    <3>1. CASE i = 0
      BY <2>1, <3>1 DEF MergesUp
    <3>2. CASE i \in 1..n
      <4>1. i - 1 \in 0..n /\ i \in 0..n /\ i # 0
        BY <3>2
      <4>2. f[i] = Glued(f[i - 1], segs[i])
        BY <2>1, <4>1 DEF MergesUp
      <4>3. g[i] = f[i] /\ g[i - 1] = f[i - 1]
        BY <4>1
      <4> QED  BY <4>1, <4>2, <4>3
    <3>3. CASE i = n + 1
      <4>1. i - 1 \in 0..n /\ i \notin 0..n /\ i # 0
        BY <3>3
      <4>2. g[i] = Glued(f[i - 1], segs[i]) /\ g[i - 1] = f[i - 1]
        BY <4>1
      <4> QED  BY <4>1, <4>2
    <3> QED  BY <3>1, <3>2, <3>3
  <2>3. g = [i \in 0..(n + 1) |-> g[i]]
    OBVIOUS
  <2> HIDE DEF g
  <2>4. MergesUp(g, n + 1, segs)
    BY <2>2, <2>3 DEF MergesUp
  <2> QED  BY <1>2, <2>4
<1> HIDE DEF S
<1>3. N \in S
  BY <1>1, <1>2, Climbs
<1> QED  BY <1>3 DEF S

(* Merged, the tracks of a file still follow each other, and none is       *)
(* longer or larger than a track but for what was dropped inside it.       *)
LEMMA MergeSegmentsAre ==
  ASSUME NEW file \in Source, NEW k \in Nat, NEW segs \in Seq(OfFile(file, k)), Ordered(segs, Precedes)
  PROVE  /\ MergeSegments(segs) \in Seq(OfFile(file, k)) /\ Ordered(MergeSegments(segs), Precedes)
         /\ segs \in Seq(Piece(TrackBytes)) => MergeSegments(segs) \in Seq(Loose)
<1>1. PICK len \in Nat : len = Len(segs) /\ DOMAIN segs = 1..len
  BY LenProperties
<1> DEFINE merged[i \in 0..Len(segs)] == IF i = 0 THEN <<>> ELSE Glued(merged[i - 1], segs[i])
<1>2. MergeSegments(segs) = merged[Len(segs)]
  BY DEF MergeSegments
<1>3. \E f : f = [i \in 0..Len(segs) |-> IF i = 0 THEN <<>> ELSE Glued(f[i - 1], segs[i])]
  BY <1>1, MergesThere DEF MergesUp
<1>4. merged = [i \in 0..Len(segs) |-> IF i = 0 THEN <<>> ELSE Glued(merged[i - 1], segs[i])]
  BY <1>3
<1> HIDE DEF merged
<1>5. PICK f : /\ MergeSegments(segs) = f[len] /\ f[0] = <<>>
               /\ \A i \in 1..len : f[i] = Glued(f[i - 1], segs[i])
  <2>1. ASSUME NEW i \in 0..len  PROVE merged[i] = IF i = 0 THEN <<>> ELSE Glued(merged[i - 1], segs[i])
    BY <1>1, <1>4
  <2>2. merged[0] = <<>>
    BY <2>1
  <2>3. ASSUME NEW i \in 1..len  PROVE merged[i] = Glued(merged[i - 1], segs[i])
    <3>1. i \in 0..len /\ i # 0
      OBVIOUS
    <3> QED  BY <2>1, <3>1
  <2> QED  BY <1>1, <1>2, <2>2, <2>3
<1>6. ASSUME NEW i \in 1..len
      PROVE  segs[i] \in OfFile(file, k) /\ segs[i].start \in Nat /\ segs[i].end \in Nat
             /\ (segs \in Seq(Piece(TrackBytes)) => segs[i] \in Loose)
  <2>1. segs[i] \in OfFile(file, k)
    BY <1>1, ElementOfSeq
  <2>2. segs \in Seq(Piece(TrackBytes)) => segs[i] \in Piece(TrackBytes)
    BY <1>1, ElementOfSeq
  <2> QED  BY <2>1, <2>2, DurationIs, PiecesAreLoose DEF OfFile, Forward
<1> DEFINE Good(got, i) ==
             /\ got \in Seq(OfFile(file, k)) /\ Ordered(got, Precedes)
             /\ \A j \in DOMAIN got : i > 0 /\ got[j].end <= segs[i].end
             /\ segs \in Seq(Piece(TrackBytes)) => got \in Seq(Loose)
           S == {i \in 0..len : Good(f[i], i)}
<1>7. 0 \in S
  <2>1. Good(<<>>, 0)
    BY DEF Ordered
  <2> HIDE DEF Good
  <2> QED  BY <1>5, <2>1
<1>8. ASSUME NEW i \in 0..len, i \in S, i < len  PROVE i + 1 \in S
  <2>1. PICK m \in 1..len : m = i + 1 /\ m - 1 = i
    BY <1>8
  <2>2. PICK got \in Seq(OfFile(file, k)) : got = f[i] /\ Good(got, i)
    BY <1>8
  <2>3. PICK seg \in OfFile(file, k) : seg = segs[m]
    BY <1>6
  <2>4. ASSUME NEW j \in DOMAIN got  PROVE got[j].end <= seg.start
    <3>1. i \in 1..len /\ i < m /\ got[j].end <= segs[i].end
      BY <2>1, <2>2
    <3>2. <<segs[i], segs[m]>> \in Precedes /\ segs[i].of = k /\ segs[m].of = k
      BY <1>1, <1>6, <3>1 DEF Ordered, OfFile
    <3>3. Follows(segs[i], segs[m])
      BY <3>2 DEF Precedes
    <3>4. segs[i].end <= segs[m].start
      BY <3>2, <3>3 DEF Follows
    <3>5. got[j].end \in Nat
      <4>1. got[j] \in OfFile(file, k)
        BY LenProperties, ElementOfSeq
      <4> QED  BY <4>1, DurationIs DEF OfFile, Forward
    <3>6. segs[i].end \in Nat /\ segs[m].start \in Nat
      BY <1>6, <3>1
    <3> QED  BY <2>3, <3>1, <3>4, <3>5, <3>6
  <2>5. Ordered(got, Precedes)
    BY <2>2
  <2>6. PICK g : g = f[m] /\ g = Glued(got, seg)
    BY <1>5, <2>1, <2>2, <2>3
  <2>7. /\ g \in Seq(OfFile(file, k)) /\ Ordered(g, Precedes)
        /\ \A j \in DOMAIN g : g[j].end <= seg.end
        /\ got \in Seq(Loose) /\ seg \in Loose => g \in Seq(Loose)
    BY <2>4, <2>5, <2>6, GluedIs
  <2>8. segs \in Seq(Piece(TrackBytes)) => got \in Seq(Loose) /\ seg \in Loose
    BY <1>6, <2>2, <2>3
  <2>9. m \in 0..len /\ Good(f[m], m)
    BY <2>3, <2>6, <2>7, <2>8
  <2> HIDE DEF Good
  <2> QED  BY <2>1, <2>9
<1>9. len \in S
  <2> HIDE DEF S
  <2>1. 0..len \subseteq S
    BY <1>7, <1>8, Climbs
  <2> QED  BY <2>1
<1> QED  BY <1>5, <1>9
-----------------------------------------------------------------------------
(* Packed, with the cards that fit as a set. *)
PackedIn(segs, least, F) ==
  LET good == {n \in least..Len(segs) : \A card \in Range(SplitEvenly(segs, n)) : card \in F}
  IN  IF good # {} THEN SplitEvenly(segs, Min(good)) ELSE Singles(segs)

Plays(cards, T, segs) ==
  /\ cards \in Seq(Seq(T)) /\ FlattenSeq(cards) = segs
  /\ \A k \in DOMAIN cards : cards[k] # <<>>

LEMMA PackedInIs ==
  ASSUME NEW T \in SUBSET Forward, NEW segs \in Seq(T), NEW least \in Nat \ {0}, NEW F
  PROVE  /\ Plays(PackedIn(segs, least, F), T, segs)
         /\ (\A x \in T : <<x>> \in F) =>
              \A k \in DOMAIN PackedIn(segs, least, F) : PackedIn(segs, least, F)[k] \in F
<1>1. PICK len \in Nat : len = Len(segs) /\ DOMAIN segs = 1..len
  BY LenProperties
<1>2. PICK good \in SUBSET (1..len) :
        good = {n \in least..Len(segs) : \A card \in Range(SplitEvenly(segs, n)) : card \in F}
  <2>1. PICK good : good = {n \in least..Len(segs) : \A card \in Range(SplitEvenly(segs, n)) : card \in F}
    OBVIOUS
  <2>2. \A x \in good : x \in 1..len
    BY <1>1, <2>1
  <2> QED  BY <2>1, <2>2
<1>3. CASE good # {}
  <2>1. PICK n \in Nat \ {0} : n = Min(good) /\ n \in good
    <3>1. \E i \in good : \A j \in good : i <= j
      BY <1>3, FirstPlace
    <3>2. Min(good) \in good
      BY <3>1 DEF Min
    <3>3. \A m \in good : m \in Nat \ {0}
      OBVIOUS
    <3> QED  BY <3>2, <3>3
  <2>2. PICK cards : cards = SplitEvenly(segs, n) /\ PackedIn(segs, least, F) = cards
    BY <1>2, <1>3, <2>1 DEF PackedIn
  <2>3. Plays(cards, T, segs)
    BY <2>2, SplitPlaysAll DEF Plays
  <2>4. \A k \in DOMAIN cards : cards[k] \in F
    <3>1. \A card \in Range(cards) : card \in F
      BY <1>2, <2>1, <2>2
    <3> QED  BY <3>1 DEF Range
  <2> QED  BY <2>2, <2>3, <2>4
<1>4. CASE good = {}
  <2>1. PICK cards : cards = Singles(segs) /\ PackedIn(segs, least, F) = cards
    BY <1>2, <1>4 DEF PackedIn
  <2>2. cards \in Seq(Seq(T)) /\ DOMAIN cards = 1..len /\ FlattenSeq(cards) = segs
    BY <1>1, <2>1, SinglesAre
  <2>3. \A k \in 1..len : cards[k] = <<segs[k]>> /\ segs[k] \in T
    BY <1>1, <2>1, ElementOfSeq DEF Singles
  <2>4. \A k \in 1..len : cards[k] # <<>>
    <3>1. \A y : <<y>> # <<>>
      OBVIOUS
    <3> QED  BY <2>3, <3>1
  <2>5. Plays(cards, T, segs)
    BY <2>2, <2>4 DEF Plays
  <2>6. (\A x \in T : <<x>> \in F) => \A k \in DOMAIN cards : cards[k] \in F
    BY <2>2, <2>3
  <2> QED  BY <2>1, <2>5, <2>6
<1> QED  BY <1>3, <1>4

(* What a card holds, and the least number of cards. *)
LEMMA TotalsAre ==
  ASSUME NEW segs \in Seq(Forward)
  PROVE  TotalTime(segs) \in Nat /\ TotalBytes(segs) \in Nat /\ Len(segs) \in Nat
<1>1. PICK len \in Nat : len = Len(segs) /\ DOMAIN segs = 1..len
  BY LenProperties
<1>2. \A i \in 1..len : Duration(segs[i]) \in Nat /\ Bytes(segs[i]) \in Nat
  <2>1. \A i \in 1..len : segs[i] \in Forward
    BY <1>1, ElementOfSeq
  <2> QED  BY <2>1, DurationIs DEF Forward
<1>3. PICK d, b : /\ d = Durations(segs) /\ b = [k \in DOMAIN segs |-> Bytes(segs[k])]
                  /\ d = [k \in DOMAIN segs |-> Duration(segs[k])]
  BY DEF Durations
<1>4. Len(d) = len /\ Len(b) = len /\ \A i \in 1..len : d[i] \in Nat /\ b[i] \in Nat
  BY <1>1, <1>2, <1>3
<1>5. Sums(d)[len] \in Nat /\ Sums(b)[len] \in Nat
  <2>1. len \in 0..len
    OBVIOUS
  <2> QED  BY <1>4, <2>1, SumsAre
<1> QED  BY <1>1, <1>3, <1>4, <1>5 DEF TotalTime, TotalBytes, Total

LEMMA LeastCardsAre ==
  ASSUME NEW segs \in Seq(Forward), NEW bytes \in Nat \ {0}
  PROVE  LeastCards(segs, bytes) \in Nat \ {0}
<1>1. CardTime \in Nat \ {0} /\ CardTracks \in Nat \ {0}
  BY LimitsAssumption
<1>2. /\ CeilDiv(TotalTime(segs), CardTime) \in Nat \ {0} /\ CeilDiv(TotalBytes(segs), bytes) \in Nat \ {0}
      /\ CeilDiv(Len(segs), CardTracks) \in Nat \ {0}
  BY <1>1, TotalsAre, CeilCovers
<1> QED  BY <1>2 DEF LeastCards, Greatest

LEMMA OneTotals ==
  ASSUME NEW x \in Forward
  PROVE  TotalTime(<<x>>) = Duration(x) /\ TotalBytes(<<x>>) = Bytes(x) /\ Len(<<x>>) = 1
<1>1. Duration(x) \in Nat /\ Bytes(x) \in Nat
  BY DurationIs DEF Forward
<1>2. PICK s : s = <<x>> /\ Len(s) = 1 /\ DOMAIN s = 1..1 /\ s[1] = x
  <2>1. Len(<<x>>) = 1 /\ DOMAIN <<x>> = 1..1 /\ <<x>>[1] = x
    OBVIOUS
  <2> QED  BY <2>1
<1>3. PICK d, b : d = [k \in 1..1 |-> Duration(s[k])] /\ b = [k \in 1..1 |-> Bytes(s[k])]
  OBVIOUS
<1>4. Len(d) = 1 /\ Len(b) = 1 /\ d[1] = Duration(x) /\ b[1] = Bytes(x)
  BY <1>2, <1>3
<1>5. Sums(d)[1] = Duration(x) /\ Sums(b)[1] = Bytes(x)
  <2>1. \A i \in 1..1 : i = 1 /\ i - 1 = 0
    OBVIOUS
  <2>2. \A i \in 1..1 : d[i] \in Nat /\ b[i] \in Nat
    BY <1>1, <1>4, <2>1
  <2>3. 1 \in 1..1 /\ 1 \in Nat
    OBVIOUS
  <2>4. /\ Sums(d)[0] = 0 /\ Sums(b)[0] = 0
        /\ Sums(d)[1] = Sums(d)[0] + d[1] /\ Sums(b)[1] = Sums(b)[0] + b[1]
    <3>1. Sums(d)[0] = 0 /\ \A i \in 1..1 : Sums(d)[i] = Sums(d)[i - 1] + d[i]
      <4>1. Len(d) = 1 /\ 1 \in Nat /\ \A i \in 1..1 : d[i] \in Nat
        BY <1>4, <2>2
      <4> QED  BY <4>1, SumsAre
    <3>2. Sums(b)[0] = 0 /\ \A i \in 1..1 : Sums(b)[i] = Sums(b)[i - 1] + b[i]
      <4>1. Len(b) = 1 /\ 1 \in Nat /\ \A i \in 1..1 : b[i] \in Nat
        BY <1>4, <2>2
      <4> QED  BY <4>1, SumsAre
    <3>3. 1 - 1 = 0
      OBVIOUS
    <3> QED  BY <2>3, <3>1, <3>2, <3>3
  <2> QED  BY <1>1, <1>4, <2>4
<1> QED  BY <1>2, <1>3, <1>4, <1>5 DEF TotalTime, TotalBytes, Total, Durations

LEMMA LimitsAre ==
  /\ TrackTime \in Nat \ {0} /\ TrackBytes \in Nat \ {0} /\ CardTime \in Nat \ {0} /\ CardBytes \in Nat \ {0}
  /\ CardTracks \in Nat \ {0} /\ Sliver \in Nat \ {0} /\ CardMargin \in Nat
  /\ TrackTime + Sliver + CardMargin <= CardTime /\ TrackBytes <= CardBytes
  /\ ShareTrackBytes \in Nat \ {0} /\ ShareTrackBytes <= TrackBytes
  /\ ShareCardBytes \in Nat \ {0} /\ ShareTrackBytes <= ShareCardBytes /\ ShareCardBytes <= CardBytes
BY LimitsAssumption

LEMMA PackCardsAre ==
  ASSUME NEW T \in SUBSET Forward, NEW segs \in Seq(T)
  PROVE  /\ Plays(PackCards(segs), T, segs)
         /\ (\A x \in T : FitsCard(<<x>>)) => \A k \in DOMAIN PackCards(segs) : FitsCard(PackCards(segs)[k])
<1>1. PICK least \in Nat \ {0} : least = LeastCards(segs, CardBytes)
  <2>1. segs \in Seq(Forward)
    OBVIOUS
  <2> QED  BY <2>1, LimitsAre, LeastCardsAre
<1>2. PICK F : F = {card \in Seq(T) : FitsCard(card)}
  OBVIOUS
<1>3. ASSUME NEW n \in least..Len(segs), NEW card \in Range(SplitEvenly(segs, n))
      PROVE  FitsCard(card) <=> card \in F
  <2>1. PICK cards \in Seq(Seq(T)) : cards = SplitEvenly(segs, n)
    <3>1. n \in Nat \ {0}
      BY <1>1
    <3> QED  BY <3>1, SplitPlaysAll
  <2>2. PICK k \in DOMAIN cards : card = cards[k]
    BY <1>3, <2>1 DEF Range
  <2>3. card \in Seq(T)
    BY <2>1, <2>2, LenProperties, ElementOfSeq
  <2> QED  BY <1>2, <2>3
<1>4. {n \in least..Len(segs) : \A card \in Range(SplitEvenly(segs, n)) : FitsCard(card)}
        = {n \in least..Len(segs) : \A card \in Range(SplitEvenly(segs, n)) : card \in F}
  BY <1>3
<1>5. PackCards(segs) = PackedIn(segs, least, F)
  BY <1>1, <1>4 DEF PackCards, Packed, PackedIn, Singles
<1>6. ASSUME \A x \in T : FitsCard(<<x>>), NEW x \in T  PROVE <<x>> \in F
  <2>1. <<x>> \in Seq(T)
    OBVIOUS
  <2> QED  BY <1>2, <1>6, <2>1
<1>7. PICK cards : cards = PackedIn(segs, least, F)
  OBVIOUS
<1>8. Plays(cards, T, segs) /\ ((\A x \in T : <<x>> \in F) => \A k \in DOMAIN cards : cards[k] \in F)
  BY <1>7, PackedInIs
<1>9. \A card \in F : FitsCard(card)
  BY <1>2
<1> QED  BY <1>5, <1>6, <1>7, <1>8, <1>9

LEMMA PlanTracksAre ==
  ASSUME NEW T \in SUBSET Forward, NEW segs \in Seq(T)
  PROVE  /\ Plays(PlanTracks(segs), T, segs)
         /\ (\A x \in T : FitsWithMargin(<<x>>)) =>
              \A k \in DOMAIN PlanTracks(segs) : FitsWithMargin(PlanTracks(segs)[k])
<1>1. PICK least \in Nat \ {0} : least = LeastCards(segs, ShareCardBytes)
  <2>1. segs \in Seq(Forward)
    OBVIOUS
  <2> QED  BY <2>1, LimitsAre, LeastCardsAre
<1>2. PICK F : F = {card \in Seq(T) : FitsWithMargin(card)}
  OBVIOUS
<1>3. ASSUME NEW n \in least..Len(segs), NEW card \in Range(SplitEvenly(segs, n))
      PROVE  FitsWithMargin(card) <=> card \in F
  <2>1. PICK cards \in Seq(Seq(T)) : cards = SplitEvenly(segs, n)
    <3>1. n \in Nat \ {0}
      BY <1>1
    <3> QED  BY <3>1, SplitPlaysAll
  <2>2. PICK k \in DOMAIN cards : card = cards[k]
    BY <1>3, <2>1 DEF Range
  <2>3. card \in Seq(T)
    BY <2>1, <2>2, LenProperties, ElementOfSeq
  <2> QED  BY <1>2, <2>3
<1>4. {n \in least..Len(segs) : \A card \in Range(SplitEvenly(segs, n)) : FitsWithMargin(card)}
        = {n \in least..Len(segs) : \A card \in Range(SplitEvenly(segs, n)) : card \in F}
  BY <1>3
<1>5. PlanTracks(segs) = PackedIn(segs, least, F)
  BY <1>1, <1>4 DEF PlanTracks, Packed, PackedIn, Singles
<1>6. ASSUME \A x \in T : FitsWithMargin(<<x>>), NEW x \in T  PROVE <<x>> \in F
  <2>1. <<x>> \in Seq(T)
    OBVIOUS
  <2> QED  BY <1>2, <1>6, <2>1
<1>7. PICK cards : cards = PackedIn(segs, least, F)
  OBVIOUS
<1>8. Plays(cards, T, segs) /\ ((\A x \in T : <<x>> \in F) => \A k \in DOMAIN cards : cards[k] \in F)
  BY <1>7, PackedInIs
<1>9. \A card \in F : FitsWithMargin(card)
  BY <1>2
<1> QED  BY <1>5, <1>6, <1>7, <1>8, <1>9

LEMMA PiecesFit ==
  /\ \A x \in Piece(TrackBytes) : FitsCard(<<x>>)
  /\ \A x \in Piece(ShareTrackBytes) : FitsWithMargin(<<x>>)
  /\ \A card \in Seq(Forward) : FitsWithMargin(card) => FitsCard(card)
<1>1. ASSUME NEW x \in Piece(TrackBytes)  PROVE FitsCard(<<x>>)
  <2>1. x \in Forward /\ Duration(x) \in Nat /\ Bytes(x) \in Nat /\ Duration(x) <= TrackTime /\ Bytes(x) <= TrackBytes
    BY DurationIs DEF Piece, Forward
  <2>2. TotalTime(<<x>>) = Duration(x) /\ TotalBytes(<<x>>) = Bytes(x) /\ Len(<<x>>) = 1
    BY <2>1, OneTotals
  <2> QED  BY <2>1, <2>2, LimitsAre DEF FitsCard
<1>2. ASSUME NEW x \in Piece(ShareTrackBytes)  PROVE FitsWithMargin(<<x>>)
  <2>1. x \in Forward /\ Duration(x) \in Nat /\ Bytes(x) \in Nat /\ Duration(x) <= TrackTime /\ Bytes(x) <= ShareTrackBytes
    BY DurationIs DEF Piece, Forward
  <2>2. TotalTime(<<x>>) = Duration(x) /\ TotalBytes(<<x>>) = Bytes(x) /\ Len(<<x>>) = 1
    BY <2>1, OneTotals
  <2> QED  BY <2>1, <2>2, LimitsAre DEF FitsWithMargin
<1>3. ASSUME NEW card \in Seq(Forward), FitsWithMargin(card)  PROVE FitsCard(card)
  <2>1. TotalTime(card) \in Nat /\ TotalBytes(card) \in Nat
    BY TotalsAre
  <2> QED  BY <1>3, <2>1, LimitsAre DEF FitsWithMargin, FitsCard
<1> QED  BY <1>1, <1>2, <1>3

LEMMA LooseFit ==
  ASSUME NEW file \in Source, NEW k \in Nat, Roomy(file), NEW x \in OfFile(file, k), x \in Loose
  PROVE  FitsCard(<<x>>)
<1>1. x \in Forward /\ Duration(x) \in Nat /\ Bytes(x) \in Nat /\ x.rate = file.rate
  BY DurationIs DEF OfFile, Forward
<1>2. PICK gap \in 0..Sliver - 1 :
        Duration(x) - gap <= TrackTime /\ (Duration(x) - gap) * x.rate <= TrackBytes
  BY DEF Loose, TrackFits
<1>3. PICK r \in Nat, d \in Nat : r = x.rate /\ d = Duration(x)
  BY <1>1, SourceIs
<1>4. d * r <= TrackBytes + Sliver * r
  <2>1. d * r = (d - gap) * r + gap * r
    BY <1>2, LimitsAre
  <2>2. gap * r <= Sliver * r /\ gap * r \in Nat /\ Sliver * r \in Nat
    <3>1. gap \in Nat /\ Sliver \in Nat /\ gap <= Sliver
      BY LimitsAre
    <3> QED  BY <3>1, TimesGrows
  <2>3. (d - gap) * r <= TrackBytes /\ (d - gap) * r \in Int
    BY <1>2, <1>3, LimitsAre
  <2> QED  BY <2>1, <2>2, <2>3, LimitsAre
<1>5. Bytes(x) <= CardBytes
  <2>1. Bytes(x) = d * r /\ TrackBytes + Sliver * r <= CardBytes
    BY <1>1, <1>3 DEF Bytes, Roomy
  <2>2. Sliver * r \in Nat
    BY LimitsAre
  <2> QED  BY <1>1, <1>4, <2>1, <2>2, LimitsAre
<1>6. TotalTime(<<x>>) = Duration(x) /\ TotalBytes(<<x>>) = Bytes(x) /\ Len(<<x>>) = 1
  BY <1>1, OneTotals
<1>7. Duration(x) <= CardTime
  BY <1>1, <1>2, LimitsAre
<1> QED  BY <1>5, <1>6, <1>7, LimitsAre DEF FitsCard

(* What PlanRight says of one plan.                                        *)
Fitting(plan, bytes, dropped) ==
  \A k \in DOMAIN plan : FitsCard(plan[k]) /\ \A track \in Range(plan[k]) : TrackFits(track, bytes, dropped)
InTurn(plan) ==
  /\ \A k \in DOMAIN plan : plan[k] # <<>>
  /\ LET tracks == FlattenSeq(plan) IN
       \A j \in DOMAIN tracks :
         tracks[j].start <= tracks[j].end /\ (j > 1 => Follows(tracks[j - 1], tracks[j]))

LEMMA PlaysInTurn ==
  ASSUME NEW T \in SUBSET Forward, NEW segs \in Seq(T), Ordered(segs, Precedes), NEW plan, Plays(plan, T, segs)
  PROVE  InTurn(plan) /\ \A k \in DOMAIN plan : plan[k] \in Seq(T) /\ Range(plan[k]) \subseteq T
<1>1. PICK len \in Nat : len = Len(segs) /\ DOMAIN segs = 1..len
  BY LenProperties
<1>2. plan \in Seq(Seq(T)) /\ FlattenSeq(plan) = segs /\ \A k \in DOMAIN plan : plan[k] # <<>>
  BY DEF Plays
<1>3. ASSUME NEW j \in 1..len
      PROVE  segs[j].start <= segs[j].end /\ (j > 1 => Follows(segs[j - 1], segs[j]))
  <2>1. segs[j] \in Forward
    BY <1>1, ElementOfSeq
  <2>2. ASSUME j > 1  PROVE Follows(segs[j - 1], segs[j])
    <3>1. j - 1 \in 1..len /\ j - 1 < j
      BY <2>2
    <3>2. <<segs[j - 1], segs[j]>> \in Precedes
      BY <1>1, <3>1 DEF Ordered
    <3> QED  BY <3>2 DEF Precedes
  <2> QED  BY <2>1, <2>2 DEF Forward
<1>4. InTurn(plan)
  BY <1>1, <1>2, <1>3 DEF InTurn
<1>5. ASSUME NEW k \in DOMAIN plan  PROVE plan[k] \in Seq(T) /\ Range(plan[k]) \subseteq T
  <2>1. plan[k] \in Seq(T)
    BY <1>2, LenProperties, ElementOfSeq
  <2>2. PICK card \in Seq(T) : card = plan[k]
    BY <2>1
  <2>3. \A i \in DOMAIN card : card[i] \in T
    BY LenProperties, ElementOfSeq
  <2>4. Range(card) \subseteq T
    BY <2>3 DEF Range
  <2> QED  BY <2>2, <2>4
<1> QED  BY <1>4, <1>5

LEMMA PiecesAreTracks ==
  ASSUME NEW bytes \in Nat, NEW x \in Piece(bytes)
  PROVE  TrackFits(x, bytes, 0)
<1>1. Duration(x) \in Nat /\ Duration(x) <= TrackTime /\ Bytes(x) <= bytes
  BY DurationIs DEF Piece, Forward
<1>2. 0 \in 0..0 /\ Duration(x) - 0 = Duration(x)
  BY <1>1
<1> QED  BY <1>1, <1>2 DEF TrackFits, Bytes

(* A book whose chapters follow each other, with limits worth whole units  *)
(* of each file's time, is planned within the limits and in order.         *)
LEMMA BookPlanRight ==
  ASSUME NEW files \in Seq(Source), ChaptersFollow(files), RatesAreWhole(files, ShareTrackBytes)
  PROVE  Fitting(PlanBook(files), ShareTrackBytes, 0) /\ InTurn(PlanBook(files))
<1>1. PICK T \in SUBSET Forward : T = Piece(ShareTrackBytes)
  BY DEF Piece
<1>2. PICK segs \in Seq(T) : segs = ShareTracks(files) /\ Ordered(segs, Precedes)
  BY <1>1, ShareTracksAre
<1>3. PICK plan : plan = PlanBook(files) /\ plan = PlanTracks(segs)
  BY <1>2 DEF PlanBook
<1>4. Plays(plan, T, segs) /\ \A k \in DOMAIN plan : FitsWithMargin(plan[k])
  <2>1. \A x \in T : FitsWithMargin(<<x>>)
    BY <1>1, PiecesFit
  <2> QED  BY <1>3, <2>1, PlanTracksAre
<1>5. InTurn(plan) /\ \A k \in DOMAIN plan : plan[k] \in Seq(T) /\ Range(plan[k]) \subseteq T
  BY <1>2, <1>4, PlaysInTurn
<1>6. ASSUME NEW k \in DOMAIN plan
      PROVE  FitsCard(plan[k]) /\ \A track \in Range(plan[k]) : TrackFits(track, ShareTrackBytes, 0)
  <2>1. plan[k] \in Seq(Forward)
    BY <1>5
  <2>2. \A track \in Range(plan[k]) : track \in Piece(ShareTrackBytes)
    BY <1>1, <1>5
  <2>3. ShareTrackBytes \in Nat
    BY LimitsAre
  <2>4. \A track \in Range(plan[k]) : TrackFits(track, ShareTrackBytes, 0)
    BY <2>2, <2>3, PiecesAreTracks
  <2> QED  BY <1>4, <2>1, <2>4, PiecesFit
<1> QED  BY <1>3, <1>5, <1>6 DEF Fitting

LEMMA FilePlanRight ==
  ASSUME NEW file \in Source, NEW merge \in BOOLEAN,
         InOrder(file.chapters), WholeRate(file, TrackBytes), Roomy(file)
  PROVE  /\ Fitting(PrepPlan(file, merge), TrackBytes, IF merge THEN Sliver - 1 ELSE 0)
         /\ InTurn(PrepPlan(file, merge))
<1>1. PICK cut \in Seq(OfFile(file, 1)) :
        cut = BuildSegments(file, 1, TrackBytes) /\ Ordered(cut, Precedes) /\ cut \in Seq(Piece(TrackBytes))
  BY LimitsAre, SegmentsAre
<1>2. ASSUME NEW T \in SUBSET Forward, NEW segs \in Seq(T), Ordered(segs, Precedes), segs = PrepTracks(file, merge),
             NEW dropped, \A x \in T : FitsCard(<<x>>) /\ TrackFits(x, TrackBytes, dropped)
      PROVE  Fitting(PrepPlan(file, merge), TrackBytes, dropped) /\ InTurn(PrepPlan(file, merge))
  <2>1. PICK plan : plan = PrepPlan(file, merge) /\ plan = PackCards(segs)
    BY <1>2 DEF PrepPlan
  <2>2. Plays(plan, T, segs) /\ \A k \in DOMAIN plan : FitsCard(plan[k])
    BY <1>2, <2>1, PackCardsAre
  <2>3. InTurn(plan) /\ \A k \in DOMAIN plan : Range(plan[k]) \subseteq T
    BY <1>2, <2>2, PlaysInTurn
  <2> QED  BY <1>2, <2>1, <2>2, <2>3 DEF Fitting
<1>3. CASE merge
  <2>1. PICK T \in SUBSET Forward : T = OfFile(file, 1) \cap Loose
    BY DEF OfFile
  <2>2. PICK segs : segs = PrepTracks(file, merge) /\ segs = MergeSegments(cut)
    BY <1>1, <1>3 DEF PrepTracks
  <2>3. segs \in Seq(OfFile(file, 1)) /\ segs \in Seq(Loose) /\ Ordered(segs, Precedes)
    BY <1>1, <2>2, MergeSegmentsAre
  <2>4. segs \in Seq(T)
    BY <2>1, <2>3
  <2>5. ASSUME NEW x \in T  PROVE FitsCard(<<x>>) /\ TrackFits(x, TrackBytes, Sliver - 1)
    <3>1. x \in OfFile(file, 1) /\ x \in Loose
      BY <2>1
    <3> QED  BY <3>1, LooseFit DEF Loose
  <2> QED  BY <1>2, <1>3, <2>2, <2>3, <2>4, <2>5
<1>4. CASE ~merge
  <2>1. PICK T \in SUBSET Forward : T = Piece(TrackBytes)
    BY DEF Piece
  <2>2. PICK segs \in Seq(T) : segs = PrepTracks(file, merge) /\ segs = cut
    BY <1>1, <1>4, <2>1 DEF PrepTracks
  <2>3. TrackBytes \in Nat
    BY LimitsAre
  <2>4. \A x \in T : FitsCard(<<x>>) /\ TrackFits(x, TrackBytes, 0)
    BY <2>1, <2>3, PiecesFit, PiecesAreTracks
  <2> QED  BY <1>1, <1>2, <1>4, <2>2, <2>4
<1> QED  BY <1>3, <1>4
-----------------------------------------------------------------------------
(* The protocol. *)

(* A file carries the number of the contents it came with: it is among     *)
(* them, and has been the same since.                                      *)
LibraryInv ==
  /\ library \in Seq(Held) /\ library # <<>>
  /\ since \in Seq(Seq(Nat)) /\ Len(since) = Len(library)
  /\ DOMAIN Stamps = DOMAIN library[Now]
  /\ \A k \in DOMAIN Stamps :
       Stamps[k] \in 1..Now /\ k \in DOMAIN library[Stamps[k]] /\ library[Stamps[k]][k] = library[Now][k]

(* The k-th file has been of version z, and is of none before it.          *)
Was(k, z) == z \in 1..Now /\ k \in DOMAIN library[z] /\ (k \in DOMAIN Stamps => z <= Stamps[k])
Later(k, s, z) == s <= z /\ Was(k, z)

RequestFields == {"pc", "root", "seen", "link", "stamp", "found", "card", "cards", "zip", "complete"}
InStream == {"check", "cut", "send", "close"}

(* A file is probed as it was when it was stamped, or later.               *)
FoundSound(r) ==
  /\ r.stamp \in Seq(Nat) /\ DOMAIN r.found \subseteq DOMAIN r.stamp
  /\ \A k \in DOMAIN r.stamp : Was(k, r.stamp[k])
  /\ \A k \in DOMAIN r.found : Later(k, r.stamp[k], r.found[k])

(* A download: a file was planned, and its tracks are cut, as it was when  *)
(* it was stamped or later, and as it was just then once a check of it was *)
(* passed.                                                                 *)
Checked(r) == IF r.pc \in {"cut", "send"} THEN Len(r.zip) + 1 ELSE Len(r.zip)
StreamSound(r) ==
  /\ FoundSound(r) /\ DOMAIN r.found = DOMAIN r.stamp
  /\ r.link = r.stamp /\ r.card \in DOMAIN r.cards /\ r.zip \in Seq(Nat)
  /\ \A j \in 1..Checked(r) :
       FileOf(r, j) \in DOMAIN r.stamp /\ r.found[FileOf(r, j)] = r.stamp[FileOf(r, j)]
  /\ \A j \in 1..Len(r.zip) : Later(FileOf(r, j), r.stamp[FileOf(r, j)], r.zip[j])
  /\ \A i \in 1..Len(r.zip) : \A j \in 1..Checked(r) :
       i < j /\ FileOf(r, i) = FileOf(r, j) => r.zip[i] = r.stamp[FileOf(r, i)]
  /\ r.pc = "send" => Later(FileOf(r, Turn(r)), r.stamp[FileOf(r, Turn(r))], r.seen)
  /\ r.pc = "close" => Len(r.zip) = Len(r.cards[r.card])

(* What CompleteZipIsWhole says of one request.                            *)
ZipWhole(r) ==
  /\ Len(r.zip) = Len(r.cards[r.card])
  /\ \A j \in DOMAIN r.zip : r.found[FileOf(r, j)] = r.link[FileOf(r, j)]
  /\ \A i, j \in DOMAIN r.zip : i < j /\ FileOf(r, i) = FileOf(r, j) => r.zip[i] = r.link[FileOf(r, i)]

Sound(r) ==
  /\ DOMAIN r = RequestFields
  /\ r.pc \in {"idle", "scan", "probe"} \cup InStream
  /\ r.pc = "scan" => r.root \in Root /\ r.seen \in 1..Now
  /\ r.pc = "probe" => FoundSound(r) /\ r.zip = <<>>
  /\ r.pc \in InStream => StreamSound(r)
  /\ r.complete => r.pc = "idle" /\ ZipWhole(r)

ThreadsInv ==
  /\ thread = [t \in Thread |-> thread[t]]
  /\ \A t \in Thread : Sound(thread[t])

(* A probe of the cache is of the stamp's version of its file, or later.   *)
InfosInv == \A s \in DOMAIN infos : s[2] \in Nat /\ Later(s[1], s[2], infos[s])

(* A slot is free, or one thread has it. *)
SlotsInv ==
  /\ downloads \in Nat /\ planners \in Nat
  /\ downloads + Cardinality(Streaming) = DownloadSlots
  /\ planners + Cardinality(Planning) = PlannerSlots

(* No listing is younger than the scan that may replace it. *)
ScanInv ==
  /\ catalogue = [root \in Root |-> catalogue[root]]
  /\ \A root \in Root : catalogue[root] \in (1..Now) \cup {None}
  /\ scanLock \in Thread \cup {None}
  /\ \A t \in Thread : thread[t].pc = "scan" =>
       /\ scanLock = t
       /\ \A root \in Root : catalogue[root] # None => catalogue[root] <= thread[t].seen

PrepFields == {"pc", "of", "plan", "stamp", "left", "force", "merge"}
CutBy(plan, at, v) ==
  at \in DOMAIN out.tracks /\ \E c \in v..Now : Was(1, c) /\ out.tracks[at] = <<c, plan[at[1]][at[2]]>>

PrepShape ==
  /\ DOMAIN prep = PrepFields /\ prep.pc \in {"off", "stamp", "cut", "write"}
  /\ DOMAIN out = {"tracks", "manifest", "spoilt"}
  /\ prep.pc = "write" => prep.left = {}

(* The plan of a run is that of the version it probed.                     *)
Probed ==
  /\ Was(1, prep.of) /\ prep.merge \in BOOLEAN
  /\ prep.plan = PrepPlan(library[prep.of][1], prep.merge)

(* A run cuts its tracks after it read its stamp ...                       *)
CutSince(v) ==
  /\ Was(1, v) /\ prep.stamp = StampOf(prep.plan, prep.merge, v)
  /\ \A at \in Tracks(prep.plan) \ prep.left : CutBy(prep.plan, at, v)

(* ... so that a manifest that is not spoilt vouches for the tracks of its *)
(* own plan.                                                               *)
Vouches(v, m, plan) ==
  /\ Was(1, v) /\ plan = PrepPlan(library[v][1], m)
  /\ out.manifest = StampOf(plan, m, v)
  /\ \A at \in Tracks(plan) : CutBy(plan, at, v)
Vouched == \E v \in 1..Now, m \in BOOLEAN : \E plan \in {PrepPlan(library[v][1], m)} : Vouches(v, m, plan)

PrepInv ==
  /\ PrepShape
  /\ prep.pc # "off" => Probed
  /\ prep.pc \in {"cut", "write"} => \E v \in prep.of..Now : CutSince(v)
  /\ prep.pc \in {"off", "stamp"} /\ out.manifest # None /\ ~out.spoilt => Vouched

IInv == LibraryInv /\ ThreadsInv /\ InfosInv /\ SlotsInv /\ ScanInv /\ PrepInv
-----------------------------------------------------------------------------

(* The library only grows: a version stays what it was, and a file is as   *)
(* it was or comes with the new contents.                                  *)
LEMMA LibraryGrows ==
  ASSUME LibraryInv, [Next]_vars
  PROVE  /\ LibraryInv' /\ Now \in Nat \ {0} /\ Now' \in Nat \ {0} /\ Now <= Now'
         /\ \A v \in 1..Now : library'[v] = library[v]
         /\ \A k \in DOMAIN Stamps' : Stamps'[k] = Now + 1 \/ (k \in DOMAIN Stamps /\ Stamps'[k] = Stamps[k])
<1>0. /\ library \in Seq(Held) /\ library # <<>> /\ Now \in Nat \ {0} /\ Now = Len(library)
      /\ since \in Seq(Seq(Nat)) /\ Len(since) = Now
  BY DEF LibraryInv, Now
<1>h. \A files \in Held : files \in Seq(Source)
  BY BooksAssumption DEF Held
<1>1. CASE ChangeBook
  <2>1. PICK files \in Books : \E kept \in SUBSET (DOMAIN files \cap DOMAIN library[Now]) :
          /\ \A k \in kept : files[k] = library[Now][k]
          /\ library' = Append(library, files)
          /\ since' = Append(since, [k \in DOMAIN files |-> IF k \in kept THEN Stamps[k] ELSE Now + 1])
    BY <1>1 DEF ChangeBook
  <2>a. PICK kept \in SUBSET (DOMAIN files \cap DOMAIN library[Now]) :
          /\ \A k \in kept : files[k] = library[Now][k]
          /\ library' = Append(library, files)
          /\ since' = Append(since, [k \in DOMAIN files |-> IF k \in kept THEN Stamps[k] ELSE Now + 1])
    BY <2>1
  <2>2. PICK stamps :
          /\ \A k \in kept : files[k] = library[Now][k]
          /\ library' = Append(library, files) /\ since' = Append(since, stamps)
          /\ stamps = [k \in DOMAIN files |-> IF k \in kept THEN Stamps[k] ELSE Now + 1]
    BY <2>a
  <2>3. files \in Held /\ files \in Seq(Source) /\ kept \subseteq DOMAIN Stamps
    BY <1>h, <2>2 DEF Held, LibraryInv
  <2>4. stamps \in Seq(Nat) /\ DOMAIN stamps = DOMAIN files
    <3>1. \A k \in kept : Stamps[k] \in Nat
      BY <2>3 DEF LibraryInv
    <3>2. PICK n \in Nat : n = Len(files) /\ DOMAIN files = 1..n
      BY <2>3, LenProperties
    <3>3. \A k \in 1..n : stamps[k] \in Nat
      BY <1>0, <2>2, <3>1, <3>2
    <3> QED  BY <2>2, <3>2, <3>3, SeqDef
  <2>5. /\ library' \in Seq(Held) /\ library' # <<>> /\ Len(library') = Now + 1
        /\ library'[Now + 1] = files /\ \A v \in 1..Now : library'[v] = library[v]
    <3>0. library \in Seq(Held) /\ files \in Held
      BY <1>0, <2>3
    <3>1. PICK more : more = Append(library, files)
      OBVIOUS
    <3>2. more \in Seq(Held) /\ more # <<>> /\ Len(more) = Len(library) + 1
      BY <3>0, <3>1, AppendProperties
    <3>3. more[Len(library) + 1] = files /\ \A v \in 1..Len(library) : more[v] = library[v]
      BY <3>0, <3>1, AppendProperties
    <3> QED  BY <1>0, <2>2, <3>1, <3>2, <3>3
  <2>6. since' \in Seq(Seq(Nat)) /\ Len(since') = Now + 1 /\ since'[Now + 1] = stamps
    <3>1. /\ Append(since, stamps) \in Seq(Seq(Nat)) /\ Len(Append(since, stamps)) = Len(since) + 1
          /\ Append(since, stamps)[Len(since) + 1] = stamps
      BY <1>0, <2>4, AppendProperties
    <3> QED  BY <1>0, <2>2, <3>1
  <2>7. Now' = Now + 1 /\ Stamps' = stamps
    BY <1>0, <2>5, <2>6 DEF Now, Stamps
  <2>8. ASSUME NEW k \in DOMAIN stamps
        PROVE  /\ stamps[k] \in 1..Now' /\ k \in DOMAIN library'[stamps[k]] /\ library'[stamps[k]][k] = files[k]
               /\ stamps[k] = Now + 1 \/ (k \in DOMAIN Stamps /\ stamps[k] = Stamps[k])
    <3>1. CASE k \in kept
      <4>1. /\ stamps[k] = Stamps[k] /\ Stamps[k] \in 1..Now /\ k \in DOMAIN library[Stamps[k]]
            /\ library[Stamps[k]][k] = files[k] /\ k \in DOMAIN Stamps
        BY <2>2, <2>3, <2>4, <3>1 DEF LibraryInv
      <4> QED  BY <1>0, <2>5, <2>7, <4>1
    <3>2. CASE k \notin kept
      BY <1>0, <2>2, <2>4, <2>5, <2>7, <3>2
    <3> QED  BY <3>1, <3>2
  <2>9. LibraryInv'
    BY <2>4, <2>5, <2>6, <2>7, <2>8 DEF LibraryInv, Now
  <2> QED  BY <1>0, <2>5, <2>7, <2>8, <2>9
<1>2. CASE library' = library /\ since' = since
  <2>1. Now' = Now /\ Stamps' = Stamps
    BY <1>2 DEF Now, Stamps
  <2>2. LibraryInv'
    BY <1>2, <2>1 DEF LibraryInv
  <2> QED  BY <1>0, <1>2, <2>1, <2>2
<1>3. ChangeBook \/ (library' = library /\ since' = since)
  <2>1. ASSUME NEW t \in Thread, ThreadStep(t)  PROVE library' = library /\ since' = since
    BY <2>1 DEF ThreadStep, EndScan, ProbeFile, PlanAndAdmit, PlanFails, CheckSource, CutTrack, SendTrack, CloseZip,
           FailDownload, Disconnect, EndStream, Step
  <2>2. ASSUME PrepStep \/ PrepBreaksOff  PROVE library' = library /\ since' = since
    BY <2>2 DEF PrepStep, ReadStamp, PrepTrack, OpenManifest, WriteManifest, PrepBreaksOff
  <2>3. ASSUME NEW t \in Thread, NEW root \in Root, BeginScan(t, root)  PROVE library' = library /\ since' = since
    BY <2>3 DEF BeginScan
  <2>4. ASSUME NEW t \in Thread, NEW card \in 0..2, NEW link \in 1..Now, GetBook(t, card, link)
        PROVE  library' = library /\ since' = since
    BY <2>4 DEF GetBook
  <2>5. ASSUME RestartService \/ \E force, merge \in BOOLEAN : BeginPrep(force, merge)
        PROVE  library' = library /\ since' = since
    BY <2>5 DEF RestartService, BeginPrep
  <2>6. ASSUME UNCHANGED vars  PROVE library' = library /\ since' = since
    BY <2>6 DEF vars
  <2> QED  BY <2>1, <2>2, <2>3, <2>4, <2>5, <2>6, Zenon DEF Next
<1> QED  BY <1>1, <1>2, <1>3

(* The library holds books only. *)
LEMMA HeldAre == Held \subseteq Seq(Source)
BY BooksAssumption DEF Held

LEMMA LibraryHolds ==
  ASSUME LibraryInv, NEW v \in 1..Now
  PROVE  library[v] \in Held /\ library[v] \in Seq(Source)
<1>1. library[v] \in Held
  BY ElementOfSeq DEF LibraryInv, Now
<1> QED  BY <1>1, HeldAre

(* What a file has been it has been for good.                              *)
LEMMA WasKept ==
  ASSUME LibraryInv, [Next]_vars, NEW k, NEW z, Was(k, z)
  PROVE  Was(k, z)'
<1>1. /\ Now \in Nat /\ Now' \in Nat /\ Now <= Now' /\ library'[z] = library[z] /\ z \in 1..Now
      /\ k \in DOMAIN library[z]
  BY LibraryGrows DEF Was
<1>2. ASSUME k \in DOMAIN Stamps'  PROVE z <= Stamps'[k]
  <2>1. Stamps'[k] = Now + 1 \/ (k \in DOMAIN Stamps /\ Stamps'[k] = Stamps[k])
    BY <1>2, LibraryGrows
  <2>2. k \in DOMAIN Stamps => z <= Stamps[k]
    BY DEF Was
  <2> QED  BY <1>1, <2>1, <2>2
<1> QED  BY <1>1, <1>2 DEF Was

(* A file is what it is now; and what it has been since a stamp that is    *)
(* still right is just that.                                               *)
LEMMA WasNow ==
  ASSUME LibraryInv, NEW k \in DOMAIN Stamps
  PROVE  /\ Was(k, Stamps[k])
         /\ \A s : Was(k, s) => s <= Stamps[k]
         /\ \A z : Later(k, Stamps[k], z) => z = Stamps[k]
BY DEF LibraryInv, Was, Later, Now

(* So a request that was sound still is. *)
LEMMA SoundKept ==
  ASSUME LibraryInv, [Next]_vars, NEW r, Sound(r)
  PROVE  Sound(r)'
<1>0. Now \in Nat /\ Now' \in Nat /\ Now <= Now'
  BY LibraryGrows
<1>1. ASSUME NEW k, NEW s, NEW z, Later(k, s, z)  PROVE Later(k, s, z)'
  BY <1>1, WasKept DEF Later
<1>2. ASSUME FoundSound(r)  PROVE FoundSound(r)'
  <2>1. ASSUME NEW k \in DOMAIN r.stamp  PROVE Was(k, r.stamp[k])'
    BY <1>2, WasKept DEF FoundSound
  <2>2. ASSUME NEW k \in DOMAIN r.found  PROVE Later(k, r.stamp[k], r.found[k])'
    BY <1>1, <1>2 DEF FoundSound
  <2> QED  BY <1>2, <2>1, <2>2 DEF FoundSound
<1>3. ASSUME StreamSound(r)  PROVE StreamSound(r)'
  <2>1. FoundSound(r)'
    BY <1>2, <1>3 DEF StreamSound
  <2>2. ASSUME NEW j \in 1..Len(r.zip)  PROVE Later(FileOf(r, j), r.stamp[FileOf(r, j)], r.zip[j])'
    BY <1>1, <1>3 DEF StreamSound
  <2>3. ASSUME r.pc = "send"  PROVE Later(FileOf(r, Turn(r)), r.stamp[FileOf(r, Turn(r))], r.seen)'
    BY <1>1, <1>3, <2>3 DEF StreamSound
  <2> QED  BY <1>3, <2>1, <2>2, <2>3 DEF StreamSound
<1> QED  BY <1>0, <1>2, <1>3 DEF Sound

(* A thread that goes on soundly leaves the others as they were. *)
LEMMA ThreadMoves ==
  ASSUME LibraryInv, ThreadsInv, [Next]_vars, NEW t \in Thread, NEW r, Sound(r)',
         thread' = [thread EXCEPT ![t] = r]
  PROVE  ThreadsInv' /\ thread'[t] = r /\ \A u \in Thread \ {t} : thread'[u] = thread[u]
<1>0. thread = [u \in Thread |-> thread[u]]
  BY DEF ThreadsInv
<1>1. thread' = [u \in Thread |-> thread'[u]] /\ thread'[t] = r
      /\ \A u \in Thread \ {t} : thread'[u] = thread[u]
  BY <1>0
<1>2. ASSUME NEW u \in Thread  PROVE Sound(thread[u])'
  <2>1. PICK s : s = thread'[u]
    OBVIOUS
  <2>2. Sound(s)'
    <3>1. CASE u = t
      BY <1>1, <2>1, <3>1
    <3>2. CASE u # t
      <4>1. s = thread[u]
        BY <1>1, <2>1, <3>2
      <4>2. Sound(s)
        BY <4>1 DEF ThreadsInv
      <4> QED  BY <4>2, SoundKept
    <3> QED  BY <3>1, <3>2
  <2> QED  BY <2>1, <2>2, Zenon
<1> QED  BY <1>1, <1>2 DEF ThreadsInv

(* An idle thread is sound, and nobody's. *)
LEMMA IdleSound ==
  /\ Idle.pc = "idle" /\ Idle.complete = FALSE /\ DOMAIN Idle = RequestFields /\ Idle.zip = <<>>
  /\ Idle.found = <<>> /\ Sound(Idle)
BY DEF Idle, Sound, RequestFields, InStream

(* A file that is probed, or was under its stamp, is found as it was by    *)
(* then or later.                                                          *)
LEMMA SourceLater ==
  ASSUME LibraryInv, InfosInv, NEW k, NEW s, Was(k, s), NEW v \in SourceInfo(k, s)
  PROVE  Later(k, s, v)
<1>1. CASE \E key \in {<<k, s>>} \cap DOMAIN infos : v = infos[key]
  <2>1. PICK key : key = <<k, s>> /\ key \in DOMAIN infos /\ v = infos[key]
    BY <1>1
  <2>2. key[1] = k /\ key[2] = s
    BY <2>1
  <2> QED  BY <2>1, <2>2 DEF InfosInv
<1>2. CASE \E n \in {k} \cap DOMAIN Stamps : v = Stamps[n]
  BY <1>2, WasNow DEF Later
<1> QED  BY <1>1, <1>2 DEF SourceInfo

(* A request begins, and is planned, soundly: a card is admitted under its *)
(* own stamps only.                                                        *)
LEMMA RequestsBegin ==
  ASSUME LibraryInv, ThreadsInv, InfosInv, [Next]_vars, NEW t \in Thread,
         \/ \E root \in Root : BeginScan(t, root)
         \/ EndScan(t)
         \/ \E card \in 0..2, link \in 1..Now : GetBook(t, card, link)
         \/ ProbeFile(t) \/ PlanAndAdmit(t) \/ PlanFails(t)
  PROVE  ThreadsInv'
<1>0. Now \in Nat \ {0} /\ DOMAIN thread[t] = RequestFields /\ Sound(thread[t])
  BY DEF LibraryInv, Now, ThreadsInv, Sound
<1>a. ASSUME NEW r, Sound(r), thread' = [thread EXCEPT ![t] = r]  PROVE ThreadsInv'
  <2>1. Sound(r)'
    BY <1>a, SoundKept
  <2> QED  BY <1>a, <2>1, ThreadMoves
<1>1. ASSUME NEW root \in Root, BeginScan(t, root)  PROVE ThreadsInv'
  <2>1. PICK r : r = [Idle EXCEPT !.pc = "scan", !.root = root, !.seen = Now]
    OBVIOUS
  <2>2. thread' = [thread EXCEPT ![t] = r]
    BY <1>1, <2>1 DEF BeginScan
  <2>3. r.pc = "scan" /\ r.root = root /\ r.seen = Now /\ r.complete = FALSE /\ DOMAIN r = RequestFields
    BY <2>1, IdleSound DEF RequestFields
  <2>4. Sound(r)
    BY <1>0, <2>3 DEF Sound, InStream
  <2> QED  BY <1>a, <2>2, <2>4
<1>2. CASE EndScan(t) \/ PlanFails(t)
  <2>1. thread' = [thread EXCEPT ![t] = Idle]
    BY <1>2 DEF EndScan, PlanFails
  <2> QED  BY <1>a, <2>1, IdleSound
<1>3. ASSUME NEW card \in 0..2, NEW link \in 1..Now, GetBook(t, card, link)  PROVE ThreadsInv'
  <2>1. PICK to, r : to = since[link] /\ r = [Idle EXCEPT !.pc = "probe", !.stamp = Stamps, !.card = card, !.link = to]
    OBVIOUS
  <2>2. thread' = [thread EXCEPT ![t] = r]
    BY <1>3, <2>1 DEF GetBook
  <2>3. /\ r.pc = "probe" /\ r.stamp = Stamps /\ r.complete = FALSE /\ DOMAIN r = RequestFields /\ r.zip = <<>>
        /\ r.found = <<>>
    BY <2>1, IdleSound DEF RequestFields
  <2>4. Stamps \in Seq(Nat) /\ \A k \in DOMAIN Stamps : Was(k, Stamps[k])
    <3>1. since \in Seq(Seq(Nat)) /\ Now \in 1..Len(since)
      BY <1>0 DEF LibraryInv, Now
    <3>2. Stamps \in Seq(Nat)
      BY <3>1, ElementOfSeq DEF Stamps
    <3> QED  BY <3>2, WasNow
  <2>5. FoundSound(r)
    BY <2>3, <2>4 DEF FoundSound
  <2>6. Sound(r)
    BY <2>3, <2>5 DEF Sound, InStream
  <2> QED  BY <1>a, <2>2, <2>6
<1>4. CASE ProbeFile(t)
  <2>1. PICK q : q = thread[t]
    OBVIOUS
  <2>2. q.pc = "probe" /\ DOMAIN q = RequestFields /\ FoundSound(q) /\ q.zip = <<>> /\ ~q.complete
    BY <1>0, <1>4, <2>1 DEF ProbeFile, Sound
  <2>3. PICK k \in DOMAIN q.stamp \ DOMAIN q.found : \E v \in SourceInfo(k, q.stamp[k]) :
          thread' = [thread EXCEPT ![t] = [q EXCEPT !.found = Noted(q.found, k, v)]]
    BY <1>4, <2>1, Zenon DEF ProbeFile
  <2>a. PICK v \in SourceInfo(k, q.stamp[k]) :
          thread' = [thread EXCEPT ![t] = [q EXCEPT !.found = Noted(q.found, k, v)]]
    BY <2>3
  <2>4. PICK found, r :
          /\ found = Noted(q.found, k, v)
          /\ r = [q EXCEPT !.found = found] /\ thread' = [thread EXCEPT ![t] = r]
    BY <2>a
  <2>5. /\ r.pc = "probe" /\ r.stamp = q.stamp /\ r.found = found /\ r.zip = <<>> /\ r.complete = q.complete
        /\ DOMAIN r = RequestFields
    BY <2>2, <2>4 DEF RequestFields
  <2>6. Later(k, q.stamp[k], v)
    BY <2>2, <2>3, <2>a, SourceLater DEF FoundSound
  <2>7. ASSUME NEW n \in DOMAIN found
        PROVE  n \in DOMAIN q.found \cup {k} /\ Later(n, q.stamp[n], found[n])
    <3>1. CASE n = k
      BY <2>4, <2>6, <3>1 DEF Noted
    <3>2. CASE n # k
      <4>1. n \in DOMAIN q.found /\ found[n] = q.found[n]
        BY <2>4, <2>7, <3>2 DEF Noted
      <4> QED  BY <2>2, <4>1 DEF FoundSound
    <3> QED  BY <3>1, <3>2
  <2>8. FoundSound(r)
    BY <2>2, <2>3, <2>5, <2>7 DEF FoundSound
  <2>9. Sound(r)
    BY <2>2, <2>5, <2>8 DEF Sound, InStream
  <2> QED  BY <1>a, <2>4, <2>9
<1>5. CASE PlanAndAdmit(t)
  <2>1. PICK cards, admitted :
          /\ admitted = (/\ thread[t].card \in DOMAIN cards
                         /\ thread[t].link = thread[t].stamp /\ downloads > 0)
          /\ thread' = [thread EXCEPT ![t] =
               IF admitted THEN [thread[t] EXCEPT !.pc = "check", !.cards = cards]
                           ELSE [Idle EXCEPT !.cards = cards]]
    BY <1>5 DEF PlanAndAdmit
  <2>2. /\ thread[t].pc = "probe" /\ FoundSound(thread[t]) /\ thread[t].zip = <<>> /\ ~thread[t].complete
        /\ DOMAIN thread[t].found = DOMAIN thread[t].stamp
    BY <1>0, <1>5 DEF PlanAndAdmit, Sound
  <2>3. CASE admitted
    <3>1. PICK r : r = [thread[t] EXCEPT !.pc = "check", !.cards = cards]
      OBVIOUS
    <3>2. thread' = [thread EXCEPT ![t] = r]
      BY <2>1, <2>3, <3>1
    <3>3. /\ r.pc = "check" /\ r.cards = cards /\ r.stamp = thread[t].stamp /\ r.link = thread[t].link
          /\ r.card = thread[t].card /\ r.zip = thread[t].zip /\ r.complete = thread[t].complete
          /\ r.found = thread[t].found /\ DOMAIN r = RequestFields
      BY <1>0, <3>1 DEF RequestFields
    <3>4. r.zip = <<>> /\ r.link = r.stamp /\ r.card \in DOMAIN r.cards
      BY <2>1, <2>2, <2>3, <3>3, Zenon
    <3>e. Len(<<>>) = 0 /\ <<>> \in Seq(Nat)
      OBVIOUS
    <3>5. FoundSound(r) /\ DOMAIN r.found = DOMAIN r.stamp
      BY <2>2, <3>3 DEF FoundSound
    <3>6. StreamSound(r)
      BY <3>3, <3>4, <3>e, <3>5 DEF StreamSound, Checked
    <3>7. Sound(r)
      BY <2>2, <3>3, <3>6 DEF Sound, InStream
    <3> QED  BY <1>a, <3>2, <3>7
  <2>4. CASE ~admitted
    <3>1. PICK r : r = [Idle EXCEPT !.cards = cards]
      OBVIOUS
    <3>2. thread' = [thread EXCEPT ![t] = r]
      BY <2>1, <2>4, <3>1
    <3>3. r.pc = "idle" /\ r.complete = FALSE /\ DOMAIN r = RequestFields
      BY <3>1, IdleSound DEF RequestFields
    <3>4. Sound(r)
      BY <3>3 DEF Sound, InStream
    <3> QED  BY <1>a, <3>2, <3>4
  <2> QED  BY <2>3, <2>4
<1> QED  BY <1>1, <1>2, <1>3, <1>4, <1>5

(* A download goes on soundly: a check tells that the file of the next     *)
(* track has not changed since its stamp, so that it was planned, and what *)
(* was cut of it before, as it was then.                                   *)
LEMMA StreamsGoOn ==
  ASSUME LibraryInv, ThreadsInv, [Next]_vars, NEW t \in Thread,
         CheckSource(t) \/ CutTrack(t) \/ SendTrack(t) \/ CloseZip(t) \/ FailDownload(t) \/ Disconnect(t)
  PROVE  ThreadsInv'
<1> DEFINE q == thread[t]
<1>0. Now \in Nat \ {0} /\ DOMAIN q = RequestFields /\ Sound(q)
  BY DEF LibraryInv, Now, ThreadsInv, Sound
<1>1. q.pc \in InStream /\ StreamSound(q) /\ ~q.complete
  BY <1>0 DEF CheckSource, CutTrack, SendTrack, CloseZip, FailDownload, Disconnect, InStream, Sound
<1>2. ASSUME NEW r, Sound(r), thread' = [thread EXCEPT ![t] = r]  PROVE ThreadsInv'
  <2>1. Sound(r)'
    BY <1>2, SoundKept
  <2> QED  BY <1>2, <2>1, ThreadMoves
<1>n. PICK n \in Nat : n = Len(q.zip) /\ q.zip \in Seq(Nat) /\ DOMAIN q.zip = 1..n
  BY <1>1, LenProperties DEF StreamSound
<1>3. CASE CheckSource(t)
  <2>1. PICK r : r = [q EXCEPT !.pc = "cut"]
    OBVIOUS
  <2>2. thread' = [thread EXCEPT ![t] = r] /\ q.pc = "check" /\ SameSource(q)
    BY <1>3, <2>1 DEF CheckSource, Step
  <2>3. /\ r.pc = "cut" /\ r.cards = q.cards /\ r.stamp = q.stamp /\ r.link = q.link /\ r.card = q.card
        /\ r.found = q.found /\ r.zip = q.zip /\ r.complete = q.complete /\ DOMAIN r = RequestFields
    BY <1>0, <2>1 DEF RequestFields
  <2> HIDE DEF q
  <2>4. /\ \A j : FileOf(r, j) = FileOf(q, j)
        /\ Checked(q) = n /\ Checked(r) = n + 1 /\ Turn(q) = n + 1
    BY <1>n, <2>2, <2>3 DEF FileOf, Checked, Turn
  <2>5. PICK k : k = FileOf(q, n + 1) /\ k \in DOMAIN q.stamp /\ k \in DOMAIN Stamps /\ q.stamp[k] = Stamps[k]
    BY <2>2, <2>4 DEF SameSource, Unchanged
  <2>6. \A z : Later(k, q.stamp[k], z) => z = q.stamp[k]
    BY <2>5, WasNow
  <2>7. q.found[k] = q.stamp[k]
    BY <1>1, <2>5, <2>6 DEF StreamSound, FoundSound
  <2>8. ASSUME NEW j \in 1..n + 1
        PROVE  /\ FileOf(q, j) \in DOMAIN q.stamp /\ q.found[FileOf(q, j)] = q.stamp[FileOf(q, j)]
               /\ \A i \in 1..n : i < j /\ FileOf(q, i) = FileOf(q, j) => q.zip[i] = q.stamp[FileOf(q, i)]
    <3>1. CASE j = n + 1
      <4>1. ASSUME NEW i \in 1..n, FileOf(q, i) = k  PROVE q.zip[i] = q.stamp[k]
        <5>1. Later(FileOf(q, i), q.stamp[FileOf(q, i)], q.zip[i])
          BY <1>1, <1>n DEF StreamSound
        <5> QED  BY <2>6, <4>1, <5>1
      <4> QED  BY <2>5, <2>7, <3>1, <4>1
    <3>2. CASE j # n + 1
      <4>1. j \in 1..Checked(q)
        BY <2>4, <3>2
      <4> QED  BY <1>1, <1>n, <4>1 DEF StreamSound
    <3> QED  BY <3>1, <3>2
  <2>9. FoundSound(r)
    BY <1>1, <2>3 DEF StreamSound, FoundSound
  <2>10. \A j \in 1..Len(r.zip) : Later(FileOf(r, j), r.stamp[FileOf(r, j)], r.zip[j])
    BY <1>1, <2>3, <2>4 DEF StreamSound
  <2>11. StreamSound(r)
    <3>1. r.link = r.stamp /\ r.card \in DOMAIN r.cards /\ r.zip \in Seq(Nat) /\ DOMAIN r.found = DOMAIN r.stamp
      BY <1>1, <2>3 DEF StreamSound
    <3> QED  BY <1>n, <2>3, <2>4, <2>8, <2>9, <2>10, <3>1 DEF StreamSound
  <2>12. Sound(r)
    BY <1>1, <2>3, <2>11 DEF Sound, InStream
  <2> QED  BY <1>2, <2>2, <2>12
<1>4. CASE CutTrack(t)
  <2>1. PICK k, seen, r : /\ k = FileOf(q, Turn(q)) /\ k \in DOMAIN Stamps /\ seen = Stamps[k]
                          /\ r = [q EXCEPT !.pc = "send", !.seen = seen] /\ thread' = [thread EXCEPT ![t] = r]
    BY <1>4 DEF CutTrack, Step
  <2>2. q.pc = "cut"
    BY <1>4 DEF CutTrack
  <2>3. /\ r.pc = "send" /\ r.cards = q.cards /\ r.stamp = q.stamp /\ r.link = q.link /\ r.card = q.card
        /\ r.found = q.found /\ r.zip = q.zip /\ r.complete = q.complete /\ r.seen = seen /\ DOMAIN r = RequestFields
    BY <1>0, <2>1 DEF RequestFields
  <2> HIDE DEF q
  <2>4. /\ \A j : FileOf(r, j) = FileOf(q, j)
        /\ Checked(q) = n + 1 /\ Checked(r) = Checked(q) /\ Turn(q) = n + 1 /\ Turn(r) = Turn(q)
    BY <1>n, <2>2, <2>3 DEF FileOf, Checked, Turn
  <2>5. k \in DOMAIN q.stamp /\ Was(k, q.stamp[k])
    <3>1. n + 1 \in 1..Checked(q)
      BY <2>4
    <3> QED  BY <1>1, <2>1, <2>4, <3>1 DEF StreamSound, FoundSound
  <2>6. Later(k, q.stamp[k], seen)
    BY <2>1, <2>5, WasNow DEF Later
  <2>7. FoundSound(r)
    BY <1>1, <2>3 DEF StreamSound, FoundSound
  <2>8. StreamSound(r)
    <3>1. /\ r.link = r.stamp /\ r.card \in DOMAIN r.cards /\ r.zip \in Seq(Nat) /\ DOMAIN r.found = DOMAIN r.stamp
          /\ \A j \in 1..Checked(r) :
               FileOf(r, j) \in DOMAIN r.stamp /\ r.found[FileOf(r, j)] = r.stamp[FileOf(r, j)]
      BY <1>1, <2>3, <2>4 DEF StreamSound
    <3>2. \A j \in 1..Len(r.zip) : Later(FileOf(r, j), r.stamp[FileOf(r, j)], r.zip[j])
      BY <1>1, <2>3, <2>4 DEF StreamSound
    <3>3. \A i \in 1..Len(r.zip) : \A j \in 1..Checked(r) :
            i < j /\ FileOf(r, i) = FileOf(r, j) => r.zip[i] = r.stamp[FileOf(r, i)]
      BY <1>1, <2>3, <2>4 DEF StreamSound
    <3>4. Later(FileOf(r, Turn(r)), r.stamp[FileOf(r, Turn(r))], r.seen)
      BY <2>1, <2>3, <2>4, <2>6
    <3> QED  BY <2>3, <2>7, <3>1, <3>2, <3>3, <3>4 DEF StreamSound
  <2>9. Sound(r)
    BY <1>1, <2>3, <2>8 DEF Sound, InStream
  <2> QED  BY <1>2, <2>1, <2>9
<1>5. CASE SendTrack(t)
  <2>1. PICK zip, r : /\ zip = Append(q.zip, q.seen)
                      /\ r = [q EXCEPT !.zip = zip,
                                !.pc = IF Len(zip) = Len(q.cards[q.card]) THEN "close" ELSE "check"]
                      /\ thread' = [thread EXCEPT ![t] = r]
    BY <1>5 DEF SendTrack, Step
  <2>2. q.pc = "send" /\ Later(FileOf(q, Turn(q)), q.stamp[FileOf(q, Turn(q))], q.seen)
    BY <1>1, <1>5 DEF SendTrack, StreamSound
  <2>3. /\ r.pc = IF Len(zip) = Len(q.cards[q.card]) THEN "close" ELSE "check"
        /\ r.cards = q.cards /\ r.stamp = q.stamp /\ r.link = q.link /\ r.card = q.card
        /\ r.found = q.found /\ r.zip = zip /\ r.complete = q.complete /\ DOMAIN r = RequestFields
    BY <1>0, <2>1 DEF RequestFields
  <2> HIDE DEF q
  <2>4. q.seen \in Nat
    BY <1>0, <2>2 DEF Later, Was
  <2>5. /\ zip \in Seq(Nat) /\ Len(zip) = n + 1 /\ zip[n + 1] = q.seen
        /\ \A j \in 1..n : zip[j] = q.zip[j]
    BY <1>n, <2>1, <2>4
  <2>6. /\ \A j : FileOf(r, j) = FileOf(q, j)
        /\ Checked(q) = n + 1 /\ Checked(r) = n + 1 /\ Turn(q) = n + 1
    BY <1>n, <2>2, <2>3, <2>5 DEF FileOf, Checked, Turn
  <2>7. ASSUME NEW j \in 1..n + 1  PROVE Later(FileOf(q, j), q.stamp[FileOf(q, j)], zip[j])
    <3>1. CASE j = n + 1
      BY <2>2, <2>5, <2>6, <3>1
    <3>2. CASE j # n + 1
      <4>1. j \in 1..n
        BY <3>2
      <4> QED  BY <1>1, <1>n, <2>5, <4>1 DEF StreamSound
    <3> QED  BY <3>1, <3>2
  <2>8. ASSUME NEW i \in 1..n + 1, NEW j \in 1..n + 1, i < j, FileOf(q, i) = FileOf(q, j)
        PROVE  zip[i] = q.stamp[FileOf(q, i)]
    <3>1. i \in 1..n
      BY <2>8
    <3> QED  BY <1>1, <1>n, <2>5, <2>6, <2>8, <3>1 DEF StreamSound
  <2>9. FoundSound(r)
    BY <1>1, <2>3 DEF StreamSound, FoundSound
  <2>10. StreamSound(r)
    <3>1. /\ r.link = r.stamp /\ r.card \in DOMAIN r.cards /\ DOMAIN r.found = DOMAIN r.stamp
          /\ \A j \in 1..Checked(r) :
               FileOf(r, j) \in DOMAIN r.stamp /\ r.found[FileOf(r, j)] = r.stamp[FileOf(r, j)]
      BY <1>1, <2>3, <2>6 DEF StreamSound
    <3>2. r.pc # "send" /\ (r.pc = "close" => Len(r.zip) = Len(r.cards[r.card]))
      BY <2>3
    <3>3. \A j \in 1..Len(r.zip) : Later(FileOf(r, j), r.stamp[FileOf(r, j)], r.zip[j])
      BY <2>3, <2>5, <2>6, <2>7
    <3>4. \A i \in 1..Len(r.zip) : \A j \in 1..Checked(r) :
            i < j /\ FileOf(r, i) = FileOf(r, j) => r.zip[i] = r.stamp[FileOf(r, i)]
      BY <2>3, <2>5, <2>6, <2>8
    <3> QED  BY <2>3, <2>5, <2>9, <3>1, <3>2, <3>3, <3>4 DEF StreamSound
  <2>11. Sound(r)
    BY <1>1, <2>3, <2>10 DEF Sound, InStream
  <2> QED  BY <1>2, <2>1, <2>11
<1>6. CASE CloseZip(t)
  <2>1. PICK p, r : /\ p = [q EXCEPT !.complete = TRUE] /\ r = [p EXCEPT !.pc = "idle"]
                    /\ thread' = [thread EXCEPT ![t] = r]
    BY <1>6 DEF CloseZip, EndStream
  <2>2. q.pc = "close"
    BY <1>6 DEF CloseZip
  <2>3. /\ r.pc = "idle" /\ r.cards = q.cards /\ r.stamp = q.stamp /\ r.link = q.link /\ r.card = q.card
        /\ r.found = q.found /\ r.zip = q.zip /\ DOMAIN r = RequestFields
    BY <1>0, <2>1 DEF RequestFields
  <2> HIDE DEF q
  <2>4. (\A j : FileOf(r, j) = FileOf(q, j)) /\ Checked(q) = n
    BY <1>n, <2>2, <2>3 DEF FileOf, Checked
  <2>5. /\ r.link = r.stamp /\ Len(r.zip) = Len(r.cards[r.card])
        /\ \A j \in 1..n : r.found[FileOf(r, j)] = r.stamp[FileOf(r, j)]
        /\ \A i, j \in 1..n : i < j /\ FileOf(r, i) = FileOf(r, j) => r.zip[i] = r.stamp[FileOf(r, i)]
    BY <1>1, <1>n, <2>2, <2>3, <2>4 DEF StreamSound
  <2>6. ZipWhole(r)
    BY <1>n, <2>3, <2>5 DEF ZipWhole
  <2>7. Sound(r)
    BY <2>3, <2>6 DEF Sound, InStream
  <2> QED  BY <1>2, <2>1, <2>7
<1>7. CASE FailDownload(t) \/ Disconnect(t)
  <2>1. PICK p : /\ p \in {q, [q EXCEPT !.complete = FALSE]}
                 /\ thread' = [thread EXCEPT ![t] = [p EXCEPT !.pc = "idle"]]
    BY <1>7 DEF FailDownload, Disconnect, EndStream, SentAfterFailure
  <2>2. PICK r : r = [p EXCEPT !.pc = "idle"]
    OBVIOUS
  <2>3. p.complete = q.complete \/ p.complete = FALSE
    BY <1>0, <2>1 DEF RequestFields
  <2>4. DOMAIN p = RequestFields
    BY <1>0, <2>1
  <2>5. r.pc = "idle" /\ r.complete = p.complete /\ DOMAIN r = RequestFields
    BY <2>2, <2>4 DEF RequestFields
  <2>6. ~r.complete
    BY <1>1, <2>3, <2>5
  <2>7. Sound(r)
    BY <2>5, <2>6 DEF Sound, InStream
  <2> QED  BY <1>2, <2>1, <2>2, <2>7
<1> QED  BY <1>3, <1>4, <1>5, <1>6, <1>7

(* What the threads hold stays sound.                                      *)
LEMMA ThreadsKept ==
  ASSUME IInv, [Next]_vars
  PROVE  ThreadsInv'
<1>0. LibraryInv /\ ThreadsInv /\ InfosInv
  BY DEF IInv
<1>1. ASSUME thread' = thread  PROVE ThreadsInv'
  <2>1. ASSUME NEW u \in Thread  PROVE Sound(thread[u])'
    <3>1. PICK s : s = thread[u]
      OBVIOUS
    <3>2. Sound(s)
      BY <1>0, <3>1 DEF ThreadsInv
    <3>3. Sound(s)' /\ s = thread'[u]
      BY <1>0, <1>1, <3>1, <3>2, SoundKept
    <3> QED  BY <3>3, Zenon
  <2> QED  BY <1>0, <1>1, <2>1 DEF ThreadsInv
<1>2. CASE RestartService
  <2>1. thread' = [t \in Thread |-> Idle]
    BY <1>2 DEF RestartService
  <2>2. Sound(Idle)'
    BY <1>0, IdleSound, SoundKept
  <2>3. ASSUME NEW u \in Thread  PROVE Sound(thread[u])'
    <3>1. thread'[u] = Idle
      BY <2>1
    <3> QED  BY <2>2, <3>1, Zenon
  <2> QED  BY <2>1, <2>3 DEF ThreadsInv
<1>3. ASSUME NEW t \in Thread,
             \/ \E root \in Root : BeginScan(t, root)
             \/ \E card \in 0..2, link \in 1..Now : GetBook(t, card, link)
             \/ ThreadStep(t)
      PROVE  ThreadsInv'
  <2>1. \/ \/ \E root \in Root : BeginScan(t, root)
           \/ EndScan(t)
           \/ \E card \in 0..2, link \in 1..Now : GetBook(t, card, link)
           \/ ProbeFile(t) \/ PlanAndAdmit(t) \/ PlanFails(t)
        \/ CheckSource(t) \/ CutTrack(t) \/ SendTrack(t) \/ CloseZip(t) \/ FailDownload(t) \/ Disconnect(t)
    BY <1>3 DEF ThreadStep
  <2> QED  BY <1>0, <2>1, RequestsBegin, StreamsGoOn
<1>4. \/ thread' = thread \/ RestartService
      \/ \E t \in Thread : \/ \E root \in Root : BeginScan(t, root)
                           \/ \E card \in 0..2, link \in 1..Now : GetBook(t, card, link)
                           \/ ThreadStep(t)
  BY DEF vars, shareVars, Next, ChangeBook, BeginPrep, PrepStep, ReadStamp, PrepTrack, OpenManifest, WriteManifest,
         PrepBreaksOff
<1> QED  BY <1>1, <1>2, <1>3, <1>4

(* What the probe cache holds is of its stamp's version, or later.         *)
LEMMA InfosKept ==
  ASSUME IInv, [Next]_vars
  PROVE  InfosInv'
<1>0. LibraryInv /\ ThreadsInv /\ InfosInv
  BY DEF IInv
<1>a. ASSUME NEW k, NEW s, NEW z, Later(k, s, z)  PROVE Later(k, s, z)'
  BY <1>0, <1>a, WasKept DEF Later
<1>1. CASE infos' = infos
  BY <1>0, <1>1, <1>a DEF InfosInv
<1>2. CASE infos' = <<>>
  BY <1>2 DEF InfosInv
<1>3. ASSUME NEW t \in Thread, ProbeFile(t)  PROVE InfosInv'
  <2>1. PICK r : r = thread[t] /\ FoundSound(r)
    BY <1>0, <1>3 DEF ProbeFile, ThreadsInv, Sound
  <2>2. PICK k \in DOMAIN r.stamp : \E v \in SourceInfo(k, r.stamp[k]) : infos' = Noted(infos, <<k, r.stamp[k]>>, v)
    BY <1>3, <2>1 DEF ProbeFile
  <2>a. PICK v \in SourceInfo(k, r.stamp[k]) : infos' = Noted(infos, <<k, r.stamp[k]>>, v)
    BY <2>2
  <2>3. PICK key : key = <<k, r.stamp[k]>> /\ infos' = Noted(infos, key, v)
    BY <2>a
  <2>4. key[1] = k /\ key[2] = r.stamp[k] /\ key[2] \in Nat
    <3>1. PICK n \in Nat : n = Len(r.stamp) /\ DOMAIN r.stamp = 1..n
      BY <2>1, LenProperties DEF FoundSound
    <3>2. r.stamp[k] \in Nat
      BY <2>1, <3>1, ElementOfSeq DEF FoundSound
    <3> QED  BY <2>3, <3>2
  <2>5. Later(k, key[2], v)
    BY <1>0, <2>1, <2>a, <2>4, SourceLater DEF FoundSound
  <2>6. ASSUME NEW s \in DOMAIN infos', NEW z, z = infos'[s]  PROVE s[2] \in Nat /\ Later(s[1], s[2], z)'
    <3>1. CASE s = key
      <4>1. z = v
        BY <2>3, <2>6, <3>1 DEF Noted
      <4> QED  BY <1>a, <2>4, <2>5, <3>1, <4>1
    <3>2. CASE s # key
      <4>1. s \in DOMAIN infos /\ z = infos[s]
        BY <2>3, <2>6, <3>2 DEF Noted
      <4> QED  BY <1>0, <1>a, <4>1 DEF InfosInv
    <3> QED  BY <3>1, <3>2
  <2> QED  BY <2>6, Zenon DEF InfosInv
<1>4. infos' = infos \/ infos' = <<>> \/ \E t \in Thread : ProbeFile(t)
  <2>1. ASSUME NEW t \in Thread, ThreadStep(t)  PROVE infos' = infos \/ ProbeFile(t)
    BY <2>1 DEF ThreadStep, EndScan, PlanAndAdmit, PlanFails, CheckSource, CutTrack, SendTrack, CloseZip,
           FailDownload, Disconnect, EndStream, Step
  <2>2. ASSUME PrepStep \/ PrepBreaksOff \/ ChangeBook  PROVE infos' = infos
    BY <2>2 DEF PrepStep, ReadStamp, PrepTrack, OpenManifest, WriteManifest, PrepBreaksOff, ChangeBook, shareVars
  <2>3. ASSUME NEW t \in Thread, NEW root \in Root, BeginScan(t, root)  PROVE infos' = infos
    BY <2>3 DEF BeginScan
  <2>4. ASSUME NEW t \in Thread, NEW card \in 0..2, NEW link \in 1..Now, GetBook(t, card, link)
        PROVE  infos' = infos
    BY <2>4 DEF GetBook
  <2>5. ASSUME RestartService  PROVE infos' = <<>>
    BY <2>5 DEF RestartService
  <2>6. ASSUME \E force, merge \in BOOLEAN : BeginPrep(force, merge)  PROVE infos' = infos
    BY <2>6 DEF BeginPrep, shareVars
  <2>7. ASSUME UNCHANGED vars  PROVE infos' = infos
    BY <2>7 DEF vars, shareVars
  <2> QED  BY <2>1, <2>2, <2>3, <2>4, <2>5, <2>6, <2>7, Zenon DEF Next
<1> QED  BY <1>1, <1>2, <1>3, <1>4
-----------------------------------------------------------------------------

One(condition) == IF condition THEN 1 ELSE 0

(* The size of a set that a thread enters or leaves.                       *)
LEMMA CountMoves ==
  ASSUME NEW S, IsFiniteSet(S), NEW T, NEW t, S \ {t} = T \ {t}
  PROVE  /\ IsFiniteSet(T) /\ Cardinality(S) \in Nat /\ Cardinality(T) \in Nat
         /\ Cardinality(T) = Cardinality(S) + One(t \in T) - One(t \in S)
<1>1. PICK U : U = S \ {t}
  OBVIOUS
<1>2. IsFiniteSet(U) /\ Cardinality(U) \in Nat /\ t \notin U
  BY <1>1, FS_RemoveElement, FS_CardinalityType
<1>3. IsFiniteSet(U \cup {t}) /\ Cardinality(U \cup {t}) = Cardinality(U) + 1
  BY <1>2, FS_AddElement
<1>4. (S = U \/ S = U \cup {t}) /\ (T = U \/ T = U \cup {t}) /\ (t \in S <=> S # U) /\ (t \in T <=> T # U)
  BY <1>1, <1>2
<1>5. Cardinality(S) = Cardinality(U) + One(t \in S) /\ IsFiniteSet(T) /\ Cardinality(T) = Cardinality(U) + One(t \in T)
  BY <1>2, <1>3, <1>4 DEF One
<1>6. One(t \in S) \in {0, 1} /\ One(t \in T) \in {0, 1}
  BY DEF One
<1> QED  BY <1>2, <1>5, <1>6

(* How a step of one thread changes the numbers of those that stream and   *)
(* those that plan.                                                        *)
LEMMA SlotsMove ==
  ASSUME ThreadsInv, NEW t \in Thread, NEW r, thread' = [thread EXCEPT ![t] = r]
  PROVE  /\ {Cardinality(Streaming), Cardinality(Streaming'), Cardinality(Planning), Cardinality(Planning')} \subseteq Nat
         /\ Cardinality(Streaming') = Cardinality(Streaming) + One(r.pc \in InStream) - One(thread[t].pc \in InStream)
         /\ Cardinality(Planning') = Cardinality(Planning) + One(r.pc = "probe") - One(thread[t].pc = "probe")
<1>1. thread'[t] = r /\ \A u \in Thread \ {t} : thread'[u] = thread[u]
  BY DEF ThreadsInv
<1>2. /\ Streaming \ {t} = Streaming' \ {t} /\ Planning \ {t} = Planning' \ {t}
      /\ t \in Streaming <=> thread[t].pc \in InStream
      /\ t \in Streaming' <=> r.pc \in InStream
      /\ t \in Planning <=> thread[t].pc = "probe"
      /\ t \in Planning' <=> r.pc = "probe"
  BY <1>1 DEF Streaming, Planning, InStream
<1>3. IsFiniteSet(Streaming) /\ IsFiniteSet(Planning)
  BY SlotsAssumption, FS_Subset DEF Streaming, Planning
<1>4. One(r.pc \in InStream) = One(t \in Streaming') /\ One(thread[t].pc \in InStream) = One(t \in Streaming)
      /\ One(r.pc = "probe") = One(t \in Planning') /\ One(thread[t].pc = "probe") = One(t \in Planning)
  BY <1>2 DEF One
<1> QED  BY <1>2, <1>3, <1>4, CountMoves

(* The slots: a thread takes one as it begins to plan or to stream, and    *)
(* gives it back however that ends.                                        *)
LEMMA SlotsKept ==
  ASSUME IInv, [Next]_vars
  PROVE  SlotsInv'
<1>0. /\ LibraryInv /\ ThreadsInv /\ downloads \in Nat /\ planners \in Nat
      /\ downloads + Cardinality(Streaming) = DownloadSlots
      /\ planners + Cardinality(Planning) = PlannerSlots
  BY DEF IInv, SlotsInv
<1>a. downloads \in Nat /\ planners \in Nat
  BY <1>0
<1>b. LibraryInv /\ ThreadsInv
  BY <1>0
<1>1. ASSUME NEW t \in Thread, NEW r, thread' = [thread EXCEPT ![t] = r],
             downloads' \in Nat, planners' \in Nat,
             downloads' - downloads = One(thread[t].pc \in InStream) - One(r.pc \in InStream),
             planners' - planners = One(thread[t].pc = "probe") - One(r.pc = "probe")
      PROVE  SlotsInv'
  <2>1. /\ One(thread[t].pc \in InStream) \in Nat /\ One(r.pc \in InStream) \in Nat
        /\ One(thread[t].pc = "probe") \in Nat /\ One(r.pc = "probe") \in Nat
    BY DEF One
  <2>2. /\ {Cardinality(Streaming), Cardinality(Streaming'), Cardinality(Planning), Cardinality(Planning')} \subseteq Nat
        /\ Cardinality(Streaming') = Cardinality(Streaming) + One(r.pc \in InStream) - One(thread[t].pc \in InStream)
        /\ Cardinality(Planning') = Cardinality(Planning) + One(r.pc = "probe") - One(thread[t].pc = "probe")
    BY <1>0, <1>1, SlotsMove
  <2>3. Cardinality(Streaming)' = Cardinality(Streaming') /\ Cardinality(Planning)' = Cardinality(Planning')
    OBVIOUS
  <2>4. DownloadSlots \in Nat /\ PlannerSlots \in Nat
    BY SlotsAssumption
  <2>5. downloads' + Cardinality(Streaming') = DownloadSlots
    BY <1>0, <1>1, <2>1, <2>2, <2>4
  <2>6. planners' + Cardinality(Planning') = PlannerSlots
    <3>1. \A m, n, a, b, x, y \in Nat : n = m + b - a /\ x + m = PlannerSlots /\ y - x = a - b => y + n = PlannerSlots
      BY <2>4
    <3>2. planners + Cardinality(Planning) = PlannerSlots /\ planners \in Nat
      BY <1>0
    <3>3. planners' - planners = One(thread[t].pc = "probe") - One(r.pc = "probe") /\ planners' \in Nat
      BY <1>1
    <3> QED  BY <2>1, <2>2, <3>1, <3>2, <3>3
  <2> QED  BY <1>1, <2>3, <2>5, <2>6 DEF SlotsInv
<1>2. CASE thread' = thread /\ downloads' = downloads /\ planners' = planners
  <2>1. Streaming' = Streaming /\ Planning' = Planning
    BY <1>2 DEF Streaming, Planning
  <2> QED  BY <1>0, <1>2, <2>1 DEF SlotsInv
<1>3. CASE RestartService
  <2>1. \A u \in Thread : thread'[u].pc = "idle"
    BY <1>3, IdleSound DEF RestartService
  <2>2. Streaming' = {} /\ Planning' = {}
    BY <2>1 DEF Streaming, Planning
  <2>3. Cardinality({}) = 0
    BY FS_EmptySet
  <2>4. downloads' = DownloadSlots /\ planners' = PlannerSlots /\ DownloadSlots \in Nat /\ PlannerSlots \in Nat
    BY <1>3, SlotsAssumption DEF RestartService
  <2> QED  BY <2>2, <2>3, <2>4 DEF SlotsInv
<1>4. ASSUME NEW t \in Thread, NEW root \in Root, BeginScan(t, root)  PROVE SlotsInv'
  <2>1. PICK r : r = [Idle EXCEPT !.pc = "scan", !.root = root, !.seen = Now]
    OBVIOUS
  <2>2. r.pc = "scan"
    BY <2>1, IdleSound DEF RequestFields
  <2>3. thread' = [thread EXCEPT ![t] = r] /\ thread[t].pc = "idle" /\ downloads' = downloads /\ planners' = planners
    BY <1>4, <2>1 DEF BeginScan, Free
  <2>8. /\ downloads' \in Nat /\ planners' \in Nat
        /\ downloads' - downloads = One(thread[t].pc \in InStream) - One(r.pc \in InStream)
        /\ planners' - planners = One(thread[t].pc = "probe") - One(r.pc = "probe")
    BY <1>a, <2>2, <2>3 DEF One, InStream
  <2> QED  BY <1>1, <2>8, <2>2, <2>3
<1>5. ASSUME NEW t \in Thread, EndScan(t)  PROVE SlotsInv'
  <2>1. thread' = [thread EXCEPT ![t] = Idle] /\ thread[t].pc = "scan" /\ downloads' = downloads /\ planners' = planners
    BY <1>5 DEF EndScan
  <2>8. /\ downloads' \in Nat /\ planners' \in Nat
        /\ downloads' - downloads = One(thread[t].pc \in InStream) - One(Idle.pc \in InStream)
        /\ planners' - planners = One(thread[t].pc = "probe") - One(Idle.pc = "probe")
    BY <1>a, <2>1, IdleSound DEF One, InStream
  <2> QED  BY <1>1, <2>8, <2>1
<1>6. ASSUME NEW t \in Thread, NEW card \in 0..2, NEW link \in 1..Now, GetBook(t, card, link)  PROVE SlotsInv'
  <2>1. PICK to, r : to = since[link] /\ r = [Idle EXCEPT !.pc = "probe", !.stamp = Stamps, !.card = card, !.link = to]
    OBVIOUS
  <2>2. r.pc = "probe"
    BY <2>1, IdleSound DEF RequestFields
  <2>3. thread' = [thread EXCEPT ![t] = r] /\ thread[t].pc = "idle" /\ downloads' = downloads /\ planners' = planners - 1
        /\ planners > 0
    BY <1>6, <2>1 DEF GetBook, Free
  <2>8. /\ downloads' \in Nat /\ planners' \in Nat
        /\ downloads' - downloads = One(thread[t].pc \in InStream) - One(r.pc \in InStream)
        /\ planners' - planners = One(thread[t].pc = "probe") - One(r.pc = "probe")
    BY <1>a, <2>2, <2>3 DEF One, InStream
  <2> QED  BY <1>1, <2>8, <2>2, <2>3
<1>7. ASSUME NEW t \in Thread, PlanAndAdmit(t)  PROVE SlotsInv'
  <2>1. PICK cards, admitted :
          /\ admitted \in BOOLEAN /\ (admitted => downloads > 0) /\ planners' = Release(planners)
          /\ downloads' = IF admitted THEN downloads - 1 ELSE downloads
          /\ thread' = [thread EXCEPT ![t] =
               IF admitted THEN [thread[t] EXCEPT !.pc = "check", !.cards = cards]
                           ELSE [Idle EXCEPT !.cards = cards]]
    BY <1>7 DEF PlanAndAdmit
  <2>2. PICK r : r = IF admitted THEN [thread[t] EXCEPT !.pc = "check", !.cards = cards]
                                 ELSE [Idle EXCEPT !.cards = cards]
    OBVIOUS
  <2>3. DOMAIN thread[t] = RequestFields
    BY <1>0 DEF ThreadsInv, Sound
  <2>4. r.pc = IF admitted THEN "check" ELSE "idle"
    BY <2>1, <2>2, <2>3, IdleSound DEF RequestFields
  <2>5. thread[t].pc = "probe" /\ planners' = planners + 1 /\ thread' = [thread EXCEPT ![t] = r]
    BY <1>7, <2>1, <2>2 DEF PlanAndAdmit, Release
  <2>8. /\ downloads' \in Nat /\ planners' \in Nat
        /\ downloads' - downloads = One(thread[t].pc \in InStream) - One(r.pc \in InStream)
        /\ planners' - planners = One(thread[t].pc = "probe") - One(r.pc = "probe")
    BY <1>a, <2>1, <2>4, <2>5 DEF One, InStream
  <2> QED  BY <1>1, <2>8, <2>1, <2>4, <2>5
<1>8. ASSUME NEW t \in Thread, PlanFails(t)  PROVE SlotsInv'
  <2>1. /\ thread' = [thread EXCEPT ![t] = Idle] /\ thread[t].pc = "probe" /\ downloads' = downloads
        /\ planners' = planners + 1
    BY <1>8 DEF PlanFails, Release
  <2>8. /\ downloads' \in Nat /\ planners' \in Nat
        /\ downloads' - downloads = One(thread[t].pc \in InStream) - One(Idle.pc \in InStream)
        /\ planners' - planners = One(thread[t].pc = "probe") - One(Idle.pc = "probe")
    BY <1>a, <2>1, IdleSound DEF One, InStream
  <2> QED  BY <1>1, <2>8, <2>1
<1>9. ASSUME NEW t \in Thread, CheckSource(t) \/ CutTrack(t) \/ SendTrack(t)  PROVE SlotsInv'
  <2>1. thread[t].pc \in InStream /\ downloads' = downloads /\ planners' = planners /\ DOMAIN thread[t] = RequestFields
    BY <1>0, <1>9 DEF CheckSource, CutTrack, SendTrack, Step, InStream, ThreadsInv, Sound
  <2>2. PICK r : /\ thread' = [thread EXCEPT ![t] = r] /\ DOMAIN r = RequestFields
                 /\ r.pc \in {"cut", "send", "close", "check"}
    <3>1. CASE CheckSource(t)
      <4>1. PICK r : r = [thread[t] EXCEPT !.pc = "cut"]
        OBVIOUS
      <4>2. DOMAIN r = RequestFields /\ r.pc = "cut"
        BY <2>1, <4>1 DEF RequestFields
      <4> QED  BY <3>1, <4>1, <4>2 DEF CheckSource, Step
    <3>2. CASE CutTrack(t)
      <4>1. PICK seen, r : r = [thread[t] EXCEPT !.pc = "send", !.seen = seen] /\ thread' = [thread EXCEPT ![t] = r]
        BY <3>2 DEF CutTrack, Step
      <4>2. DOMAIN r = RequestFields /\ r.pc = "send"
        BY <2>1, <4>1 DEF RequestFields
      <4> QED  BY <4>1, <4>2
    <3>3. CASE SendTrack(t)
      <4>1. PICK zip, r : /\ r = [thread[t] EXCEPT !.zip = zip,
                                !.pc = IF Len(zip) = Len(thread[t].cards[thread[t].card]) THEN "close" ELSE "check"]
                          /\ thread' = [thread EXCEPT ![t] = r]
        BY <3>3 DEF SendTrack, Step
      <4>2. DOMAIN r = RequestFields /\ r.pc \in {"close", "check"}
        BY <2>1, <4>1 DEF RequestFields
      <4> QED  BY <4>1, <4>2
    <3> QED  BY <1>9, <3>1, <3>2, <3>3
  <2>8. /\ downloads' \in Nat /\ planners' \in Nat
        /\ downloads' - downloads = One(thread[t].pc \in InStream) - One(r.pc \in InStream)
        /\ planners' - planners = One(thread[t].pc = "probe") - One(r.pc = "probe")
    BY <1>a, <2>1, <2>2 DEF One, InStream
  <2> QED  BY <1>1, <2>8, <2>1, <2>2
<1>10. ASSUME NEW t \in Thread, CloseZip(t) \/ FailDownload(t) \/ Disconnect(t)  PROVE SlotsInv'
  <2>1. PICK p : /\ p \in {thread[t], [thread[t] EXCEPT !.complete = TRUE], [thread[t] EXCEPT !.complete = FALSE]}
                 /\ thread' = [thread EXCEPT ![t] = [p EXCEPT !.pc = "idle"]]
    BY <1>10 DEF CloseZip, FailDownload, Disconnect, EndStream, SentAfterFailure
  <2>2. PICK r : r = [p EXCEPT !.pc = "idle"]
    OBVIOUS
  <2>3. DOMAIN p = RequestFields
    BY <1>0, <2>1 DEF ThreadsInv, Sound
  <2>4. r.pc = "idle" /\ thread' = [thread EXCEPT ![t] = r]
    BY <2>1, <2>2, <2>3 DEF RequestFields
  <2>5. thread[t].pc \in InStream /\ downloads' = downloads + 1 /\ planners' = planners
    BY <1>10 DEF CloseZip, FailDownload, Disconnect, EndStream, Release, InStream
  <2>8. /\ downloads' \in Nat /\ planners' \in Nat
        /\ downloads' - downloads = One(thread[t].pc \in InStream) - One(r.pc \in InStream)
        /\ planners' - planners = One(thread[t].pc = "probe") - One(r.pc = "probe")
    BY <1>a, <2>4, <2>5 DEF One, InStream
  <2> QED  BY <1>1, <2>8, <2>4, <2>5
<1>p. ASSUME NEW t \in Thread, ProbeFile(t)  PROVE SlotsInv'
  <2>1. /\ thread[t].pc = "probe" /\ downloads' = downloads /\ planners' = planners /\ DOMAIN thread[t] = RequestFields
    BY <1>0, <1>p DEF ProbeFile, ThreadsInv, Sound
  <2>2. PICK found, r : r = [thread[t] EXCEPT !.found = found] /\ thread' = [thread EXCEPT ![t] = r]
    BY <1>p DEF ProbeFile
  <2>3. r.pc = "probe"
    BY <2>1, <2>2 DEF RequestFields
  <2>8. /\ downloads' \in Nat /\ planners' \in Nat
        /\ downloads' - downloads = One(thread[t].pc \in InStream) - One(r.pc \in InStream)
        /\ planners' - planners = One(thread[t].pc = "probe") - One(r.pc = "probe")
    BY <1>a, <2>1, <2>3 DEF One, InStream
  <2> QED  BY <1>1, <2>8, <2>2
<1>11. \/ thread' = thread /\ downloads' = downloads /\ planners' = planners
       \/ RestartService
       \/ \E t \in Thread : \/ \E root \in Root : BeginScan(t, root)
                            \/ \E card \in 0..2, link \in 1..Now : GetBook(t, card, link)
                            \/ ThreadStep(t)
  BY DEF vars, shareVars, Next, ChangeBook, BeginPrep, PrepStep, ReadStamp, PrepTrack, OpenManifest, WriteManifest,
         PrepBreaksOff
<1>12. \/ thread' = thread /\ downloads' = downloads /\ planners' = planners
       \/ RestartService
       \/ \E t \in Thread : \/ \E root \in Root : BeginScan(t, root)
                            \/ \E card \in 0..2, link \in 1..Now : GetBook(t, card, link)
                            \/ EndScan(t) \/ ProbeFile(t) \/ PlanAndAdmit(t) \/ PlanFails(t)
                            \/ CheckSource(t) \/ CutTrack(t) \/ SendTrack(t)
                            \/ CloseZip(t) \/ FailDownload(t) \/ Disconnect(t)
  BY <1>11 DEF ThreadStep
<1> QED  BY <1>2, <1>3, <1>4, <1>5, <1>6, <1>7, <1>8, <1>9, <1>10, <1>p, <1>12

(* What a thread that is not scanning does next is no scan either, unless  *)
(* it begins one.                                                          *)
LEMMA ScansBegin ==
  ASSUME ThreadsInv, NEW t \in Thread,
         \/ \E card \in 0..2, link \in 1..Now : GetBook(t, card, link)
         \/ ProbeFile(t) \/ PlanAndAdmit(t) \/ PlanFails(t)
         \/ CheckSource(t) \/ CutTrack(t) \/ SendTrack(t) \/ CloseZip(t) \/ FailDownload(t) \/ Disconnect(t)
  PROVE  \E r : thread' = [thread EXCEPT ![t] = r] /\ r.pc # "scan"
<1>0. DOMAIN thread[t] = RequestFields
  BY DEF ThreadsInv, Sound
<1>1. ASSUME NEW card \in 0..2, NEW link \in 1..Now, GetBook(t, card, link)
      PROVE  \E r : thread' = [thread EXCEPT ![t] = r] /\ r.pc # "scan"
  <2>1. PICK to, r : to = since[link] /\ r = [Idle EXCEPT !.pc = "probe", !.stamp = Stamps, !.card = card, !.link = to]
    OBVIOUS
  <2>2. r.pc = "probe"
    BY <2>1, IdleSound DEF RequestFields
  <2> QED  BY <1>1, <2>1, <2>2 DEF GetBook
<1>2. CASE PlanAndAdmit(t)
  <2>1. PICK cards, admitted, r :
          /\ r = IF admitted THEN [thread[t] EXCEPT !.pc = "check", !.cards = cards] ELSE [Idle EXCEPT !.cards = cards]
          /\ thread' = [thread EXCEPT ![t] = r]
    BY <1>2 DEF PlanAndAdmit
  <2>2. r.pc \in {"check", "idle"}
    BY <1>0, <2>1, IdleSound DEF RequestFields
  <2>3. thread' = [thread EXCEPT ![t] = r] /\ r.pc # "scan"
    BY <2>1, <2>2
  <2> QED  BY <2>3
<1>3. CASE PlanFails(t)
  BY <1>3, IdleSound DEF PlanFails
<1>4. CASE CheckSource(t) \/ CutTrack(t)
  <2>1. PICK seen, r : /\ r \in {[thread[t] EXCEPT !.pc = "cut"], [thread[t] EXCEPT !.pc = "send", !.seen = seen]}
                       /\ thread' = [thread EXCEPT ![t] = r]
    BY <1>4 DEF CheckSource, CutTrack, Step
  <2>2. r.pc \in {"cut", "send"}
    BY <1>0, <2>1 DEF RequestFields
  <2> QED  BY <2>1, <2>2
<1>5. CASE SendTrack(t)
  <2>1. PICK zip, r : /\ r = [thread[t] EXCEPT !.zip = zip,
                            !.pc = IF Len(zip) = Len(thread[t].cards[thread[t].card]) THEN "close" ELSE "check"]
                      /\ thread' = [thread EXCEPT ![t] = r]
    BY <1>5 DEF SendTrack, Step
  <2>2. r.pc \in {"close", "check"}
    BY <1>0, <2>1 DEF RequestFields
  <2> QED  BY <2>1, <2>2
<1>6. CASE CloseZip(t) \/ FailDownload(t) \/ Disconnect(t)
  <2>a. PICK p : /\ p \in {thread[t], [thread[t] EXCEPT !.complete = TRUE], [thread[t] EXCEPT !.complete = FALSE]}
                 /\ thread' = [thread EXCEPT ![t] = [p EXCEPT !.pc = "idle"]]
    BY <1>6 DEF CloseZip, FailDownload, Disconnect, EndStream, SentAfterFailure
  <2>1. PICK r : r = [p EXCEPT !.pc = "idle"] /\ thread' = [thread EXCEPT ![t] = r]
    BY <2>a
  <2>2. DOMAIN p = RequestFields
    BY <1>0, <2>a
  <2>3. r.pc = "idle"
    BY <2>1, <2>2 DEF RequestFields
  <2> QED  BY <2>1, <2>3
<1>7. CASE ProbeFile(t)
  <2>1. PICK found, r : r = [thread[t] EXCEPT !.found = found] /\ thread' = [thread EXCEPT ![t] = r]
    BY <1>7 DEF ProbeFile
  <2>2. r.pc = "probe"
    BY <1>0, <1>7, <2>1 DEF RequestFields, ProbeFile
  <2> QED  BY <2>1, <2>2
<1> QED  BY <1>1, <1>2, <1>3, <1>4, <1>5, <1>6, <1>7

(* The scan lock keeps every listing behind the scan that may replace it.  *)
LEMMA ScanKept ==
  ASSUME IInv, [Next]_vars
  PROVE  /\ ScanInv'
         /\ \A root \in Root : catalogue[root] # None /\ catalogue'[root] # None => catalogue'[root] >= catalogue[root]
<1>0. /\ LibraryInv /\ ThreadsInv /\ ScanInv /\ Now \in Nat \ {0} /\ Now' \in Nat /\ Now <= Now'
      /\ \A root \in Root : catalogue[root] \in (1..Now) \cup {None}
      /\ catalogue = [root \in Root |-> catalogue[root]]
  BY LibraryGrows DEF IInv, ScanInv
<1> DEFINE Goal == /\ ScanInv'
                   /\ \A root \in Root : catalogue[root] # None /\ catalogue'[root] # None
                        => catalogue'[root] >= catalogue[root]
<1>1. ASSUME catalogue' = catalogue, scanLock' = scanLock,
             \A u \in Thread : thread'[u].pc = "scan" => thread'[u] = thread[u]
      PROVE  Goal
  <2>1. ASSUME NEW root \in Root  PROVE catalogue[root] \in (1..Now') \cup {None}
    BY <1>0
  <2>2. ASSUME NEW root \in Root, catalogue[root] # None  PROVE catalogue[root] >= catalogue[root]
    <3>1. catalogue[root] \in Nat
      BY <1>0, <2>2
    <3> QED  BY <3>1
  <2>3. ScanInv'
    BY <1>0, <1>1, <2>1 DEF ScanInv
  <2> QED  BY <1>1, <2>2, <2>3
<1>2. ASSUME NEW t \in Thread, NEW root \in Root, BeginScan(t, root)  PROVE Goal
  <2>1. PICK r : r = [Idle EXCEPT !.pc = "scan", !.root = root, !.seen = Now]
    OBVIOUS
  <2>2. thread' = [thread EXCEPT ![t] = r] /\ r.seen = Now /\ r.pc = "scan"
    BY <1>2, <2>1, IdleSound DEF BeginScan, RequestFields
  <2>3. scanLock = None /\ scanLock' = t /\ catalogue' = catalogue /\ Now' = Now
    BY <1>2 DEF BeginScan, MayScan, Now
  <2>4. ASSUME NEW u \in Thread, thread'[u].pc = "scan"  PROVE u = t /\ thread'[u] = r
    <3>1. CASE u # t
      <4>1. thread'[u] = thread[u]
        BY <1>0, <2>2, <3>1 DEF ThreadsInv
      <4>2. scanLock = u
        BY <1>0, <2>4, <4>1 DEF ScanInv
      <4> QED  BY <2>3, <4>2, NoneAssumption
    <3> QED  BY <1>0, <2>2, <3>1 DEF ThreadsInv
  <2>5. ASSUME NEW x \in Root, catalogue[x] # None  PROVE catalogue[x] <= Now /\ catalogue[x] >= catalogue[x]
    BY <1>0, <2>5
  <2>6. ScanInv'
    BY <1>0, <2>2, <2>3, <2>4, <2>5 DEF ScanInv
  <2> QED  BY <2>3, <2>5, <2>6
<1>3. ASSUME NEW t \in Thread, EndScan(t)  PROVE Goal
  <2>1. PICK r : r = thread[t]
    OBVIOUS
  <2>2. r.pc = "scan" /\ r.root \in Root /\ r.seen \in 1..Now /\ scanLock = t
        /\ \A root \in Root : catalogue[root] # None => catalogue[root] <= r.seen
    BY <1>0, <1>3, <2>1 DEF EndScan, ThreadsInv, Sound, ScanInv
  <2>3. thread' = [thread EXCEPT ![t] = Idle] /\ scanLock' = None /\ Now' = Now
    BY <1>3 DEF EndScan, Now
  <2>4. PICK seen \in r.seen..Now : catalogue' = catalogue \/ catalogue' = [catalogue EXCEPT ![r.root] = seen]
    BY <1>0, <1>3, <2>1, <2>2 DEF EndScan
  <2>5. ASSUME NEW root \in Root
        PROVE  /\ catalogue'[root] \in (1..Now) \cup {None}
               /\ catalogue[root] # None /\ catalogue'[root] # None => catalogue'[root] >= catalogue[root]
    <3>1. catalogue'[root] = catalogue[root] \/ catalogue'[root] = seen
      BY <1>0, <2>2, <2>4
    <3>2. seen \in 1..Now /\ (catalogue[root] # None => catalogue[root] <= seen)
      BY <1>0, <2>2, <2>4
    <3> QED  BY <1>0, <3>1, <3>2
  <2>6. ASSUME NEW u \in Thread  PROVE thread'[u].pc # "scan"
    <3>1. CASE u # t
      <4>1. thread'[u] = thread[u]
        BY <1>0, <2>3, <3>1 DEF ThreadsInv
      <4>2. thread[u].pc = "scan" => scanLock = u
        BY <1>0 DEF ScanInv
      <4> QED  BY <2>2, <3>1, <4>1, <4>2
    <3>2. CASE u = t
      BY <1>0, <2>3, <3>2, IdleSound DEF ThreadsInv
    <3> QED  BY <3>1, <3>2
  <2>7. catalogue' = [root \in Root |-> catalogue'[root]]
    BY <1>0, <2>2, <2>4
  <2>8. ScanInv'
    BY <2>3, <2>5, <2>6, <2>7 DEF ScanInv
  <2> QED  BY <2>5, <2>8
<1>4. ASSUME RestartService  PROVE Goal
  <2>1. catalogue' = [r \in Root |-> None] /\ scanLock' = None /\ \A u \in Thread : thread'[u].pc = "idle"
    BY <1>4, IdleSound DEF RestartService
  <2> QED  BY <2>1 DEF ScanInv
<1>5. ASSUME NEW t \in Thread,
             \/ \E card \in 0..2, link \in 1..Now : GetBook(t, card, link)
             \/ ProbeFile(t) \/ PlanAndAdmit(t) \/ PlanFails(t)
             \/ CheckSource(t) \/ CutTrack(t) \/ SendTrack(t) \/ CloseZip(t) \/ FailDownload(t) \/ Disconnect(t)
      PROVE  Goal
  <2>1. PICK r : thread' = [thread EXCEPT ![t] = r] /\ r.pc # "scan"
    BY <1>0, <1>5, ScansBegin
  <2>2. \A u \in Thread : thread'[u].pc = "scan" => thread'[u] = thread[u]
    BY <1>0, <2>1 DEF ThreadsInv
  <2>3. catalogue' = catalogue /\ scanLock' = scanLock
    BY <1>5 DEF GetBook, ProbeFile, PlanAndAdmit, PlanFails, CheckSource, CutTrack, SendTrack, CloseZip, FailDownload,
           Disconnect, EndStream, Step
  <2> QED  BY <1>1, <2>2, <2>3
<1>6. ASSUME thread' = thread, catalogue' = catalogue, scanLock' = scanLock  PROVE Goal
  BY <1>1, <1>6
<1>7. \/ thread' = thread /\ catalogue' = catalogue /\ scanLock' = scanLock
      \/ RestartService
      \/ \E t \in Thread : \/ \E root \in Root : BeginScan(t, root)
                           \/ \E card \in 0..2, link \in 1..Now : GetBook(t, card, link)
                           \/ ThreadStep(t)
  BY DEF vars, shareVars, Next, ChangeBook, BeginPrep, PrepStep, ReadStamp, PrepTrack, OpenManifest, WriteManifest,
         PrepBreaksOff
<1> HIDE DEF Goal
<1>8. Goal
  <2>1. ASSUME NEW t \in Thread, ThreadStep(t)  PROVE Goal
    BY <1>3, <1>5, <2>1 DEF ThreadStep
  <2>2. ASSUME NEW t \in Thread, \E card \in 0..2, link \in 1..Now : GetBook(t, card, link)  PROVE Goal
    BY <1>5, <2>2
  <2>3. ASSUME NEW t \in Thread, \E root \in Root : BeginScan(t, root)  PROVE Goal
    BY <1>2, <2>3
  <2>4. CASE \E t \in Thread : \/ \E root \in Root : BeginScan(t, root)
                               \/ \E card \in 0..2, link \in 1..Now : GetBook(t, card, link)
                               \/ ThreadStep(t)
    BY <2>1, <2>2, <2>3, <2>4
  <2> QED  BY <1>4, <1>6, <1>7, <2>4
<1> QED  BY <1>8 DEF Goal

-----------------------------------------------------------------------------

(* A track stays cut while its directory is left alone.                    *)
LEMMA CutStays ==
  ASSUME LibraryInv, [Next]_vars, NEW plan, NEW at, NEW v, out' = out, CutBy(plan, at, v), v \in Nat
  PROVE  CutBy(plan, at, v)'
<1>0. Now \in Nat /\ Now' \in Nat /\ Now <= Now'
  BY LibraryGrows
<1>1. PICK c \in v..Now : Was(1, c) /\ out.tracks[at] = <<c, plan[at[1]][at[2]]>>
  BY DEF CutBy
<1>2. Was(1, c)' /\ c \in v..Now'
  BY <1>0, <1>1, WasKept
<1> QED  BY <1>1, <1>2 DEF CutBy

(* So what a manifest vouches for stands.                                  *)
LEMMA VouchedStays ==
  ASSUME LibraryInv, [Next]_vars, Vouched, out' = out
  PROVE  Vouched'
<1>1. PICK v \in 1..Now, m \in BOOLEAN : \E plan \in {PrepPlan(library[v][1], m)} : Vouches(v, m, plan)
  BY DEF Vouched
<1>2. PICK plan : Vouches(v, m, plan)
  BY <1>1
<1>3. v \in 1..Now' /\ v \in Nat /\ library'[v] = library[v] /\ Was(1, v)'
  BY <1>2, LibraryGrows, WasKept DEF Vouches
<1>4. ASSUME NEW at \in Tracks(plan)  PROVE CutBy(plan, at, v)'
  BY <1>2, <1>3, CutStays DEF Vouches
<1>5. Vouches(v, m, plan)'
  BY <1>2, <1>3, <1>4 DEF Vouches
<1>6. plan \in {PrepPlan(library[v][1], m)}'
  BY <1>3, <1>5 DEF Vouches
<1> QED  BY <1>3, <1>5, <1>6 DEF Vouched

(* The plan of a run stays that of the version it probed.                  *)
LEMMA ProbedStays ==
  ASSUME LibraryInv, [Next]_vars, Probed,
         prep'.of = prep.of, prep'.merge = prep.merge, prep'.plan = prep.plan
  PROVE  Probed'
<1>1. Was(1, prep.of)' /\ library'[prep.of] = library[prep.of]
  BY LibraryGrows, WasKept DEF Probed, Was
<1> QED  BY <1>1 DEF Probed, Was

(* The server and the book leave a run alone. *)
LEMMA PrepAlone ==
  ASSUME [Next]_vars
  PROVE  \/ prep' = prep /\ out' = out
         \/ \E force, merge \in BOOLEAN : BeginPrep(force, merge)
         \/ PrepStep \/ PrepBreaksOff
<1>1. ASSUME NEW t \in Thread, ThreadStep(t)  PROVE prep' = prep /\ out' = out
  BY <1>1 DEF ThreadStep, prepVars, EndScan, ProbeFile, PlanAndAdmit, PlanFails, CheckSource, CutTrack, SendTrack,
         CloseZip, FailDownload, Disconnect, EndStream, Step
<1>2. ASSUME NEW t \in Thread, NEW root \in Root, BeginScan(t, root)  PROVE prep' = prep /\ out' = out
  BY <1>2 DEF BeginScan, prepVars
<1>3. ASSUME NEW t \in Thread, NEW card \in 0..2, NEW link \in 1..Now, GetBook(t, card, link)
      PROVE  prep' = prep /\ out' = out
  BY <1>3 DEF GetBook, prepVars
<1>4. ASSUME RestartService \/ ChangeBook  PROVE prep' = prep /\ out' = out
  BY <1>4 DEF RestartService, ChangeBook, prepVars
<1>5. ASSUME UNCHANGED vars  PROVE prep' = prep /\ out' = out
  BY <1>5 DEF vars, prepVars
<1> QED  BY <1>1, <1>2, <1>3, <1>4, <1>5, Zenon DEF Next

(* The steps of a run, and those that leave it alone.                      *)
LEMMA PrepKept ==
  ASSUME IInv, [Next]_vars
  PROVE  PrepInv'
<1>0. /\ LibraryInv /\ PrepInv /\ PrepShape /\ Now \in Nat \ {0} /\ Now' \in Nat /\ Now <= Now'
      /\ DOMAIN NoPrep = PrepFields /\ NoPrep.pc = "off"
  BY LibraryGrows DEF IInv, PrepInv, NoPrep, PrepFields
<1>1. CASE prep' = prep /\ out' = out
  <2>1. PrepShape'
    BY <1>0, <1>1 DEF PrepShape
  <2>2. prep.pc # "off" => Probed'
    BY <1>0, <1>1, ProbedStays DEF PrepInv
  <2>3. ASSUME prep.pc \in {"cut", "write"}  PROVE \E v \in prep.of..Now' : CutSince(v)'
    <3>1. PICK v \in prep.of..Now : CutSince(v)
      BY <1>0, <2>3 DEF PrepInv
    <3>2. prep.of \in 1..Now
      BY <1>0, <2>3 DEF PrepInv, Probed, Was
    <3>3. v \in Nat /\ v \in prep.of..Now'
      BY <1>0, <3>2
    <3>4. ASSUME NEW at \in Tracks(prep.plan) \ prep.left  PROVE CutBy(prep.plan, at, v)'
      <4>1. PICK plan : plan = prep.plan
        OBVIOUS
      <4>2. CutBy(plan, at, v)
        BY <3>1, <4>1 DEF CutSince
      <4>3. CutBy(plan, at, v)'
        BY <1>0, <1>1, <3>3, <4>2, CutStays
      <4> QED  BY <1>1, <4>1, <4>3 DEF CutBy
    <3>5. CutSince(v)'
      BY <1>0, <1>1, <3>1, <3>4, WasKept DEF CutSince
    <3> QED  BY <3>3, <3>5
  <2>4. prep.pc \in {"off", "stamp"} /\ out.manifest # None /\ ~out.spoilt => Vouched'
    BY <1>0, <1>1, VouchedStays DEF PrepInv
  <2> QED  BY <1>1, <2>1, <2>2, <2>3, <2>4 DEF PrepInv
<1>2. ASSUME NEW force \in BOOLEAN, NEW merge \in BOOLEAN, BeginPrep(force, merge)  PROVE PrepInv'
  <2>1. PICK plan, s : /\ plan = PrepPlan(library[Now][1], merge) /\ s = Stamps[1]
                       /\ prep' = [NoPrep EXCEPT !.pc = "stamp", !.of = s, !.plan = plan, !.force = force,
                                                 !.merge = merge]
    BY <1>2 DEF BeginPrep
  <2>2. /\ DOMAIN prep' = PrepFields /\ prep'.pc = "stamp" /\ prep'.of = s /\ prep'.plan = plan
        /\ prep'.merge = merge
    BY <1>0, <2>1 DEF PrepFields
  <2>3. prep.pc = "off" /\ Len(library[Now]) = 1 /\ library' = library /\ out' = out
    BY <1>2 DEF BeginPrep
  <2>4. 1 \in DOMAIN Stamps /\ Was(1, s) /\ library[s][1] = library[Now][1]
    <3>1. library[Now] \in Seq(Source)
      BY <1>0, LibraryHolds
    <3>2. DOMAIN library[Now] = 1..1
      BY <2>3, <3>1, LenProperties
    <3>3. 1 \in DOMAIN Stamps
      BY <1>0, <3>2 DEF LibraryInv
    <3> QED  BY <1>0, <2>1, <3>3, WasNow DEF LibraryInv
  <2>5. PrepShape'
    BY <1>0, <2>2, <2>3 DEF PrepShape
  <2>6. Probed'
    <3>1. Was(1, s)'
      BY <1>0, <2>4, WasKept
    <3> QED  BY <2>1, <2>2, <2>3, <2>4, <3>1 DEF Probed
  <2>7. out.manifest # None /\ ~out.spoilt => Vouched'
    BY <1>0, <2>3, VouchedStays DEF PrepInv
  <2> QED  BY <2>2, <2>3, <2>5, <2>6, <2>7 DEF PrepInv
<1>3. CASE ReadStamp
  <2>1. /\ prep.pc = "stamp" /\ library' = library /\ out' = out /\ Now' = Now
        /\ Stamps' = Stamps /\ 1 \in DOMAIN Stamps
    BY <1>3 DEF ReadStamp, Now, Stamps
  <2>2. CASE prep' = NoPrep
    <3>1. out.manifest # None /\ ~out.spoilt => Vouched'
      BY <1>0, <2>1, VouchedStays DEF PrepInv
    <3>2. PrepShape'
      BY <1>0, <2>1, <2>2 DEF PrepShape
    <3> QED  BY <1>0, <2>1, <2>2, <3>1, <3>2 DEF PrepInv
  <2>3. CASE prep' # NoPrep
    <3>0. PICK v : v = Stamps[1]
      OBVIOUS
    <3>1. prep' = [prep EXCEPT !.pc = "cut", !.stamp = StampOf(prep.plan, prep.merge, v), !.left = Tracks(prep.plan)]
      BY <1>3, <2>3, <3>0 DEF ReadStamp
    <3>2. /\ DOMAIN prep' = PrepFields /\ prep'.pc = "cut" /\ prep'.of = prep.of /\ prep'.plan = prep.plan
          /\ prep'.merge = prep.merge /\ prep'.left = Tracks(prep.plan)
          /\ prep'.stamp = StampOf(prep.plan, prep.merge, v)
      BY <1>0, <3>1 DEF PrepShape, PrepFields
    <3>3. Probed
      BY <1>0, <2>1 DEF PrepInv
    <3>4. Probed'
      BY <1>0, <3>2, <3>3, ProbedStays
    <3>5. Was(1, v)' /\ v \in prep.of..Now
      <4>1. Was(1, v) /\ prep.of <= v
        BY <1>0, <2>1, <3>0, <3>3, WasNow DEF Probed
      <4>2. Was(1, v)'
        BY <1>0, <4>1, WasKept
      <4> QED  BY <1>0, <3>3, <4>1, <4>2 DEF Probed, Was
    <3>5a. CutSince(v)'
      BY <2>1, <3>2, <3>5 DEF CutSince
    <3>6. PrepShape'
      BY <1>0, <2>1, <3>2 DEF PrepShape
    <3> QED  BY <2>1, <3>2, <3>4, <3>5, <3>5a, <3>6 DEF PrepInv
  <2> QED  BY <2>2, <2>3
<1>4. CASE PrepTrack
  <2>1. /\ prep.pc = "cut" /\ library' = library /\ Now' = Now
        /\ Stamps' = Stamps /\ 1 \in DOMAIN Stamps
    BY <1>4 DEF PrepTrack, Now, Stamps
  <2>2. PICK s, at : /\ s = Stamps[1] /\ prep' = [prep EXCEPT !.left = @ \ {at}]
                     /\ out' = [out EXCEPT !.tracks = Noted(@, at, <<s, prep.plan[at[1]][at[2]]>>)]
    BY <1>4 DEF PrepTrack
  <2>3. /\ DOMAIN prep' = PrepFields /\ prep'.pc = "cut" /\ prep'.of = prep.of /\ prep'.plan = prep.plan
        /\ prep'.merge = prep.merge /\ prep'.left = prep.left \ {at} /\ prep'.stamp = prep.stamp
    BY <1>0, <2>1, <2>2 DEF PrepShape, PrepFields
  <2>4. /\ DOMAIN out' = {"tracks", "manifest", "spoilt"} /\ DOMAIN out'.tracks = (DOMAIN out.tracks) \cup {at}
        /\ out'.tracks[at] = <<s, prep.plan[at[1]][at[2]]>>
        /\ \A b \in DOMAIN out.tracks : b # at => out'.tracks[b] = out.tracks[b]
    BY <1>0, <2>2 DEF PrepShape, Noted
  <2>5. Probed
    BY <1>0, <2>1 DEF PrepInv
  <2>6. Probed'
    BY <1>0, <2>3, <2>5, ProbedStays
  <2>7. PICK v \in prep.of..Now : CutSince(v)
    BY <1>0, <2>1 DEF PrepInv
  <2>8. ASSUME NEW b \in Tracks(prep.plan) \ (prep.left \ {at})  PROVE CutBy(prep.plan, b, v)'
    <3>1. CASE b = at
      <4>1. Was(1, s)' /\ s \in v..Now
        <5>1. Was(1, s) /\ v <= s
          BY <1>0, <2>1, <2>2, <2>7, WasNow DEF CutSince
        <5>2. Was(1, s)'
          BY <1>0, <5>1, WasKept
        <5> QED  BY <1>0, <2>5, <2>7, <5>1, <5>2 DEF Probed, Was
      <4> QED  BY <2>1, <2>3, <2>4, <3>1, <4>1 DEF CutBy
    <3>2. CASE b # at
      <4>1. CutBy(prep.plan, b, v)
        BY <2>7, <2>8, <3>2 DEF CutSince
      <4>2. PICK c \in v..Now : Was(1, c) /\ out.tracks[b] = <<c, prep.plan[b[1]][b[2]]>>
        BY <4>1 DEF CutBy
      <4>3. Was(1, c)'
        BY <1>0, <4>2, WasKept
      <4> QED  BY <2>1, <2>3, <2>4, <3>2, <4>1, <4>2, <4>3 DEF CutBy
    <3> QED  BY <3>1, <3>2
  <2>9. CutSince(v)'
    BY <1>0, <2>3, <2>7, <2>8, WasKept DEF CutSince
  <2>10. PrepShape'
    BY <2>3, <2>4 DEF PrepShape
  <2> QED  BY <2>1, <2>3, <2>6, <2>9, <2>10 DEF PrepInv
<1>5. CASE OpenManifest
  <2>1. prep.pc = "cut" /\ prep.left = {} /\ library' = library /\ Now' = Now /\ Stamps' = Stamps
    BY <1>5 DEF OpenManifest, Now, Stamps
  <2>2. /\ DOMAIN prep' = PrepFields /\ prep'.pc = "write" /\ prep'.of = prep.of /\ prep'.plan = prep.plan
        /\ prep'.merge = prep.merge /\ prep'.left = prep.left /\ prep'.stamp = prep.stamp
    BY <1>0, <1>5 DEF OpenManifest, PrepShape, PrepFields
  <2>3. DOMAIN out' = {"tracks", "manifest", "spoilt"} /\ out'.tracks = out.tracks
    BY <1>0, <1>5 DEF OpenManifest, PrepShape
  <2>4. Probed /\ Probed'
    BY <1>0, <2>1, <2>2, ProbedStays DEF PrepInv
  <2>5. PICK v \in prep.of..Now : CutSince(v)
    BY <1>0, <2>1 DEF PrepInv
  <2>6. CutSince(v)'
    BY <2>1, <2>2, <2>3, <2>5 DEF CutSince, CutBy, Was
  <2>7. PrepShape'
    BY <2>1, <2>2, <2>3 DEF PrepShape
  <2> QED  BY <2>1, <2>2, <2>4, <2>6, <2>7 DEF PrepInv
<1>6. CASE WriteManifest
  <2>1. prep.pc = "write" /\ prep.left = {} /\ library' = library /\ Now' = Now /\ Stamps' = Stamps /\ prep' = NoPrep
    BY <1>0, <1>6 DEF WriteManifest, Now, Stamps, PrepShape
  <2>2. /\ DOMAIN out' = {"tracks", "manifest", "spoilt"} /\ out'.tracks = out.tracks
        /\ out'.manifest = prep.stamp /\ out'.spoilt = (prep.of # prep.stamp.version)
    BY <1>0, <1>6 DEF WriteManifest, PrepShape
  <2>3. Probed
    BY <1>0, <2>1 DEF PrepInv
  <2>4. PICK v \in prep.of..Now : CutSince(v)
    BY <1>0, <2>1 DEF PrepInv
  <2>5. prep.stamp.version = v
    BY <2>4 DEF CutSince, StampOf
  <2>6. ASSUME ~out'.spoilt  PROVE Vouched'
    <3>1. v = prep.of
      BY <2>2, <2>5, <2>6
    <3>2. PICK plan, m : plan = prep.plan /\ m = prep.merge
      OBVIOUS
    <3>3. \A at \in Tracks(plan) : CutBy(plan, at, v)'
      BY <2>1, <2>2, <2>4, <3>2 DEF CutSince, CutBy, Was
    <3>4. Was(1, v)' /\ plan = PrepPlan(library'[v][1], m) /\ out'.manifest = StampOf(plan, m, v)
      BY <2>1, <2>2, <2>3, <2>4, <3>1, <3>2 DEF CutSince, Probed, Was
    <3>5. Vouches(v, m, plan)' /\ v \in 1..Now' /\ m \in BOOLEAN
      BY <2>1, <2>3, <3>1, <3>2, <3>3, <3>4 DEF Vouches, Probed, Was
    <3>6. plan \in {PrepPlan(library[v][1], m)}'
      BY <3>4
    <3> QED  BY <3>5, <3>6 DEF Vouched
  <2>7. PrepShape'
    BY <1>0, <2>1, <2>2 DEF PrepShape
  <2> QED  BY <1>0, <2>1, <2>6, <2>7 DEF PrepInv
<1>7. CASE PrepBreaksOff
  <2>1. prep' = NoPrep /\ DOMAIN out' = {"tracks", "manifest", "spoilt"} /\ out'.spoilt = TRUE
    BY <1>0, <1>7 DEF PrepBreaksOff, PrepShape
  <2>2. PrepShape'
    BY <1>0, <2>1 DEF PrepShape
  <2> QED  BY <1>0, <2>1, <2>2 DEF PrepInv
<1>8. \/ prep' = prep /\ out' = out
      \/ \E force, merge \in BOOLEAN : BeginPrep(force, merge)
      \/ ReadStamp \/ PrepTrack \/ OpenManifest \/ WriteManifest \/ PrepBreaksOff
  BY PrepAlone DEF PrepStep
<1> QED  BY <1>1, <1>2, <1>3, <1>4, <1>5, <1>6, <1>7, <1>8
-----------------------------------------------------------------------------

(* The invariant holds.                                                    *)
LEMMA Inductive == Spec => []IInv
<1>1. Init => IInv
  <2> SUFFICES ASSUME Init  PROVE IInv
    OBVIOUS
  <2>1. LibraryInv /\ Len(library) = 1
    <3>1. PICK choice \in Budgets : library \in {<<b>> : b \in choice.books}
      BY DEF Init
    <3>2. PICK b \in choice.books : library = <<b>>
      BY <3>1
    <3>3. b \in Held
      BY DEF Held
    <3>4. PICK n \in Nat : n = Len(b) /\ DOMAIN b = 1..n
      BY <3>3, HeldAre, LenProperties
    <3>5. PICK stamps : stamps = [k \in 1..n |-> 1] /\ since = <<stamps>>
      BY <3>2, <3>4 DEF Init
    <3>6. stamps \in Seq(Nat)
      BY <3>5
    <3>7. Now = 1 /\ Stamps = stamps /\ library[1] = b
      BY <3>2, <3>5 DEF Now, Stamps
    <3> QED  BY <3>2, <3>3, <3>4, <3>5, <3>6, <3>7 DEF LibraryInv
  <2>2. ThreadsInv
    <3>1. thread = [t \in Thread |-> Idle]
      BY DEF Init
    <3> QED  BY <3>1, IdleSound DEF ThreadsInv
  <2>3. InfosInv
    BY DEF Init, InfosInv
  <2>4. SlotsInv
    <3>1. \A t \in Thread : thread[t].pc = "idle"
      BY IdleSound DEF Init
    <3>2. Streaming = {} /\ Planning = {}
      BY <3>1 DEF Streaming, Planning
    <3> QED  BY <3>2, SlotsAssumption, FS_EmptySet DEF Init, SlotsInv
  <2>5. ScanInv
    <3>1. \A t \in Thread : thread[t].pc = "idle"
      BY IdleSound DEF Init
    <3>2. catalogue = [root \in Root |-> None] /\ scanLock = None
      BY DEF Init
    <3> QED  BY <3>1, <3>2 DEF ScanInv
  <2>6. PrepInv
    BY DEF Init, PrepInv, PrepShape, NoPrep, PrepFields
  <2> QED  BY <2>1, <2>2, <2>3, <2>4, <2>5, <2>6 DEF IInv
<1>2. IInv /\ [Next]_vars => IInv'
  <2> SUFFICES ASSUME IInv, [Next]_vars  PROVE IInv'
    OBVIOUS
  <2>1. LibraryInv'
    BY LibraryGrows DEF IInv
  <2> QED  BY <2>1, ThreadsKept, InfosKept, SlotsKept, ScanKept, PrepKept DEF IInv
<1> QED  BY <1>1, <1>2, PTL DEF Spec

(* Eight threads share the slots and the scan lock, and a client holds a   *)
(* ZIP it can open only when the whole card was sent, planned as the       *)
(* version of its link, and of that version but for the last track of each *)
(* file (get_book, stream, card_zip).                                      *)
THEOREM ServingStaysSound == Spec => []ServingSound
<1>1. IInv => ServingSound
  <2> SUFFICES ASSUME IInv  PROVE ServingSound
    OBVIOUS
  <2>1. downloads \in 0..DownloadSlots /\ planners \in 0..PlannerSlots
    <3>1. IsFiniteSet(Streaming) /\ IsFiniteSet(Planning)
      BY SlotsAssumption, FS_Subset DEF Streaming, Planning
    <3>2. Cardinality(Streaming) \in Nat /\ Cardinality(Planning) \in Nat
      BY <3>1, FS_CardinalityType
    <3> QED  BY <3>2, SlotsAssumption DEF IInv, SlotsInv
  <2>2. \A r \in Root : catalogue[r] \in (1..Now) \cup {None}
    BY DEF IInv, ScanInv
  <2>3. scanLock \in Thread \cup {None} /\ \A s \in DOMAIN infos : infos[s] \in s[2]..Now
    BY DEF IInv, ScanInv, InfosInv, Later, Was, LibraryInv, Now
  <2>4. \A t \in Thread : thread[t].pc \in {"idle", "scan", "probe", "check", "cut", "send", "close"}
    BY DEF IInv, ThreadsInv, Sound, InStream
  <2>5. prep.pc \in {"off", "stamp", "cut", "write"}
    BY DEF IInv, PrepInv, PrepShape
  <2>6. CompleteZipIsWhole
    BY DEF IInv, ThreadsInv, Sound, ZipWhole, CompleteZipIsWhole
  <2> QED  BY <2>1, <2>2, <2>3, <2>4, <2>5, <2>6 DEF ServingSound, TypeOK
<1> QED  BY <1>1, Inductive, PTL

(* A listing never gives way to an older one (catalogue_lock).             *)
THEOREM CacheAdvances == Spec => CacheNeverGoesBack
<1>1. ASSUME IInv, [Next]_vars
      PROVE  [\A r \in Root : catalogue[r] # None /\ catalogue'[r] # None => catalogue'[r] >= catalogue[r]]_vars
  BY <1>1, ScanKept
<1> QED  BY <1>1, Inductive, PTL DEF Spec, CacheNeverGoesBack

(* A book that yoto-prep would skip as prepared is prepared: each track of *)
(* its plan is there, cut from the file as it is, where the plan says      *)
(* (prep_book).                                                            *)
THEOREM OnlyPreparedIsSkipped == Spec => []SkipsOnlyPrepared
<1>1. IInv => SkipsOnlyPrepared
  <2> SUFFICES ASSUME IInv, prep.pc \in {"off", "stamp"}, out.manifest # None, ~out.spoilt, Len(library[Now]) = 1,
                      NEW merge \in BOOLEAN,
                      NEW plan, plan = PrepPlan(library[Now][1], merge), out.manifest = StampOf(plan, merge, Stamps[1]),
                      NEW at \in Tracks(plan)
               PROVE  at \in DOMAIN out.tracks /\ out.tracks[at] = <<Stamps[1], plan[at[1]][at[2]]>>
    BY DEF SkipsOnlyPrepared
  <2>1. PICK v \in 1..Now, m \in BOOLEAN : \E p \in {PrepPlan(library[v][1], m)} : Vouches(v, m, p)
    BY DEF IInv, PrepInv, Vouched
  <2>2. PICK p : Vouches(v, m, p)
    BY <2>1
  <2>3. v = Stamps[1] /\ m = merge
    BY <2>2 DEF Vouches, StampOf
  <2>4. 1 \in DOMAIN Stamps /\ library[Stamps[1]][1] = library[Now][1]
    <3>1. Now \in 1..Now /\ LibraryInv
      BY DEF IInv, LibraryInv, Now
    <3>2. DOMAIN library[Now] = 1..1
      BY <3>1, LibraryHolds, LenProperties
    <3> QED  BY <3>1, <3>2 DEF LibraryInv
  <2>5. p = plan
    BY <2>2, <2>3, <2>4 DEF Vouches
  <2>6. PICK c \in Stamps[1]..Now : Was(1, c) /\ out.tracks[at] = <<c, plan[at[1]][at[2]]>>
    BY <2>2, <2>3, <2>5 DEF Vouches, CutBy
  <2>7. c = Stamps[1]
    BY <2>4, <2>6, WasNow DEF IInv, Later
  <2> QED  BY <2>2, <2>5, <2>6, <2>7 DEF Vouches, CutBy
<1> QED  BY <1>1, Inductive, PTL
-----------------------------------------------------------------------------
(* What a thread has is a plan of files the book has had, each in its      *)
(* place, if not at the same time; what a run has not begun to plan is     *)
(* empty.                                                                  *)
HadFiles == {files \in Seq(Source) :
  \A k \in DOMAIN files : \E v \in 1..Now : k \in DOMAIN library[v] /\ files[k] = library[v][k]}
Planned(cards) == cards = <<>> \/ \E files \in HadFiles : cards = PlanBook(files)
CardsInv == \A t \in Thread : Planned(thread[t].cards)
RestInv == prep.pc = "off" => prep = NoPrep
PlanInv == CardsInv /\ RestInv

LEMMA PlannedKept ==
  ASSUME LibraryInv, [Next]_vars, NEW cards, Planned(cards)
  PROVE  Planned(cards)'
<1>1. Now \in Nat /\ Now' \in Nat /\ Now <= Now' /\ \A v \in 1..Now : library'[v] = library[v]
  BY LibraryGrows
<1>2. ASSUME NEW files \in HadFiles  PROVE files \in HadFiles'
  <2>1. ASSUME NEW k \in DOMAIN files
        PROVE  \E v \in 1..Now' : k \in DOMAIN library'[v] /\ files[k] = library'[v][k]
    <3>1. PICK v \in 1..Now : k \in DOMAIN library[v] /\ files[k] = library[v][k]
      BY DEF HadFiles
    <3> QED  BY <1>1, <3>1
  <2> QED  BY <2>1 DEF HadFiles
<1> QED  BY <1>2 DEF Planned

(* What is probed of the files of a request are files the book has had.    *)
LEMMA FilesAre ==
  ASSUME LibraryInv, NEW r, FoundSound(r), DOMAIN r.found = DOMAIN r.stamp
  PROVE  Files(r.found) \in HadFiles
<1>1. PICK n \in Nat : DOMAIN r.found = 1..n
  BY LenProperties DEF FoundSound
<1>2. PICK files : files = Files(r.found) /\ files = [k \in 1..n |-> library[r.found[k]][k]]
  BY <1>1 DEF Files
<1>3. ASSUME NEW k \in 1..n
      PROVE  /\ r.found[k] \in 1..Now /\ k \in DOMAIN library[r.found[k]]
             /\ files[k] = library[r.found[k]][k] /\ files[k] \in Source
  <2>1. Was(k, r.found[k])
    BY <1>1 DEF FoundSound, Later
  <2>2. PICK v \in 1..Now : v = r.found[k] /\ k \in DOMAIN library[v]
    BY <2>1 DEF Was
  <2>3. library[v] \in Seq(Source)
    BY LibraryHolds
  <2>4. library[v][k] \in Source
    BY <2>2, <2>3, LenProperties, ElementOfSeq
  <2> QED  BY <1>2, <2>2, <2>4
<1>4. files \in Seq(Source)
  BY <1>2, <1>3, SeqDef
<1> QED  BY <1>2, <1>3, <1>4 DEF HadFiles

(* A thread goes on with the plan it has, with none, or with a new one.    *)
LEMMA CardsMove ==
  ASSUME IInv, CardsInv, [Next]_vars, NEW t \in Thread, NEW r, thread' = [thread EXCEPT ![t] = r], Planned(r.cards)
  PROVE  CardsInv'
<1>0. LibraryInv /\ thread = [u \in Thread |-> thread[u]]
  BY DEF IInv, ThreadsInv
<1>1. thread'[t] = r /\ \A u \in Thread \ {t} : thread'[u] = thread[u]
  BY <1>0
<1>2. ASSUME NEW u \in Thread  PROVE Planned(thread[u].cards)'
  <2>1. PICK cards : cards = thread'[u].cards
    OBVIOUS
  <2>2. Planned(cards)
    <3>1. CASE u = t
      BY <1>1, <2>1, <3>1
    <3>2. CASE u # t
      BY <1>1, <2>1, <3>2 DEF CardsInv
    <3> QED  BY <3>1, <3>2
  <2>3. Planned(cards)'
    BY <1>0, <2>2, PlannedKept
  <2> QED  BY <2>1, <2>3 DEF Planned
<1> QED  BY <1>2 DEF CardsInv

LEMMA CardsKept ==
  ASSUME IInv, CardsInv, [Next]_vars
  PROVE  CardsInv'
<1>0. LibraryInv /\ ThreadsInv /\ InfosInv /\ Now \in Nat \ {0}
  BY DEF IInv, LibraryInv, Now
<1>1. ASSUME thread' = thread  PROVE CardsInv'
  <2>1. ASSUME NEW u \in Thread  PROVE Planned(thread[u].cards)'
    <3>1. PICK cards : cards = thread[u].cards /\ cards = thread'[u].cards
      BY <1>1
    <3>2. Planned(cards)
      BY <3>1 DEF CardsInv
    <3>3. Planned(cards)'
      BY <1>0, <3>2, PlannedKept
    <3> QED  BY <3>1, <3>3 DEF Planned
  <2> QED  BY <2>1 DEF CardsInv
<1>2. CASE RestartService
  <2>1. thread' = [t \in Thread |-> Idle]
    BY <1>2 DEF RestartService
  <2>2. \A u \in Thread : thread'[u].cards = <<>>
    BY <2>1 DEF Idle
  <2> QED  BY <2>2 DEF CardsInv, Planned
<1>3. ASSUME NEW t \in Thread,
             \/ \E root \in Root : BeginScan(t, root)
             \/ \E card \in 0..2, link \in 1..Now : GetBook(t, card, link)
             \/ EndScan(t) \/ PlanFails(t)
      PROVE  CardsInv'
  <2>1. PICK r : thread' = [thread EXCEPT ![t] = r] /\ r.cards = <<>>
    <3>1. CASE EndScan(t) \/ PlanFails(t)
      <4>1. thread' = [thread EXCEPT ![t] = Idle]
        BY <3>1 DEF EndScan, PlanFails
      <4>2. Idle.cards = <<>>
        BY DEF Idle
      <4> QED  BY <4>1, <4>2
    <3>2. ASSUME NEW root \in Root, BeginScan(t, root)
          PROVE  \E r : thread' = [thread EXCEPT ![t] = r] /\ r.cards = <<>>
      <4>1. PICK r : r = [Idle EXCEPT !.pc = "scan", !.root = root, !.seen = Now]
        OBVIOUS
      <4>2. thread' = [thread EXCEPT ![t] = r]
        BY <3>2, <4>1 DEF BeginScan
      <4>3. r.cards = <<>>
        BY <4>1 DEF Idle
      <4> QED  BY <4>2, <4>3
    <3>3. ASSUME NEW card \in 0..2, NEW link \in 1..Now, GetBook(t, card, link)
          PROVE  \E r : thread' = [thread EXCEPT ![t] = r] /\ r.cards = <<>>
      <4>1. PICK to, r : to = since[link] /\ r = [Idle EXCEPT !.pc = "probe", !.stamp = Stamps, !.card = card, !.link = to]
        OBVIOUS
      <4>2. thread' = [thread EXCEPT ![t] = r]
        BY <3>3, <4>1 DEF GetBook
      <4>3. r.cards = <<>>
        BY <4>1 DEF Idle
      <4> QED  BY <4>2, <4>3
    <3> QED  BY <1>3, <3>1, <3>2, <3>3
  <2> QED  BY <2>1, CardsMove DEF Planned
<1>4. ASSUME NEW t \in Thread, PlanAndAdmit(t)  PROVE CardsInv'
  <2>1. DOMAIN thread[t] = RequestFields /\ FoundSound(thread[t]) /\ DOMAIN thread[t].found = DOMAIN thread[t].stamp
    BY <1>0, <1>4 DEF ThreadsInv, Sound, PlanAndAdmit
  <2>2. Files(thread[t].found) \in HadFiles
    BY <1>0, <2>1, FilesAre
  <2>3. PICK cards, p : /\ cards = PlanBook(Files(thread[t].found)) /\ p \in {thread[t], Idle}
                        /\ \/ thread' = [thread EXCEPT ![t] = [p EXCEPT !.pc = "check", !.cards = cards]]
                           \/ thread' = [thread EXCEPT ![t] = [p EXCEPT !.cards = cards]]
    BY <1>4 DEF PlanAndAdmit
  <2>4. DOMAIN p = RequestFields
    BY <2>1, <2>3, IdleSound
  <2>5. PICK r : r \in {[p EXCEPT !.pc = "check", !.cards = cards], [p EXCEPT !.cards = cards]}
                 /\ thread' = [thread EXCEPT ![t] = r]
    BY <2>3
  <2>6. r.cards = cards
    BY <2>4, <2>5 DEF RequestFields
  <2> QED  BY <2>2, <2>3, <2>5, <2>6, CardsMove DEF Planned
<1>5. ASSUME NEW t \in Thread,
             \/ ProbeFile(t)
             \/ CheckSource(t) \/ CutTrack(t) \/ SendTrack(t) \/ CloseZip(t) \/ FailDownload(t) \/ Disconnect(t)
      PROVE  CardsInv'
  <2>1. PICK q : q = thread[t] /\ DOMAIN q = RequestFields /\ Planned(q.cards)
    BY <1>0 DEF ThreadsInv, Sound, CardsInv
  <2>2. PICK r : thread' = [thread EXCEPT ![t] = r] /\ r.cards = q.cards
    <3>1. CASE CheckSource(t)
      <4>1. PICK r : r = [q EXCEPT !.pc = "cut"] /\ thread' = [thread EXCEPT ![t] = r]
        BY <2>1, <3>1 DEF CheckSource, Step
      <4>2. r.cards = q.cards
        BY <2>1, <4>1 DEF RequestFields
      <4> QED  BY <4>1, <4>2
    <3>2. CASE CutTrack(t)
      <4>1. PICK seen, r : r = [q EXCEPT !.pc = "send", !.seen = seen] /\ thread' = [thread EXCEPT ![t] = r]
        BY <2>1, <3>2 DEF CutTrack, Step
      <4>2. r.cards = q.cards
        BY <2>1, <4>1 DEF RequestFields
      <4> QED  BY <4>1, <4>2
    <3>3. CASE SendTrack(t)
      <4>1. PICK zip, r : /\ r = [q EXCEPT !.zip = zip,
                                    !.pc = IF Len(zip) = Len(q.cards[q.card]) THEN "close" ELSE "check"]
                          /\ thread' = [thread EXCEPT ![t] = r]
        BY <2>1, <3>3 DEF SendTrack, Step
      <4>2. r.cards = q.cards
        BY <2>1, <4>1 DEF RequestFields
      <4> QED  BY <4>1, <4>2
    <3>4. CASE CloseZip(t) \/ FailDownload(t) \/ Disconnect(t)
      <4>1. PICK p : /\ p \in {q, [q EXCEPT !.complete = FALSE], [q EXCEPT !.complete = TRUE]}
                     /\ thread' = [thread EXCEPT ![t] = [p EXCEPT !.pc = "idle"]]
        BY <2>1, <3>4 DEF CloseZip, FailDownload, Disconnect, EndStream, SentAfterFailure
      <4>2. DOMAIN p = RequestFields /\ p.cards = q.cards
        BY <2>1, <4>1 DEF RequestFields
      <4>3. PICK r : r = [p EXCEPT !.pc = "idle"]
        OBVIOUS
      <4>4. r.cards = q.cards
        BY <4>2, <4>3 DEF RequestFields
      <4> QED  BY <4>1, <4>3, <4>4
    <3>5. CASE ProbeFile(t)
      <4>1. PICK found, r : r = [q EXCEPT !.found = found] /\ thread' = [thread EXCEPT ![t] = r]
        BY <2>1, <3>5 DEF ProbeFile
      <4>2. r.cards = q.cards
        BY <2>1, <4>1 DEF RequestFields
      <4> QED  BY <4>1, <4>2
    <3> QED  BY <1>5, <3>1, <3>2, <3>3, <3>4, <3>5
  <2> QED  BY <2>1, <2>2, CardsMove
<1>6. \/ thread' = thread \/ RestartService
      \/ \E t \in Thread : \/ \E root \in Root : BeginScan(t, root)
                           \/ \E card \in 0..2, link \in 1..Now : GetBook(t, card, link)
                           \/ ThreadStep(t)
  BY DEF vars, shareVars, Next, ChangeBook, BeginPrep, PrepStep, ReadStamp, PrepTrack, OpenManifest, WriteManifest,
         PrepBreaksOff
<1> QED  BY <1>1, <1>2, <1>3, <1>4, <1>5, <1>6 DEF ThreadStep

(* A run that ends, or breaks off, leaves no plan behind.                  *)
LEMMA RestKept ==
  ASSUME IInv, RestInv, [Next]_vars
  PROVE  RestInv'
<1>0. DOMAIN prep = PrepFields
  BY DEF IInv, PrepInv, PrepShape
<1>1. ASSUME prep' = prep  PROVE RestInv'
  BY <1>1 DEF RestInv
<1>2. ASSUME prep' = NoPrep  PROVE RestInv'
  BY <1>2 DEF RestInv
<1>3. ASSUME prep'.pc # "off"  PROVE RestInv'
  BY <1>3 DEF RestInv
<1>4. ASSUME NEW force \in BOOLEAN, NEW merge \in BOOLEAN, BeginPrep(force, merge)  PROVE prep'.pc # "off"
  BY <1>4 DEF BeginPrep, NoPrep
<1>5. CASE ReadStamp
  <2>1. PICK s : prep' = NoPrep \/ prep' = [prep EXCEPT !.pc = "cut", !.stamp = s, !.left = Tracks(prep.plan)]
    BY <1>5 DEF ReadStamp
  <2>2. CASE prep' = NoPrep
    BY <1>2, <2>2
  <2>3. CASE prep' = [prep EXCEPT !.pc = "cut", !.stamp = s, !.left = Tracks(prep.plan)]
    <3>1. prep'.pc = "cut"
      BY <1>0, <2>3 DEF PrepFields
    <3> QED  BY <1>3, <3>1
  <2> QED  BY <2>1, <2>2, <2>3
<1>6. CASE PrepTrack \/ OpenManifest
  <2>1. prep'.pc \in {"cut", "write"}
    BY <1>0, <1>6 DEF PrepTrack, OpenManifest, PrepFields
  <2> QED  BY <1>3, <2>1
<1>7. CASE WriteManifest \/ PrepBreaksOff
  BY <1>2, <1>7 DEF WriteManifest, PrepBreaksOff
<1>8. \/ prep' = prep \/ \E force, merge \in BOOLEAN : BeginPrep(force, merge)
      \/ ReadStamp \/ PrepTrack \/ OpenManifest \/ WriteManifest \/ PrepBreaksOff
  BY PrepAlone DEF PrepStep
<1> QED  BY <1>1, <1>3, <1>4, <1>5, <1>6, <1>7, <1>8

LEMMA PlansInductive == Spec => [](IInv /\ PlanInv)
<1>1. Init => PlanInv
  <2> SUFFICES ASSUME Init  PROVE PlanInv
    OBVIOUS
  <2>1. \A t \in Thread : thread[t].cards = <<>>
    BY DEF Init, Idle
  <2>2. CardsInv
    BY <2>1 DEF CardsInv, Planned
  <2> QED  BY <2>2 DEF PlanInv, RestInv, Init
<1>2. IInv /\ PlanInv /\ [Next]_vars => PlanInv'
  BY CardsKept, RestKept DEF PlanInv
<1> QED  BY <1>1, <1>2, Inductive, PTL DEF Spec

(* Whatever chapters and rates the files of a book have, the cards of its  *)
(* plan, read one after the other, are the tracks the book is cut into:    *)
(* none is left out, repeated or moved, and no card is empty               *)
(* (_split_evenly, plan_book).                                             *)
PlaysTheBook(cards) ==
  \E files \in HadFiles : /\ FlattenSeq(cards) = ShareTracks(files)
                          /\ \A k \in DOMAIN cards : cards[k] # <<>>
AllTracksPlayed == \A t \in Thread : thread[t].cards # <<>> => PlaysTheBook(thread[t].cards)

THEOREM EveryTrackIsPlayed == Spec => []AllTracksPlayed
<1>1. ASSUME IInv, PlanInv, NEW t \in Thread, thread[t].cards # <<>>  PROVE PlaysTheBook(thread[t].cards)
  <2>1. PICK files \in HadFiles : thread[t].cards = PlanBook(files)
    BY <1>1 DEF PlanInv, CardsInv, Planned
  <2>2. files \in Seq(Source)
    BY DEF HadFiles
  <2>3. PICK segs \in Seq(Forward) : segs = ShareTracks(files)
    BY <2>2, ShareTracksAre
  <2>4. Plays(PlanTracks(segs), Forward, segs)
    BY PlanTracksAre
  <2>5. thread[t].cards = PlanTracks(segs)
    BY <2>1, <2>2, <2>3 DEF PlanBook
  <2> QED  BY <2>1, <2>2, <2>3, <2>4, <2>5 DEF Plays, PlaysTheBook
<1>2. IInv /\ PlanInv => AllTracksPlayed
  BY <1>1 DEF AllTracksPlayed
<1> QED  BY <1>2, PlansInductive, PTL

(* Of books whose chapters follow each other, with limits worth whole      *)
(* units of a file's time and room on a card for what merging leaves in a  *)
(* track, every plan keeps within the limits of the player and plays in    *)
(* order (build_segments, merge_segments, pack_cards, plan_book).          *)
THEOREM PlansStayRight ==
  ASSUME \A files \in Held : Plannable(files)
  PROVE  Spec => []PlanRight
<1>1. ASSUME IInv, PlanInv  PROVE PlanRight
  <2>0. Fitting(<<>>, ShareTrackBytes, 0) /\ InTurn(<<>>)
        /\ Fitting(<<>>, TrackBytes, IF prep.merge THEN Sliver - 1 ELSE 0)
    <3>1. FlattenSeq(<<>>) = <<>>
      BY FlattenGrows DEF FlattenSeq
    <3> QED  BY <3>1 DEF Fitting, InTurn
  <2>1. ASSUME NEW t \in Thread
        PROVE  Fitting(thread[t].cards, ShareTrackBytes, 0) /\ InTurn(thread[t].cards)
    <3>1. CASE thread[t].cards = <<>>
      BY <2>0, <3>1
    <3>2. CASE thread[t].cards # <<>>
      <4>1. PICK files \in HadFiles : thread[t].cards = PlanBook(files)
        BY <1>1, <3>2 DEF PlanInv, CardsInv, Planned
      <4>2. ASSUME NEW k \in DOMAIN files
            PROVE  InOrder(files[k].chapters) /\ WholeRate(files[k], ShareTrackBytes)
        <5>1. PICK v \in 1..Now : k \in DOMAIN library[v] /\ files[k] = library[v][k]
          BY DEF HadFiles
        <5>2. Plannable(library[v])
          BY <1>1, LibraryHolds DEF IInv
        <5> QED  BY <5>1, <5>2 DEF Plannable, ChaptersFollow, RatesAreWhole
      <4>3. files \in Seq(Source) /\ ChaptersFollow(files) /\ RatesAreWhole(files, ShareTrackBytes)
        BY <4>2 DEF HadFiles, ChaptersFollow, RatesAreWhole
      <4> QED  BY <4>1, <4>3, BookPlanRight
    <3> QED  BY <3>1, <3>2
  <2>2. Fitting(prep.plan, TrackBytes, IF prep.merge THEN Sliver - 1 ELSE 0) /\ InTurn(prep.plan)
    <3>1. CASE prep.pc = "off"
      <4>1. prep.plan = <<>>
        BY <1>1, <3>1 DEF PlanInv, RestInv, NoPrep
      <4> QED  BY <2>0, <4>1
    <3>2. CASE prep.pc # "off"
      <4>1. /\ prep.of \in 1..Now /\ prep.merge \in BOOLEAN /\ 1 \in DOMAIN library[prep.of]
            /\ prep.plan = PrepPlan(library[prep.of][1], prep.merge)
        BY <1>1, <3>2 DEF IInv, PrepInv, Probed, Was
      <4>2. PICK files \in Seq(Source) : files = library[prep.of] /\ Plannable(files)
        BY <1>1, <4>1, LibraryHolds DEF IInv
      <4>3. PICK file \in Source : file = files[1] /\ 1 \in DOMAIN files
        <5>1. DOMAIN files = 1..Len(files) /\ 1 \in 1..Len(files)
          BY <4>1, <4>2, LenProperties
        <5> QED  BY <5>1, ElementOfSeq
      <4>4. InOrder(file.chapters) /\ WholeRate(file, TrackBytes) /\ Roomy(file)
        BY <4>2, <4>3 DEF Plannable, ChaptersFollow, RatesAreWhole
      <4> QED  BY <4>1, <4>2, <4>3, <4>4, FilePlanRight
    <3> QED  BY <3>1, <3>2
  <2>3. ASSUME NEW plan \in Plans
        PROVE  InTurn(plan) /\ \A k \in DOMAIN plan : FitsCard(plan[k])
    <3>1. (\E t \in Thread : plan = thread[t].cards) \/ plan = prep.plan
      BY DEF Plans
    <3> QED  BY <2>1, <2>2, <3>1 DEF Fitting
  <2>4. PlanFits
    BY <2>1, <2>2, <2>3 DEF PlanFits, Fitting
  <2>5. PlanPlaysInOrder
    BY <2>3 DEF PlanPlaysInOrder, InTurn
  <2> QED  BY <2>4, <2>5 DEF PlanRight
<1> QED  BY <1>1, PlansInductive, PTL
=============================================================================
