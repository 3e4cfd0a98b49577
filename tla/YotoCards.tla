------------------------------ MODULE YotoCards ------------------------------
(***************************************************************************)
(* How an audiobook is cut into tracks and packed into cards: the planning *)
(* of modules/nixos/services/yoto-share/yoto-prep.py, and of plan_book in  *)
(* server.py, which shares its splitter.  Times are whole units and a rate *)
(* is bytes per unit; where the code divides times, the division is to the *)
(* unit below.  Titles are left out; a track has the number of its file.    *)
(***************************************************************************)
EXTENDS Integers, Sublists, SequencesExt

CONSTANTS
  TrackTime, TrackBytes,           \* the longest track, and the largest
  CardTime, CardBytes, CardTracks, \* what a card holds
  CardMargin,                      \* the server's spare time on a card
  ShareTrackBytes, ShareCardBytes, \* the server's limits, in decimal megabytes
  SliceTime,                       \* a slice of a book without chapters
  Sliver                           \* a chapter shorter than this is dropped

ASSUME LimitsAssumption ==
  /\ {TrackTime, TrackBytes, CardTime, CardBytes, CardTracks, SliceTime, Sliver} \subseteq Nat \ {0}
  /\ CardMargin \in Nat
  /\ TrackTime + Sliver + CardMargin <= CardTime
  /\ TrackBytes <= CardBytes
  /\ ShareTrackBytes \in 1..TrackBytes
  /\ ShareCardBytes \in ShareTrackBytes..CardBytes

Segment == [of : Nat, start : Nat, end : Nat, rate : Nat]
Duration(seg) == seg.end - seg.start
Bytes(seg) == Duration(seg) * seg.rate
Durations(segs) == [k \in DOMAIN segs |-> Duration(segs[k])]

(* The sums of the first so many members of a sequence. *)
Sums(seq) ==
  LET sum[i \in 0..Len(seq)] == IF i = 0 THEN 0 ELSE sum[i - 1] + seq[i] IN sum
Total(seq) == Sums(seq)[Len(seq)]
TotalTime(segs) == Total(Durations(segs))
TotalBytes(segs) == Total([k \in DOMAIN segs |-> Bytes(segs[k])])

Greatest(m, n) == IF m < n THEN n ELSE m
Smallest(m, n) == IF m < n THEN m ELSE n
CeilDiv(a, b) == Greatest(1, (a + b - 1) \div b)

(* The usable chapters, or slices of equal length when there are none.     *)
Usable(seg) == Duration(seg) >= Sliver
Chapters(file, k) ==
  LET cut(ch) == [of |-> k, start |-> ch.start, end |-> Smallest(ch.end, file.time), rate |-> file.rate]
  IN  Keep([n \in DOMAIN file.chapters |-> cut(file.chapters[n])], Usable)
Slices(file, k) ==
  [n \in 1..CeilDiv(file.time, SliceTime) |->
     [ of |-> k, start |-> (n - 1) * SliceTime, end |-> Smallest(n * SliceTime, file.time),
       rate |-> file.rate ]]

(* The fewest equal parts of a segment that are tracks. *)
PartsByTime(seg, bytes) == CeilDiv(Duration(seg), TrackTime)
PartsOf(seg, bytes) ==
  Greatest(CeilDiv(Duration(seg), TrackTime), CeilDiv(Bytes(seg), bytes))
Subdivide(seg, bytes) ==
  LET n == PartsOf(seg, bytes)
      at(p) == seg.start + (p * Duration(seg)) \div n
  IN  [p \in 1..n |-> [seg EXCEPT !.start = at(p - 1), !.end = at(p)]]

BuildSegments(file, k, bytes) ==
  LET segs == IF Chapters(file, k) # <<>> THEN Chapters(file, k) ELSE Slices(file, k)
  IN  FlattenSeq([n \in DOMAIN segs |-> Subdivide(segs[n], bytes)])

(* merge_segments: neighbours glued together as far as a track reaches.    *)
Glues(a, b) ==
  LET time == Duration(a) + Duration(b)
  IN  /\ b.start - a.end \in (1 - Sliver)..(Sliver - 1)
      /\ time <= TrackTime
      /\ time * a.rate <= TrackBytes
Glued(out, seg) ==
  IF out # <<>> /\ Glues(Last(out), seg)
  THEN Append(Front(out), [Last(out) EXCEPT !.end = seg.end]) ELSE Append(out, seg)
MergeSegments(segs) ==
  LET out[i \in 0..Len(segs)] == IF i = 0 THEN <<>> ELSE Glued(out[i - 1], segs[i])
  IN  out[Len(segs)]

(* _split_evenly: each segment goes to the card its midpoint falls in      *)
(* (twice the midpoint is what was before it and what is with it);         *)
(* midpoints only grow, so the code's max(k, last) is k.  Cards left empty *)
(* are dropped.                                                            *)
CardOf(segs, n, i) ==
  LET upto == Sums(Durations(segs))
      total == upto[Len(segs)]
  IN  IF total = 0 THEN 1
      ELSE Smallest(n, 1 + ((upto[i - 1] + upto[i]) * n) \div (2 * total))
OnCard(segs, n, k) ==
  LET mine == {i \in DOMAIN segs : CardOf(segs, n, i) = k}
  IN  IF mine = {} THEN <<>> ELSE SubSeq(segs, Min(mine), Max(mine))
KeepsEmpty(card) == TRUE
NonEmpty(card) == card # <<>>
SplitEvenly(segs, n) == Keep([k \in 1..n |-> OnCard(segs, n, k)], NonEmpty)

(* The first even split, from the least number of cards upward, of which   *)
(* every card fits; a card to each segment if none does.                   *)
Packed(segs, least, fits(_)) ==
  LET good == {n \in least..Len(segs) : \A card \in Range(SplitEvenly(segs, n)) : fits(card)}
  IN  IF good # {} THEN SplitEvenly(segs, Min(good)) ELSE [k \in DOMAIN segs |-> <<segs[k]>>]

LeastCards(segs, bytes) ==
  Greatest(CeilDiv(TotalTime(segs), CardTime),
    Greatest(CeilDiv(TotalBytes(segs), bytes), CeilDiv(Len(segs), CardTracks)))

FitsCard(card) ==
  TotalTime(card) <= CardTime /\ TotalBytes(card) <= CardBytes /\ Len(card) <= CardTracks
FitsWithMargin(card) ==
  /\ Len(card) <= CardTracks
  /\ TotalTime(card) <= CardTime - CardMargin
  /\ TotalBytes(card) <= ShareCardBytes

PackCards(segs) == Packed(segs, LeastCards(segs, CardBytes), FitsCard)

(* prep_book's plan of one file. *)
PrepTracks(file, merge) ==
  IF merge THEN MergeSegments(BuildSegments(file, 1, TrackBytes)) ELSE BuildSegments(file, 1, TrackBytes)
PrepPlan(file, merge) == PackCards(PrepTracks(file, merge))

(* plan_book's plan of all the files of a book, in order: a file without   *)
(* chapters among several is one chapter.                                  *)
Whole(file) == [file EXCEPT !.chapters = <<[start |-> 0, end |-> file.time]>>]
ShareTracks(files) ==
  LET alone == Len(files) = 1
      source(k) == IF files[k].chapters = <<>> /\ ~alone THEN Whole(files[k]) ELSE files[k]
  IN  FlattenSeq([k \in DOMAIN files |-> BuildSegments(source(k), k, ShareTrackBytes)])
PlanTracks(tracks) == Packed(tracks, LeastCards(tracks, ShareCardBytes), FitsWithMargin)
PlanBook(files) == PlanTracks(ShareTracks(files))
=============================================================================
