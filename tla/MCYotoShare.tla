----------------------------- MODULE MCYotoShare -----------------------------
(* Limits small enough to be reached: a track of 6 units and 8 bytes, a    *)
(* card of 12 units, 16 bytes and 3 tracks; a chapter of 1 unit is dropped.*)
EXTENDS YotoShare, TLC

File(time, rate, ends) ==
  [ time |-> time, rate |-> rate,
    chapters |-> [k \in DOMAIN ends |-> [start |-> IF k = 1 THEN 0 ELSE ends[k - 1], end |-> ends[k]]] ]

(* Files with no chapters, or with any way to divide them into up to three, *)
(* the last of which may reach beyond the end.                              *)
ChapterEnds(time) ==
  {<<>>} \cup {<<a>> : a \in {time, time + 1}} \cup
  {<<a, time>> : a \in 1..time - 1} \cup
  {<<e[1], e[2], time>> : e \in {f \in (1..time - 1) \X (1..time - 1) : f[1] <= f[2]}}
ManyFiles == UNION {{File(time, rate, ends) : ends \in ChapterEnds(time)} : time \in 1..9, rate \in 1..2}
LongFiles == UNION {{File(time, 1, ends) : ends \in {<<>>, <<time>>, <<5, time>>, <<4, 17, time>>}} : time \in 18..26}
(* Long chapters before short ones: an even split leaves a card empty.     *)
Uneven == File(21, 1, <<2, 8, 13, 15, 17, 19, 21>>)
Singles == {<<f>> : f \in ManyFiles \cup LongFiles \cup {Uneven}}
Pairs == {<<f, g>> : f, g \in {File(t, r, e) : t \in {2, 7}, r \in 1..2, e \in {<<>>, <<1, 2>>}}}

Short == <<File(6, 1, <<3, 6>>)>>
Long == <<File(12, 1, <<>>)>>
(* As many tracks as Short, with other ends. *)
Moved == <<File(6, 1, <<2, 6>>)>>
(* Two files on one card of three tracks, and the first cut elsewhere.     *)
Two == Short \o <<File(3, 1, <<>>)>>
TwoMoved == Moved \o <<File(3, 1, <<>>)>>
MCBooks == {Short, Long, Moved, Two, TwoMoved}

Budget(searches, requests, runs, changes) ==
  [searches |-> searches, requests |-> requests, runs |-> runs, changes |-> changes]
MCBudgets ==
  { [budget |-> Budget(0, 1, 0, 0), books |-> Singles \cup Pairs],
    [budget |-> Budget(0, 0, 1, 0), books |-> Singles],
    [budget |-> Budget(0, 2, 0, 1), books |-> MCBooks],
    [budget |-> Budget(3, 0, 0, 2), books |-> MCBooks],
    [budget |-> Budget(0, 0, 2, 2), books |-> MCBooks] }

(* Every one of these books is as the theorem PlansStayRight asks.         *)
ASSUME PlannableBooks == \A files \in Held : Plannable(files)
=============================================================================
