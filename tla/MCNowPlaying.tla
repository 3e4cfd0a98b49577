---------------------------- MODULE MCNowPlaying ----------------------------
(***************************************************************************)
(* Two shows back to back, the second of which starts at the moment the    *)
(* first ends, and nothing after them.  Their names make one file name.    *)
(***************************************************************************)
EXTENDS NowPlaying

CONSTANTS early, late, t1, t2

MCShow == {early, late}
MCStart == [s \in MCShow |-> IF s = early THEN 0 ELSE 3]
MCEnd == [s \in MCShow |-> IF s = early THEN 3 ELSE 6]
MCPathOf == [s \in MCShow \cup {NoShow} |-> IF s = NoShow THEN 2 ELSE 1]
MCTrack == {t1, t2}

(* What is in store for a run: the server over restarts and failed writes, *)
(* the server while it is asked for its lists, or the sensor.              *)
MCBudgets ==
  { [matches |-> 3, failures |-> 1, restarts |-> 1, runs |-> 0, requests |-> 0],
    [matches |-> 3, failures |-> 2, restarts |-> 0, runs |-> 0, requests |-> 1],
    [matches |-> 0, failures |-> 1, restarts |-> 0, runs |-> 3, requests |-> 0] }
=============================================================================
