--------------------------- MODULE NowPlayingProofs ---------------------------
(***************************************************************************)
(* Theorems about NowPlaying, for any guide, any names that share a file,  *)
(* any clock and any number of matches, failures, restarts and runs.       *)
(***************************************************************************)
EXTENDS NowPlaying, SublistProofs, SequenceTheorems

Line == [track : Track \cup {NoTrack}]
Name == Show \cup {NoShow}
Silent(list) == \A i \in 1..(Len(list) - 1) : list[i] # Spoilt => list[i + 1] # list[i]

(* What the fingerprint thread holds is the track that plays, until it is  *)
(* written.                                                                *)
FingerInv ==
  /\ heard \in Track \cup {NoTrack} /\ unlisted \in BOOLEAN
  /\ lists \in [Path -> Seq(Line)]
  /\ torn \subseteq Path /\ \A p \in torn : lists[p] # <<>>
  /\ finger \in [pc : {"listen", "show", "append"}, track : Track \cup {NoTrack}, show : Name]
  /\ finger.pc \in {"show", "append"} <=> finger.track # NoTrack
  /\ finger.pc # "listen" => finger.track = heard
  /\ \A p \in Path : Silent(lists[p])
  /\ CurrentTrackIsListed

(* A nap is over, and a lookup begins, no later than a nap and a lookup    *)
(* after the end of the show that was found.                               *)
ClockInv ==
  /\ now \in 0..LastTime
  /\ onShow \in [name : Name, end : Nat] /\ excused \in BOOLEAN
  /\ finder \in [pc : {"nap", "lookup"}, at : Nat]
  /\ now <= finder.at + (IF finder.pc = "lookup" THEN Lookup ELSE 0)
  /\ onShow.name # NoShow /\ ~excused => finder.at <= onShow.end + Poll + Lookup

(* The cache holds a show that has begun, with its end.                    *)
SensorInv ==
  /\ cache \in [name : Name, end : Nat]
  /\ cache.name # NoShow => cache.end = End[cache.name] /\ Start[cache.name] <= now
  /\ sensor \in [pc : {"off", "lookup", "told"}, at : Nat, show : Name]
  /\ sensor.at <= now
  /\ sensor.pc = "lookup" => sensor.show = NoShow
  /\ SensorTellsTheShow

ReaderInv ==
  /\ DOMAIN reader = {"pc", "toRead", "got"}
  /\ reader.pc \in {"idle", "read"} /\ reader.toRead \subseteq Path /\ DOMAIN reader.got = Path

IInv == FingerInv /\ ClockInv /\ SensorInv /\ ReaderInv
-----------------------------------------------------------------------------

(* A line that is added to a list, or runs into its torn end, says nothing *)
(* twice and leaves the rest as it was.                                    *)
LEMMA LineAdded ==
  ASSUME NEW list \in Seq(Line), NEW line \in Line, Silent(list),
         list = <<>> \/ list[Len(list)] # line \/ line = Spoilt
  PROVE  /\ Append(list, line) \in Seq(Line) /\ Append(list, line) # <<>> /\ Silent(Append(list, line))
         /\ Last(Append(list, line)) = line
<1>1. PICK new : new = Append(list, line)
  OBVIOUS
<1>2. /\ new \in Seq(Line) /\ Len(new) = Len(list) + 1 /\ new # <<>> /\ new[Len(new)] = line
      /\ \A i \in 1..Len(list) : new[i] = list[i]
  BY <1>1
<1>3. ASSUME NEW i \in 1..(Len(new) - 1), new[i] # Spoilt  PROVE new[i + 1] # new[i]
  <2>1. Len(list) \in Nat /\ i \in 1..Len(list) /\ new[i] = list[i]
    BY <1>2
  <2>2. CASE i = Len(list)
    BY <1>2, <1>3, <2>1, <2>2
  <2>3. CASE i # Len(list)
    <3>1. i \in 1..(Len(list) - 1) /\ i + 1 \in 1..Len(list)
      BY <2>1, <2>3
    <3>2. new[i + 1] = list[i + 1]
      BY <1>2, <3>1
    <3> QED  BY <1>3, <2>1, <3>1, <3>2 DEF Silent
  <2> QED  BY <2>2, <2>3
<1>4. Silent(new) /\ Last(new) = line
  BY <1>2, <1>3 DEF Silent, Last
<1> QED  BY <1>1, <1>2, <1>4

(* A list without its last line has its other lines. *)
LEMMA FrontLines ==
  ASSUME NEW list \in Seq(Line), list # <<>>
  PROVE  /\ Front(list) \in Seq(Line) /\ Len(list) \in Nat \ {0} /\ Len(Front(list)) = Len(list) - 1
         /\ \A i \in 1..(Len(list) - 1) : Front(list)[i] = list[i]
<1>1. PICK n \in Nat : n = Len(list) - 1 /\ Front(list) = SubSeq(list, 1, n)
  BY DEF Front
<1>2. \A i \in 1..n : list[i] \in Line
  BY <1>1
<1>3. /\ Front(list) \in Seq(Line) /\ Len(Front(list)) = IF 1 <= n THEN n - 1 + 1 ELSE 0
      /\ \A i \in 1..n - 1 + 1 : Front(list)[i] = list[1 + i - 1]
  BY <1>1, <1>2, SubSeqProperties
<1>4. Len(Front(list)) = n /\ \A i \in 1..n : Front(list)[i] = list[i]
  BY <1>3
<1> QED  BY <1>1, <1>3, <1>4

(* It says nothing twice either. *)
LEMMA FrontSilent ==
  ASSUME NEW list \in Seq(Line), list # <<>>, Silent(list)
  PROVE  Front(list) \in Seq(Line) /\ Silent(Front(list))
<1>1. PICK front : front = Front(list)
  OBVIOUS
<1>2. /\ front \in Seq(Line) /\ Len(front) = Len(list) - 1 /\ Len(list) \in Nat \ {0}
      /\ \A i \in 1..Len(front) : front[i] = list[i]
  BY <1>1, FrontLines
<1>3. ASSUME NEW i \in 1..(Len(front) - 1), front[i] # Spoilt  PROVE front[i + 1] # front[i]
  <2>1. i \in 1..(Len(list) - 1) /\ i \in 1..Len(front) /\ i + 1 \in 1..Len(front)
    BY <1>2
  <2> QED  BY <1>2, <1>3, <2>1 DEF Silent
<1> QED  BY <1>1, <1>2, <1>3 DEF Silent

(* A file that is written to, whole or torn.                               *)
LEMMA Written ==
  ASSUME GuideAssumption, FingerInv, NEW path \in Path, finger.pc = "append", ~ListedAlready(path),
         NEW line, line \in {Spoilt, [track |-> finger.track]}
  PROVE  /\ WithLine(path, line) \in Seq(Line) /\ WithLine(path, line) # <<>> /\ Silent(WithLine(path, line))
         /\ path \notin torn => Last(WithLine(path, line)) = line
<1>1. finger.track \in Track /\ NoTrack \notin Track /\ lists[path] \in Seq(Line) /\ Silent(lists[path])
  BY DEF FingerInv, GuideAssumption
<1>2. line \in Line /\ Spoilt \in Line /\ (line = Spoilt \/ line.track = finger.track)
  BY <1>1 DEF Line, Spoilt
<1>3. CASE path \in torn
  <2>1. lists[path] # <<>>
    BY <1>3 DEF FingerInv
  <2>2. PICK front : front = Front(lists[path]) /\ front \in Seq(Line) /\ Silent(front)
    BY <1>1, <2>1, FrontSilent
  <2>3. WithLine(path, line) = Append(front, Spoilt)
    BY <1>3, <2>2 DEF WithLine
  <2> QED  BY <1>2, <1>3, <2>2, <2>3, LineAdded
<1>4. CASE path \notin torn
  <2>1. WithLine(path, line) = Append(lists[path], line)
    BY <1>4 DEF WithLine
  <2>2. lists[path] = <<>> \/ lists[path][Len(lists[path])] # line \/ line = Spoilt
    BY <1>2 DEF ListedAlready, Last
  <2> QED  BY <1>1, <1>2, <2>1, <2>2, LineAdded
<1> QED  BY <1>3, <1>4

(* The fingerprint thread: what it hears is written once, or known not to  *)
(* be.                                                                     *)
LEMMA FingerKept ==
  ASSUME IInv, [Next]_vars
  PROVE  FingerInv'
<1>0. FingerInv /\ GuideAssumption /\ NoTrack \notin Track /\ onShow.name \in Name /\ Spoilt \in Line
  BY GuideAssumption DEF IInv, ClockInv, GuideAssumption, Spoilt, Line
<1> DEFINE Finger == [pc : {"listen", "show", "append"}, track : Track \cup {NoTrack}, show : Name]
<1>1. CASE UNCHANGED <<heard, finger, lists, torn, unlisted>>
  BY <1>0, <1>1 DEF FingerInv, CurrentTrackIsListed
<1>2. ASSUME NEW track \in Track, Match(track), Changed(track)  PROVE FingerInv'
  <2>1. /\ heard' = track /\ finger' = [Listening EXCEPT !.pc = "show", !.track = track]
        /\ lists' = lists /\ torn' = torn /\ unlisted' = unlisted
    BY <1>2 DEF Match, store
  <2>2. finger' = [pc |-> "show", track |-> track, show |-> NoShow]
    BY <2>1 DEF Listening
  <2> QED  BY <1>0, <2>1, <2>2 DEF FingerInv, CurrentTrackIsListed, Name
<1>3. CASE AskShow
  <2>1. /\ finger.pc = "show" /\ finger' = [finger EXCEPT !.pc = "append", !.show = onShow.name]
        /\ heard' = heard /\ lists' = lists /\ torn' = torn /\ unlisted' = unlisted
    BY <1>3 DEF AskShow, nowPlaying, store
  <2>2. finger' \in Finger /\ finger'.pc = "append" /\ finger'.track = finger.track
    BY <1>0, <2>1 DEF FingerInv
  <2> QED  BY <1>0, <2>1, <2>2 DEF FingerInv, CurrentTrackIsListed
<1>4. ASSUME NEW path \in Path, path = PathOf[finger.show], finger.pc = "append",
             heard' = heard, finger' = [Listening EXCEPT !.show = finger.show], unlisted' \in BOOLEAN,
             \/ /\ lists' = lists /\ torn' = torn /\ (ListedAlready(path) \/ unlisted')
             \/ /\ ~ListedAlready(path)
                /\ \E line \in {Spoilt, [track |-> finger.track]} :
                     /\ lists' = [lists EXCEPT ![path] = WithLine(path, line)]
                     /\ unlisted' \/ (path \notin torn /\ line.track = finger.track)
                /\ torn' \in {torn \ {path}, torn \cup {path}}
      PROVE  FingerInv'
  <2>1. /\ finger' = [pc |-> "listen", track |-> NoTrack, show |-> finger.show] /\ finger.show \in Name
        /\ finger.track = heard /\ finger.track \in Track
    BY <1>0, <1>4 DEF Listening, FingerInv
  <2>a. /\ finger' \in Finger /\ heard' \in Track \cup {NoTrack}
        /\ finger'.pc \in {"show", "append"} <=> finger'.track # NoTrack
        /\ finger'.pc # "listen" => finger'.track = heard'
    <3>1. finger' \in Finger /\ finger'.pc = "listen" /\ finger'.track = NoTrack
      BY <2>1
    <3>2. heard' \in Track \cup {NoTrack}
      BY <1>0, <1>4 DEF FingerInv
    <3> QED  BY <3>1, <3>2
  <2>2. CASE /\ lists' = lists /\ torn' = torn /\ (ListedAlready(path) \/ unlisted')
    <3>1. CurrentTrackIsListed'
      BY <1>0, <1>4, <2>1, <2>2 DEF CurrentTrackIsListed, ListedAlready
    <3>2. \A p \in Path : Silent(lists[p])'
      BY <1>0, <2>2 DEF FingerInv, Silent
    <3> QED  BY <1>0, <1>4, <2>a, <2>2, <3>1, <3>2 DEF FingerInv
  <2>3. ASSUME ~ListedAlready(path), NEW line \in {Spoilt, [track |-> finger.track]},
               lists' = [lists EXCEPT ![path] = WithLine(path, line)],
               unlisted' \/ (path \notin torn /\ line.track = finger.track),
               torn' \in {torn \ {path}, torn \cup {path}}
        PROVE  FingerInv'
    <3>1. PICK new : new = WithLine(path, line)
      OBVIOUS
    <3>2. new \in Seq(Line) /\ new # <<>> /\ Silent(new) /\ (path \notin torn => Last(new) = line)
      BY <1>0, <1>4, <2>3, <3>1, Written
    <3>3. lists' = [lists EXCEPT ![path] = new]
      BY <2>3, <3>1
    <3>4. /\ lists' \in [Path -> Seq(Line)] /\ lists'[path] = new
          /\ \A p \in Path : p # path => lists'[p] = lists[p]
      BY <1>0, <3>2, <3>3 DEF FingerInv
    <3>5. torn' \subseteq Path /\ \A p \in torn' : lists'[p] # <<>>
      BY <1>0, <2>3, <3>2, <3>4 DEF FingerInv
    <3>6. ASSUME NEW p \in Path  PROVE Silent(lists'[p])
      BY <1>0, <3>2, <3>4 DEF FingerInv
    <3>7. CurrentTrackIsListed'
      BY <1>4, <2>1, <2>3, <3>2, <3>4 DEF CurrentTrackIsListed
    <3>8. \A p \in Path : Silent(lists[p])'
      BY <3>6 DEF Silent
    <3> QED  BY <1>4, <2>a, <3>4, <3>5, <3>7, <3>8 DEF FingerInv
  <2> QED  BY <1>4, <2>2, <2>3
<1>5. ASSUME finger.pc = "append"  PROVE PathOf[finger.show] \in Path
  BY <1>0 DEF FingerInv, Path, Name, GuideAssumption
<1>6. CASE AppendTrack
  <2>1. PICK path \in Path : path = PathOf[finger.show]
    BY <1>5, <1>6 DEF AppendTrack
  <2>2. /\ finger.pc = "append" /\ heard' = heard /\ finger' = [Listening EXCEPT !.show = finger.show]
        /\ IF ListedAlready(path) THEN lists' = lists /\ torn' = torn /\ unlisted' = FALSE
           ELSE /\ lists' = [lists EXCEPT ![path] = WithLine(path, [track |-> finger.track])]
                /\ torn' = torn \ {path} /\ unlisted' = (path \in torn)
    BY <1>6, <2>1 DEF AppendTrack, nowPlaying, store
  <2>3. unlisted' \in BOOLEAN
    <3>1. CASE ListedAlready(path)
      BY <2>2, <3>1
    <3>2. CASE ~ListedAlready(path)
      <4>1. unlisted' = (path \in torn)
        BY <2>2, <3>2
      <4> QED  BY <4>1
    <3> QED  BY <3>1, <3>2
  <2>4. CASE ListedAlready(path)
    BY <1>4, <2>1, <2>2, <2>3, <2>4
  <2>5. CASE ~ListedAlready(path)
    <3>1. PICK line \in {Spoilt, [track |-> finger.track]} : line = [track |-> finger.track]
      OBVIOUS
    <3>2. /\ lists' = [lists EXCEPT ![path] = WithLine(path, line)]
          /\ unlisted' \/ (path \notin torn /\ line.track = finger.track)
          /\ torn' \in {torn \ {path}, torn \cup {path}}
      BY <2>2, <2>5, <3>1
    <3> QED  BY <1>4, <2>1, <2>2, <2>3, <2>5, <3>2
  <2> QED  BY <2>4, <2>5
<1>7. CASE AppendFails
  <2>1. PICK path \in Path : path = PathOf[finger.show]
    BY <1>5, <1>7 DEF AppendFails
  <2>2. /\ finger.pc = "append" /\ heard' = heard /\ finger' = [Listening EXCEPT !.show = finger.show]
        /\ ~ListedAlready(path) /\ unlisted' = TRUE
        /\ \/ lists' = lists /\ torn' = torn
           \/ /\ \E line \in {Spoilt, [track |-> finger.track]} :
                   lists' = [lists EXCEPT ![path] = WithLine(path, line)]
              /\ torn' = torn \cup {path}
    BY <1>7, <2>1 DEF AppendFails, nowPlaying, store
  <2>3. CASE lists' = lists /\ torn' = torn
    BY <1>4, <2>1, <2>2, <2>3
  <2>4. ASSUME NEW line \in {Spoilt, [track |-> finger.track]},
               lists' = [lists EXCEPT ![path] = WithLine(path, line)], torn' = torn \cup {path}
        PROVE  FingerInv'
    BY <1>4, <2>1, <2>2, <2>4
  <2> QED  BY <2>2, <2>3, <2>4
<1>8. CASE Restart
  <2>1. /\ heard' = NoTrack /\ finger' = [pc |-> "listen", track |-> NoTrack, show |-> NoShow]
        /\ unlisted' = FALSE /\ lists' = lists /\ torn' = torn
    BY <1>8 DEF Restart, Listening, store
  <2> QED  BY <1>0, <2>1 DEF FingerInv, CurrentTrackIsListed, Name
<1>9. \/ UNCHANGED <<heard, finger, lists, torn, unlisted>>
      \/ \E track \in Track : Match(track) /\ Changed(track)
      \/ AskShow \/ AppendTrack \/ AppendFails \/ Restart
  BY DEF vars, nowPlaying, store, ha, request, Next, Tick, Match, WakeUp, FindNothing, FindShow, SensorFinds, RunSensor,
         SensorFindsNothing, SensorEnds, AskLists, TellLists, ReadList
<1> QED  BY <1>1, <1>2, <1>3, <1>6, <1>7, <1>8, <1>9

(* The discovery thread and the clock.                                     *)
LEMMA ClockKept ==
  ASSUME IInv, [Next]_vars
  PROVE  ClockInv'
<1>0. /\ ClockInv /\ now \in Nat /\ LastTime \in Nat /\ Poll \in Nat /\ Lookup \in Nat /\ finder.at \in Nat
      /\ onShow.end \in Nat /\ NoShow \notin Show /\ End \in [Show -> Nat]
      /\ now \in 0..LastTime /\ onShow \in [name : Name, end : Nat] /\ excused \in BOOLEAN
  BY GuideAssumption DEF IInv, ClockInv, GuideAssumption
<1>1. CASE UNCHANGED <<now, onShow, finder, excused>>
  BY <1>0, <1>1 DEF ClockInv
<1>2. CASE Tick
  <2>1. /\ now < LastTime /\ now < finder.at + (IF finder.pc = "lookup" THEN Lookup ELSE 0) /\ now' = now + 1
        /\ UNCHANGED <<onShow, finder, excused>>
    BY <1>2 DEF Tick, nowPlaying
  <2> QED  BY <1>0, <2>1 DEF ClockInv
<1>3. CASE WakeUp
  <2>1. finder.pc = "nap" /\ now >= finder.at /\ UNCHANGED <<now, onShow, excused>>
    BY <1>3 DEF WakeUp, nowPlaying
  <2>2. CASE StillOn
    <3>1. finder' = [pc |-> "nap", at |-> now + Poll] /\ now <= onShow.end
      BY <1>3, <2>2 DEF WakeUp, Nap, StillOn
    <3> QED  BY <1>0, <2>1, <3>1 DEF ClockInv
  <2>3. CASE ~StillOn
    <3>1. finder' = [pc |-> "lookup", at |-> now] /\ now <= finder.at
      BY <1>0, <1>3, <2>1, <2>3 DEF WakeUp, ClockInv
    <3> QED  BY <1>0, <2>1, <3>1 DEF ClockInv
  <2> QED  BY <2>2, <2>3
<1>4. ASSUME NEW s \in Show, FindShow(s)  PROVE ClockInv'
  <2>1. /\ finder.pc = "lookup" /\ s \in OnAir(finder.at) /\ onShow' = [name |-> s, end |-> End[s]]
        /\ excused' = FALSE /\ finder' = [pc |-> "nap", at |-> now + Poll] /\ now' = now
    BY <1>4 DEF FindShow, Nap
  <2>2. finder.at <= End[s] /\ End[s] \in Nat /\ now <= finder.at + Lookup
    BY <1>0, <2>1 DEF OnAir, ClockInv
  <2>3. now + Poll <= End[s] + Poll + Lookup
    BY <1>0, <2>2
  <2>4. /\ onShow'.end = End[s] /\ onShow' \in [name : Name, end : Nat] /\ finder'.pc = "nap" /\ finder'.at = now + Poll
        /\ finder' \in [pc : {"nap", "lookup"}, at : Nat]
    BY <1>0, <2>1, <2>2 DEF Name
  <2>5. now' \in 0..LastTime /\ excused' \in BOOLEAN
    BY <1>0, <2>1
  <2>6. now' <= finder'.at + (IF finder'.pc = "lookup" THEN Lookup ELSE 0)
    BY <1>0, <2>1, <2>4
  <2>7. finder'.at <= onShow'.end + Poll + Lookup
    BY <2>3, <2>4
  <2> QED  BY <2>4, <2>5, <2>6, <2>7 DEF ClockInv
<1>5. CASE FindNothing
  <2>1. excused' = TRUE /\ finder' = [pc |-> "nap", at |-> now + Poll] /\ UNCHANGED <<now, onShow>>
    BY <1>5 DEF FindNothing, Nap, nowPlaying
  <2>2. finder'.pc = "nap" /\ finder'.at = now + Poll /\ finder' \in [pc : {"nap", "lookup"}, at : Nat]
    BY <1>0, <2>1
  <2>3. now' <= finder'.at /\ now' \in 0..LastTime /\ onShow' \in [name : Name, end : Nat]
    BY <1>0, <2>1, <2>2
  <2>4. now' <= finder'.at + (IF finder'.pc = "lookup" THEN Lookup ELSE 0)
    BY <1>0, <2>2, <2>3
  <2>5. excused' \in BOOLEAN
    BY <2>1
  <2>6. onShow'.name # NoShow /\ ~excused' => finder'.at <= onShow'.end + Poll + Lookup
    BY <2>1
  <2> QED  BY <2>2, <2>3, <2>4, <2>5, <2>6 DEF ClockInv
<1>6. CASE Restart
  <2>1. /\ onShow' = [name |-> NoShow, end |-> 0] /\ finder' = [pc |-> "nap", at |-> now] /\ excused' = FALSE
        /\ now' = now
    BY <1>6 DEF Restart, NoOne
  <2>2. /\ onShow'.name = NoShow /\ onShow' \in [name : Name, end : Nat] /\ finder'.pc = "nap" /\ finder'.at = now
        /\ finder' \in [pc : {"nap", "lookup"}, at : Nat]
    BY <1>0, <2>1 DEF Name
  <2>3. now' <= finder'.at /\ now' \in 0..LastTime
    BY <1>0, <2>1, <2>2
  <2>4. now' <= finder'.at + (IF finder'.pc = "lookup" THEN Lookup ELSE 0)
    BY <1>0, <2>2, <2>3
  <2>5. onShow'.name = NoShow /\ excused' \in BOOLEAN
    BY <2>1, <2>2
  <2> QED  BY <2>2, <2>3, <2>4, <2>5 DEF ClockInv
<1>7. \/ UNCHANGED <<now, onShow, finder, excused>>
      \/ Tick \/ WakeUp \/ FindNothing \/ Restart \/ \E s \in Show : FindShow(s)
  BY DEF vars, nowPlaying, store, ha, request, Next, Match, AskShow, AppendTrack, AppendFails, SensorFinds, RunSensor,
         SensorFindsNothing, SensorEnds, AskLists, TellLists, ReadList
<1> QED  BY <1>1, <1>2, <1>3, <1>4, <1>5, <1>6, <1>7

(* The sensor and its cache.                                               *)
LEMMA SensorKept ==
  ASSUME IInv, [Next]_vars
  PROVE  SensorInv'
<1>0. /\ SensorInv /\ now \in Nat /\ NoShow \notin Show /\ sensor.at \in Nat
      /\ Start \in [Show -> Nat] /\ End \in [Show -> Nat]
  BY GuideAssumption DEF IInv, ClockInv, SensorInv, GuideAssumption
<1> DEFINE Runs == [pc : {"off", "lookup", "told"}, at : Nat, show : Name]
           Cached == /\ cache \in [name : Name, end : Nat]
                     /\ cache.name # NoShow => cache.end = End[cache.name] /\ Start[cache.name] <= now
           Telling == sensor.pc = "told" /\ sensor.show # NoShow =>
                        Start[sensor.show] <= sensor.at /\ sensor.at <= End[sensor.show]
           Asked == sensor \in Runs /\ sensor.at <= now /\ (sensor.pc = "lookup" => sensor.show = NoShow)
<1>1. ASSUME Cached', Asked', Telling'  PROVE SensorInv'
  BY <1>1 DEF SensorInv, SensorTellsTheShow
<1>2. Cached /\ Asked /\ Telling
  BY <1>0 DEF SensorInv, SensorTellsTheShow
<1>3. CASE UNCHANGED <<cache, sensor>> /\ now' \in {now, now + 1}
  <2>1. ASSUME cache.name # NoShow  PROVE Start[cache.name] <= now'
    <3>1. Start[cache.name] <= now /\ Start[cache.name] \in Nat
      BY <1>0, <1>2, <2>1 DEF Name
    <3> QED  BY <1>0, <1>3, <3>1
  <2>2. sensor.at <= now'
    BY <1>0, <1>2, <1>3
  <2> QED  BY <1>1, <1>2, <1>3, <2>1, <2>2
<1>4. CASE RunSensor
  <2>1. cache' = cache /\ now' = now
    BY <1>4 DEF RunSensor
  <2>2. CASE CacheValid
    <3>1. sensor' = [pc |-> "told", at |-> now, show |-> cache.name]
      BY <1>4, <2>2 DEF RunSensor
    <3>2. cache.name \in Name /\ (cache.name # NoShow => Start[cache.name] <= now /\ now <= End[cache.name])
      BY <1>2, <2>2 DEF CacheValid
    <3> QED  BY <1>0, <1>1, <1>2, <2>1, <3>1, <3>2
  <2>3. CASE ~CacheValid
    <3>1. sensor' = [pc |-> "lookup", at |-> now, show |-> NoShow]
      BY <1>4, <2>3 DEF RunSensor
    <3> QED  BY <1>0, <1>1, <1>2, <2>1, <3>1 DEF Name
  <2> QED  BY <2>2, <2>3
<1>5. ASSUME NEW s \in Show, SensorFinds(s)  PROVE SensorInv'
  <2>1. /\ s \in OnAir(sensor.at) /\ now' = now
        /\ cache' \in {[name |-> s, end |-> End[s]], [name |-> NoShow, end |-> 0], cache}
        /\ sensor' = [sensor EXCEPT !.pc = "told", !.show = s]
    BY <1>5 DEF SensorFinds, Saved, NoOne
  <2>2. Start[s] <= sensor.at /\ sensor.at <= End[s] /\ Start[s] <= now
    BY <1>0, <1>2, <2>1 DEF OnAir
  <2>3. sensor' \in Runs /\ sensor'.pc = "told" /\ sensor'.show = s /\ sensor'.at = sensor.at
    BY <1>2, <2>1 DEF Name
  <2>4. Cached'
    BY <1>0, <1>2, <2>1, <2>2 DEF Name
  <2>5. Asked' /\ Telling'
    BY <1>2, <2>1, <2>2, <2>3
  <2> QED  BY <1>1, <2>4, <2>5
<1>6. CASE SensorFindsNothing \/ SensorEnds
  <2>1. /\ sensor' \in {[sensor EXCEPT !.pc = "told"], NoRun} /\ cache' = cache /\ now' = now
        /\ sensor.pc = "lookup" \/ sensor' = NoRun
    BY <1>6 DEF SensorFindsNothing, SensorEnds
  <2>2. CASE sensor' = NoRun
    BY <1>0, <1>1, <1>2, <2>1, <2>2 DEF NoRun, Name
  <2>3. CASE sensor' # NoRun
    <3>1. sensor' = [sensor EXCEPT !.pc = "told"] /\ sensor.show = NoShow
      BY <1>2, <2>1, <2>3
    <3>2. sensor' \in Runs /\ sensor'.pc = "told" /\ sensor'.show = NoShow /\ sensor'.at = sensor.at
      BY <1>2, <3>1
    <3> QED  BY <1>1, <1>2, <2>1, <3>2
  <2> QED  BY <2>2, <2>3
<1>7. \/ UNCHANGED <<cache, sensor>> /\ now' \in {now, now + 1}
      \/ RunSensor \/ (\E s \in Show : SensorFinds(s)) \/ SensorFindsNothing \/ SensorEnds
  BY DEF vars, nowPlaying, store, ha, request, Next, Tick, Match, AskShow, AppendTrack, AppendFails, WakeUp, FindNothing,
         FindShow, Restart, AskLists, TellLists, ReadList
<1> QED  BY <1>3, <1>4, <1>5, <1>6, <1>7

(* A request reads files that there are.                                   *)
LEMMA ReaderKept ==
  ASSUME IInv, [Next]_vars
  PROVE  ReaderInv'
<1>0. ReaderInv
  BY DEF IInv
<1>1. CASE reader' = reader
  BY <1>0, <1>1 DEF ReaderInv
<1>2. CASE reader' = NoRequest
  BY <1>2 DEF ReaderInv, NoRequest
<1>3. CASE AskLists
  <2>1. reader' = [NoRequest EXCEPT !.pc = "read", !.toRead = Files]
    BY <1>3 DEF AskLists
  <2> QED  BY <2>1 DEF ReaderInv, NoRequest, Files
<1>4. ASSUME NEW p \in Path, ReadList(p)  PROVE ReaderInv'
  <2>1. PICK lines : reader' = [reader EXCEPT !.toRead = @ \ {p}, !.got[p] = lines]
    BY <1>4 DEF ReadList
  <2> QED  BY <1>0, <2>1 DEF ReaderInv
<1>5. reader' = reader \/ reader' = NoRequest \/ AskLists \/ \E p \in Path : ReadList(p)
  BY DEF vars, nowPlaying, store, ha, request, Next, Tick, Match, AskShow, AppendTrack, AppendFails, WakeUp, FindNothing,
         FindShow, Restart, TellLists, SensorFinds, RunSensor, SensorFindsNothing, SensorEnds
<1> QED  BY <1>1, <1>2, <1>3, <1>4, <1>5
-----------------------------------------------------------------------------
(* A request.  Of a list that has grown, only what was the last line may   *)
(* have been spoilt.                                                       *)
Grown(old, new) ==
  /\ Len(old) <= Len(new)
  /\ \A i \in 1..Len(old) : new[i] = old[i] \/ (i = Len(old) /\ new[i] = Spoilt)

(* A list that was read was at some point between the request and now what *)
(* the answer says it was.                                                 *)
ReadMeanwhile(p) ==
  \E list \in Seq(Line) :
    Grown(asked[p], list) /\ Grown(list, lists[p]) /\ reader.got[p] = Readable(list)

PastInv ==
  /\ IInv
  /\ asked \in [Path -> Seq(Line)]
  /\ \A p \in Path : Grown(asked[p], lists[p])
  /\ \A p \in Path : reader.got[p] \in Seq([track : Track])
  /\ reader.pc = "read" => \A p \in Path \ reader.toRead : ReadMeanwhile(p)

(* What can be read of a list are tracks. *)
LEMMA ReadableTracks ==
  ASSUME NEW list \in Seq(Line)
  PROVE  Readable(list) \in Seq([track : Track])
<1> DEFINE Good == {i \in DOMAIN list : list[i] # Spoilt}
<1>1. Len(list) \in Nat /\ DOMAIN list = 1..Len(list)
  OBVIOUS
<1>2. Good \in SUBSET (1..Len(list))
  BY <1>1
<1>3. \A i \in Good : list[i] \in [track : Track]
  <2>1. \A i \in Good : list[i] \in Line /\ list[i] # Spoilt
    OBVIOUS
  <2>2. \A line \in Line : line # Spoilt => line \in [track : Track]
    BY DEF Line, Spoilt
  <2> QED  BY <2>1, <2>2
<1> HIDE DEF Good
<1>4. Sublist(list, Good) \in Seq([track : Track])
  BY <1>1, <1>2, <1>3, SublistHas
<1> QED  BY <1>4 DEF Readable, Good

(* A line that could be read at the request and still can be is, in what   *)
(* was read meanwhile, behind as many lines as it was.                     *)
LEMMA ReadAtItsPlace ==
  ASSUME NEW a \in Seq(Line), NEW b \in Seq(Line), NEW c \in Seq(Line), Grown(a, b), Grown(b, c),
         NEW i \in DOMAIN a, a[i] # Spoilt, c[i] # Spoilt
  PROVE  LET kept == {j \in DOMAIN a : a[j] # Spoilt /\ c[j] # Spoilt}
             place == Cardinality({j \in kept : j <= i})
         IN  place <= Len(Readable(b)) /\ Readable(b)[place] = a[i]
<1> DEFINE kept == {j \in DOMAIN a : a[j] # Spoilt /\ c[j] # Spoilt}
           good == {j \in DOMAIN b : b[j] # Spoilt}
<1>1. PICK m \in Nat, n \in Nat : /\ m = Len(a) /\ DOMAIN a = 1..m /\ n = Len(b) /\ DOMAIN b = 1..n
                                 /\ m <= n /\ i \in 1..m
  BY DEF Grown
<1>2. ASSUME NEW j \in 1..m, j <= i  PROVE j \in kept <=> j \in good
  <2>1. j \in 1..n /\ (j = n => j = m) /\ (j = m => j = i)
    BY <1>1, <1>2
  <2>2. /\ b[j] = a[j] \/ (j = m /\ b[j] = Spoilt)
        /\ c[j] = b[j] \/ (j = n /\ c[j] = Spoilt)
    BY <1>1, <2>1 DEF Grown
  <2> QED  BY <1>1, <2>1, <2>2
<1>3. {j \in kept : j <= i} = {j \in good : j <= i}
  <2>1. \A j \in kept : j \in 1..m
    BY <1>1
  <2>2. \A j \in good : j <= i => j \in 1..m
    BY <1>1
  <2> QED  BY <1>2, <2>1, <2>2
<1>4. i \in good /\ b[i] = a[i]
  <2>1. i \in kept /\ i <= i
    BY <1>1
  <2>2. i \in good
    BY <1>1, <1>2, <2>1
  <2> QED  BY <1>1, <2>2 DEF Grown
<1>5. good \in SUBSET (1..n) /\ Readable(b) = Sublist(b, good)
  BY <1>1 DEF Readable
<1>6. Cardinality({j \in kept : j <= i}) = Rank(good, i)
  BY <1>3 DEF Rank
<1> HIDE DEF good
<1>7. Cardinality(good) \in Nat
  BY <1>5, PlacesFinite
<1>8. Len(Sublist(b, good)) = Cardinality(good)
  BY <1>5, SublistHas
<1>9. Rank(good, i) \in 1..Cardinality(good) /\ Sublist(b, good)[Rank(good, i)] = b[i]
  BY <1>4, <1>5, SublistHas
<1> QED  BY <1>4, <1>5, <1>6, <1>7, <1>8, <1>9

(* Growing twice is growing. *)
LEMMA GrownTwice ==
  ASSUME NEW a \in Seq(Line), NEW b \in Seq(Line), NEW c \in Seq(Line), Grown(a, b), Grown(b, c)
  PROVE  Grown(a, c)
<1>1. Len(a) \in Nat /\ Len(b) \in Nat /\ Len(c) \in Nat /\ Len(a) <= Len(b) /\ Len(b) <= Len(c)
  BY DEF Grown
<1>2. ASSUME NEW i \in 1..Len(a)  PROVE c[i] = a[i] \/ (i = Len(a) /\ c[i] = Spoilt)
  <2>1. i \in 1..Len(b)
    BY <1>1
  <2>2. /\ b[i] = a[i] \/ (i = Len(a) /\ b[i] = Spoilt)
        /\ c[i] = b[i] \/ (i = Len(b) /\ c[i] = Spoilt)
    BY <2>1 DEF Grown
  <2>3. i = Len(b) => i = Len(a)
    BY <1>1
  <2> QED  BY <2>2, <2>3
<1> QED  BY <1>1, <1>2 DEF Grown

(* A write makes a list longer, or spoils a last line that had no end. *)
LEMMA WriteGrows ==
  ASSUME GuideAssumption, FingerInv, NEW path \in Path, NEW line
  PROVE  Grown(lists[path], WithLine(path, line))
<1>1. lists[path] \in Seq(Line) /\ Len(lists[path]) \in Nat
  BY DEF FingerInv
<1>2. CASE path \in torn
  <2>1. lists[path] # <<>> /\ Len(lists[path]) \in Nat \ {0}
    BY <1>1, <1>2 DEF FingerInv
  <2>2. PICK front : /\ front = Front(lists[path]) /\ front \in Seq(Line)
                     /\ Len(front) = Len(lists[path]) - 1
                     /\ \A i \in 1..(Len(lists[path]) - 1) : front[i] = lists[path][i]
    BY <1>1, <2>1, FrontLines
  <2>3. PICK new : new = Append(front, Spoilt) /\ WithLine(path, line) = new
    BY <1>2, <2>2 DEF WithLine
  <2>4. /\ Len(new) = Len(lists[path]) /\ new[Len(lists[path])] = Spoilt
        /\ \A i \in 1..(Len(lists[path]) - 1) : new[i] = lists[path][i]
    <3>1. Len(new) = Len(front) + 1 /\ new[Len(front) + 1] = Spoilt
          /\ \A i \in 1..Len(front) : new[i] = front[i]
      BY <2>2, <2>3, AppendProperties
    <3> QED  BY <2>1, <2>2, <3>1
  <2>5. ASSUME NEW i \in 1..Len(lists[path])
        PROVE  new[i] = lists[path][i] \/ (i = Len(lists[path]) /\ new[i] = Spoilt)
    <3>1. i = Len(lists[path]) \/ i \in 1..(Len(lists[path]) - 1)
      BY <1>1
    <3> QED  BY <2>4, <3>1
  <2> QED  BY <1>1, <2>3, <2>4, <2>5 DEF Grown
<1>3. CASE path \notin torn
  <2>1. PICK new : new = Append(lists[path], line) /\ WithLine(path, line) = new
    BY <1>3 DEF WithLine
  <2>2. Len(new) = Len(lists[path]) + 1 /\ \A i \in 1..Len(lists[path]) : new[i] = lists[path][i]
    BY <1>1, <2>1
  <2> QED  BY <1>1, <2>1, <2>2 DEF Grown
<1> QED  BY <1>2, <1>3

(* No step takes a line away. *)
LEMMA ListsGrow ==
  ASSUME IInv, [Next]_vars, NEW p \in Path
  PROVE  Grown(lists[p], lists'[p])
<1>0. FingerInv /\ GuideAssumption /\ lists \in [Path -> Seq(Line)]
  BY GuideAssumption DEF IInv, FingerInv
<1>1. CASE lists' = lists
  BY <1>0, <1>1 DEF Grown
<1>2. ASSUME NEW line, finger.pc = "append", lists' = [lists EXCEPT ![PathOf[finger.show]] = WithLine(PathOf[finger.show], line)]
      PROVE  Grown(lists[p], lists'[p])
  <2>1. PICK path \in Path : path = PathOf[finger.show]
    BY <1>0 DEF FingerInv, Path, Name, GuideAssumption
  <2>2. CASE p = path
    BY <1>0, <1>2, <2>1, <2>2, WriteGrows
  <2>3. CASE p # path
    <3>1. lists'[p] = lists[p]
      BY <1>0, <1>2, <2>1, <2>3
    <3> QED  BY <1>0, <3>1 DEF Grown
  <2> QED  BY <2>2, <2>3
<1>3. \/ lists' = lists
      \/ /\ finger.pc = "append"
         /\ \E line : lists' = [lists EXCEPT ![PathOf[finger.show]] = WithLine(PathOf[finger.show], line)]
  <2>1. CASE AppendTrack
    BY <2>1 DEF AppendTrack, store
  <2>2. CASE AppendFails
    BY <2>2 DEF AppendFails, store
  <2>3. \/ lists' = lists \/ AppendTrack \/ AppendFails
    BY DEF vars, nowPlaying, store, ha, request, Next, Tick, Match, AskShow, WakeUp, FindNothing, FindShow, Restart,
           SensorFinds, RunSensor, SensorFindsNothing, SensorEnds, AskLists, TellLists, ReadList
  <2> QED  BY <2>1, <2>2, <2>3
<1> QED  BY <1>1, <1>2, <1>3

(* The request reads what was there meanwhile. *)
LEMMA PastKept ==
  ASSUME PastInv, [Next]_vars
  PROVE  PastInv'
<1>1. IInv'
  BY FingerKept, ClockKept, SensorKept, ReaderKept DEF IInv, PastInv
<1>2. /\ lists \in [Path -> Seq(Line)] /\ lists' \in [Path -> Seq(Line)]
      /\ \A p \in Path : Grown(lists[p], lists'[p])
  BY <1>1, ListsGrow DEF PastInv, IInv, FingerInv
<1>3. Grown(<<>>, <<>>) /\ \A list \in Seq(Line) : Grown(<<>>, list) /\ Grown(list, list)
  BY DEF Grown
<1>4. <<>> \in Seq(Line) /\ <<>> \in Seq([track : Track]) /\ Readable(<<>>) = <<>>
  <2>1. Readable(<<>>) \in Seq([track : Track]) /\ Len(Readable(<<>>)) = 0
    <3>1. {} \in SUBSET (1..0) /\ {i \in DOMAIN <<>> : <<>>[i] # Spoilt} = {} /\ <<>> \in Seq(Line)
      OBVIOUS
    <3>2. Len(Sublist(<<>>, {})) = Cardinality({}) /\ Cardinality({}) = 0
      BY <3>1, SublistHas, FS_EmptySet
    <3>3. Readable(<<>>) = Sublist(<<>>, {})
      BY <3>1 DEF Readable
    <3>4. Readable(<<>>) \in Seq([track : Track])
      BY <3>1, ReadableTracks
    <3> QED  BY <3>2, <3>3, <3>4
  <2> QED  BY <2>1
<1>5. CASE UNCHANGED request
  <2>1. reader' = reader /\ asked' = asked
    BY <1>5 DEF request
  <2>2. \A p \in Path : Grown(asked[p], lists'[p])
    BY <1>2, GrownTwice DEF PastInv
  <2>3. ASSUME NEW p \in Path, ReadMeanwhile(p)  PROVE ReadMeanwhile(p)'
    <3>1. PICK list \in Seq(Line) :
            Grown(asked[p], list) /\ Grown(list, lists[p]) /\ reader.got[p] = Readable(list)
      BY <2>3 DEF ReadMeanwhile
    <3>2. Grown(list, lists'[p])
      BY <1>2, <3>1, GrownTwice
    <3> QED  BY <2>1, <3>1, <3>2 DEF ReadMeanwhile
  <2> QED  BY <1>1, <2>1, <2>2, <2>3 DEF PastInv
<1>6. CASE reader' = NoRequest /\ asked' = [p \in Path |-> <<>>]
  <2>1. reader'.pc = "idle" /\ \A p \in Path : reader'.got[p] = <<>> /\ asked'[p] = <<>>
    BY <1>6 DEF NoRequest
  <2> QED  BY <1>1, <1>2, <1>3, <1>4, <1>6, <2>1 DEF PastInv
<1>7. CASE AskLists
  <2>1. reader' = [NoRequest EXCEPT !.pc = "read", !.toRead = Files] /\ asked' = lists /\ lists' = lists
    BY <1>7 DEF AskLists, store
  <2>2. reader'.toRead = Files /\ \A p \in Path : reader'.got[p] = <<>>
    BY <2>1 DEF NoRequest
  <2>3. ASSUME NEW p \in Path \ Files  PROVE ReadMeanwhile(p)'
    <3>1. asked'[p] = <<>> /\ lists'[p] = <<>> /\ reader'.got[p] = <<>>
      BY <2>1, <2>2, <2>3 DEF Files
    <3> QED  BY <1>3, <1>4, <3>1 DEF ReadMeanwhile
  <2> QED  BY <1>1, <1>2, <1>3, <1>4, <2>1, <2>2, <2>3 DEF PastInv
<1>8. ASSUME NEW p \in Path, ReadList(p)  PROVE PastInv'
  <2>1. /\ reader.pc = "read" /\ asked' = asked /\ lists' = lists
        /\ reader' = [reader EXCEPT !.toRead = @ \ {p}, !.got[p] = Readable(lists[p])]
    BY <1>8 DEF ReadList, store
  <2>2. /\ reader'.pc = "read" /\ reader'.toRead = reader.toRead \ {p} /\ reader'.got[p] = Readable(lists[p])
        /\ \A q \in Path \ {p} : reader'.got[q] = reader.got[q]
    BY <2>1 DEF PastInv, IInv, ReaderInv
  <2>3. ASSUME NEW q \in Path \ reader'.toRead  PROVE ReadMeanwhile(q)'
    <3>1. CASE q = p
      BY <1>2, <1>3, <2>1, <2>2, <3>1 DEF ReadMeanwhile, PastInv
    <3>2. CASE q # p
      <4>1. ReadMeanwhile(q) /\ reader'.got[q] = reader.got[q]
        BY <2>1, <2>2, <2>3, <3>2 DEF PastInv
      <4> QED  BY <2>1, <4>1 DEF ReadMeanwhile
    <3> QED  BY <3>1, <3>2
  <2>4. \A q \in Path : reader'.got[q] \in Seq([track : Track])
    BY <1>2, <2>2, ReadableTracks DEF PastInv
  <2> QED  BY <1>1, <2>1, <2>3, <2>4 DEF PastInv
<1>9. \/ UNCHANGED request \/ (reader' = NoRequest /\ asked' = [p \in Path |-> <<>>])
      \/ AskLists \/ \E p \in Path : ReadList(p)
  BY DEF vars, nowPlaying, store, ha, request, Next, Tick, Match, AskShow, AppendTrack, AppendFails, WakeUp, FindNothing,
         FindShow, Restart, TellLists, SensorFinds, RunSensor, SensorFindsNothing, SensorEnds
<1> QED  BY <1>5, <1>6, <1>7, <1>8, <1>9
-----------------------------------------------------------------------------

(* The first state satisfies it. *)
LEMMA InitIInv == Init => IInv
<1> SUFFICES ASSUME Init  PROVE IInv
  OBVIOUS
<1>1. FingerInv
  <2>1. /\ finger = [pc |-> "listen", track |-> NoTrack, show |-> NoShow] /\ heard = NoTrack
        /\ lists = [p \in Path |-> <<>>] /\ torn = {} /\ unlisted = FALSE
    BY DEF Init, Listening
  <2>2. \A p \in Path : Silent(lists[p])
    BY <2>1 DEF Silent
  <2>3. lists \in [Path -> Seq(Line)]
    BY <2>1
  <2>4. CurrentTrackIsListed
    BY <2>1 DEF CurrentTrackIsListed
  <2>5. /\ heard \in Track \cup {NoTrack} /\ unlisted \in BOOLEAN
        /\ torn \subseteq Path /\ \A p \in torn : lists[p] # <<>>
        /\ finger \in [pc : {"listen", "show", "append"}, track : Track \cup {NoTrack}, show : Name]
        /\ finger.pc = "listen" /\ finger.track = NoTrack
    BY <2>1 DEF Name
  <2> QED  BY <2>2, <2>3, <2>4, <2>5 DEF FingerInv
<1>2. ClockInv
  <2>1. now = 0 /\ onShow = [name |-> NoShow, end |-> 0] /\ finder = [pc |-> "nap", at |-> 0] /\ excused = FALSE
    BY DEF Init, NoOne
  <2>2. now \in 0..LastTime /\ excused \in BOOLEAN
    <3>1. LastTime \in Nat
      BY GuideAssumption DEF GuideAssumption
    <3>2. now \in 0..LastTime
      BY <2>1, <3>1
    <3>3. excused \in BOOLEAN
      BY <2>1
    <3> QED  BY <3>2, <3>3
  <2>3. onShow \in [name : Name, end : Nat] /\ onShow.name = NoShow
    BY <2>1 DEF Name
  <2>4. finder \in [pc : {"nap", "lookup"}, at : Nat] /\ finder.pc = "nap" /\ now <= finder.at + 0
    BY <2>1
  <2> QED  BY <2>2, <2>3, <2>4 DEF ClockInv
<1>3. SensorInv
  BY DEF Init, SensorInv, SensorTellsTheShow, NoOne, NoRun, Name
<1>4. ReaderInv
  BY DEF Init, ReaderInv, NoRequest
<1> QED  BY <1>1, <1>2, <1>3, <1>4 DEF IInv

(* The invariant holds.                                                    *)
LEMMA Inductive == Spec => []IInv
<1>1. Init => IInv
  BY InitIInv
<1>2. IInv /\ [Next]_vars => IInv'
  BY FingerKept, ClockKept, SensorKept, ReaderKept DEF IInv
<1> QED  BY <1>1, <1>2, PTL DEF Spec

(* Every track the server hears is listed once, under whatever show, over  *)
(* restarts, shared files and failed writes (TracklistStore.append,        *)
(* fingerprint_loop).                                                      *)
THEOREM ListsStaySound == Spec => []ListsSound
<1>1. IInv => ListsSound
  <2> SUFFICES ASSUME IInv  PROVE ListsSound
    OBVIOUS
  <2>1. TypeOK
    BY DEF IInv, FingerInv, ClockInv, SensorInv, ReaderInv, TypeOK, Line, Name
  <2>2. NoRepeat /\ CurrentTrackIsListed
    BY DEF IInv, FingerInv, NoRepeat, Silent
  <2> QED  BY <2>1, <2>2 DEF ListsSound
<1> QED  BY <1>1, Inductive, PTL

(* The show that is told is on the air, or over for no longer than a nap   *)
(* and two lookups; the sensor's was on the air when it was asked          *)
(* (show_discovery_loop, load_cache).                                      *)
THEOREM ShowStaysRight == Spec => []ShowIsRight
<1>1. IInv => ShowIsRight
  <2> SUFFICES ASSUME IInv  PROVE ShowIsRight
    OBVIOUS
  <2>1. /\ now \in Nat /\ finder.at \in Nat /\ onShow.end \in Nat /\ Poll \in Nat /\ Lookup \in Nat
        /\ now <= finder.at + Lookup
    BY GuideAssumption DEF IInv, ClockInv, GuideAssumption
  <2>2. ShowIsFresh
    BY <2>1 DEF IInv, ClockInv, ShowIsFresh
  <2> QED  BY <2>2 DEF IInv, SensorInv, ShowIsRight
<1> QED  BY <1>1, Inductive, PTL

(* The answer to a request has every track that was listed, and could be   *)
(* read, when the request came, at its place, though it was put together   *)
(* one list at a time while more were written (TracklistStore.get).        *)
THEOREM AnswerStaysRight == Spec => []AnswerHasThePast
<1>1. Init => PastInv
  <2> SUFFICES ASSUME Init  PROVE PastInv
    OBVIOUS
  <2>1. IInv
    BY InitIInv
  <2>2. /\ reader.pc = "idle" /\ asked = [p \in Path |-> <<>>] /\ lists = [p \in Path |-> <<>>]
        /\ \A p \in Path : reader.got[p] = <<>>
    BY DEF Init, NoRequest
  <2>3. Grown(<<>>, <<>>) /\ <<>> \in Seq(Line) /\ <<>> \in Seq([track : Track])
    BY DEF Grown
  <2>4. asked \in [Path -> Seq(Line)] /\ \A p \in Path : asked[p] = <<>> /\ lists[p] = <<>>
    BY <2>2, <2>3
  <2> QED  BY <2>1, <2>2, <2>3, <2>4 DEF PastInv
<1>2. PastInv /\ [Next]_vars => PastInv'
  BY PastKept
<1>3. PastInv => AnswerHasThePast
  <2> SUFFICES ASSUME PastInv  PROVE AnswerHasThePast
    OBVIOUS
  <2>1. ASSUME reader.pc = "read", reader.toRead = {}, NEW p \in Path,
               NEW i \in DOMAIN asked[p], asked[p][i] # Spoilt, lists[p][i] # Spoilt
        PROVE  LET kept == {j \in DOMAIN asked[p] : asked[p][j] # Spoilt /\ lists[p][j] # Spoilt}
                   place == Cardinality({j \in kept : j <= i})
               IN  place <= Len(reader.got[p]) /\ reader.got[p][place] = asked[p][i]
    <3>1. PICK list \in Seq(Line) :
            Grown(asked[p], list) /\ Grown(list, lists[p]) /\ reader.got[p] = Readable(list)
      BY <2>1 DEF PastInv, ReadMeanwhile
    <3>2. asked[p] \in Seq(Line) /\ lists[p] \in Seq(Line)
      BY DEF PastInv, IInv, FingerInv
    <3> QED  BY <2>1, <3>1, <3>2, ReadAtItsPlace
  <2>2. \A p \in Path : reader.got[p] \in Seq([track : Track])
    BY DEF PastInv
  <2> QED  BY <2>1, <2>2 DEF AnswerHasThePast
<1> QED  BY <1>1, <1>2, <1>3, PTL DEF Spec
=============================================================================
