----------------------------- MODULE NowPlaying -----------------------------
(***************************************************************************)
(* What is on the radio now, told twice from one programme guide:          *)
(*   - modules/nixos/services/rtrfm-nowplaying/server.py, where one thread *)
(*     hears tracks and lists them under the show of the moment, while     *)
(*     another looks the show up and sleeps until it may have ended;       *)
(*   - ha/scripts/rtrfm_nowplaying.py, a sensor that caches the show.      *)
(* Each method of the server's stores is one step, as each holds its lock. *)
(*                                                                         *)
(* Answering a request for a day's lists is a step for each list, as the   *)
(* lock is taken for each.  Left out: the requests that read one thing;    *)
(* which lines are of the day; what a playlist holds.                      *)
(***************************************************************************)
EXTENDS Sublists, SequencesExt

CONSTANTS
  Show,      \* the shows of the guide
  Start, End, \* their times: first and last moment on air
  PathOf,    \* the file of a name's list, numbered in the order of their
             \* names: two names may share one
  Track,
  Poll,      \* SHOW_POLL_INTERVAL
  Lookup,    \* the longest a lookup takes
  LastTime,  \* bound
  Budgets,   \* bounds to choose from: how often each thing of todo happens
  NoShow,    \* "RTRFM 92.1", until a show is known
  NoTrack

ASSUME GuideAssumption ==
  /\ Start \in [Show -> Nat] /\ End \in [Show -> Nat]
  /\ \A s \in Show : Start[s] <= End[s]
  /\ NoShow \notin Show /\ NoTrack \notin Track
  /\ PathOf \in [Show \cup {NoShow} -> Nat]
  /\ Poll \in Nat \ {0} /\ Lookup \in Nat /\ LastTime \in Nat

VARIABLES
  now,
  heard,    \* NowPlaying: the track
  onShow,   \* NowPlaying: the show and its end
  lists,    \* file -> its lines: [track] or spoilt ones
  torn,     \* files whose last line has no end
  finger,   \* the fingerprint thread
  finder,   \* the discovery thread
  cache,    \* the sensor's cache file
  sensor,   \* the sensor's run
  reader,   \* a request for the lists: files to read, what they held
  todo,     \* matches, failures, restarts, sensor runs, requests to come (bound)
  excused,  \* (history) a lookup failed, or nothing was found, since the show was set
  unlisted, \* (history) the last track could not be written
  asked     \* (history) the lists when the request came

nowPlaying == <<heard, onShow>>
store == <<lists, torn>>
request == <<reader, asked>>
ha == <<cache, sensor>>
vars == <<now, nowPlaying, store, finger, finder, ha, request, todo, excused, unlisted>>

Path == {PathOf[s] : s \in Show \cup {NoShow}}
OnAir(t) == {s \in Show : Start[s] <= t /\ t <= End[s]}
Spoilt == [track |-> NoTrack]
NoOne == [name |-> NoShow, end |-> 0]
Listening == [pc |-> "listen", track |-> NoTrack, show |-> NoShow]
AllLines(lines) == lines
UntilSpoilt(lines) ==
  IF Contains(lines, Spoilt) THEN SubSeq(lines, 1, SelectInSeq(lines, LAMBDA line : line = Spoilt) - 1)
  ELSE lines
Readable(lines) == Sublist(lines, {i \in DOMAIN lines : lines[i] # Spoilt})
NoRun == [pc |-> "off", at |-> 0, show |-> NoShow]
NoRequest == [pc |-> "idle", toRead |-> {}, got |-> [p \in Path |-> <<>>]]
Spend(what) == /\ todo[what] > 0
               /\ todo' = [todo EXCEPT ![what] = @ - 1]
-----------------------------------------------------------------------------
(* The fingerprint thread.  A capture that fails or matches nothing, and a *)
(* match that is the track already, change nothing.                        *)

Changed(track) == track # heard

Match(track) ==
  /\ finger.pc = "listen"
  /\ Spend("matches")
  /\ IF Changed(track)
     THEN /\ heard' = track
          /\ finger' = [Listening EXCEPT !.pc = "show", !.track = track]
     ELSE UNCHANGED <<heard, finger>>
  /\ UNCHANGED <<now, onShow, store, finder, ha, request, excused, unlisted>>

AskShow ==
  /\ finger.pc = "show"
  /\ finger' = [finger EXCEPT !.pc = "append", !.show = onShow.name]
  /\ UNCHANGED <<now, nowPlaying, store, finder, ha, request, todo, excused, unlisted>>

(* append: not what the last line already says, if it can be read.  A new  *)
(* line runs into one that has no end, and neither can be read.            *)
NeverListed(path) == FALSE
ListedBefore(path) == \E i \in DOMAIN lists[path] : lists[path][i].track = finger.track
ListedAlready(path) == lists[path] # <<>> /\ Last(lists[path]).track = finger.track
WithLine(path, line) ==
  IF path \in torn THEN Append(Front(lists[path]), Spoilt) ELSE Append(lists[path], line)
AppendTrack ==
  /\ finger.pc = "append"
  /\ LET path == PathOf[finger.show] IN
       IF ListedAlready(path) THEN UNCHANGED store /\ unlisted' = FALSE
       ELSE /\ lists' = [lists EXCEPT ![path] = WithLine(path, [track |-> finger.track])]
            /\ torn' = torn \ {path}
            /\ unlisted' = (path \in torn)
  /\ finger' = [Listening EXCEPT !.show = finger.show]
  /\ UNCHANGED <<now, nowPlaying, finder, ha, request, todo, excused>>

(* The disk is full: nothing, a part of the line, or all but its end is    *)
(* written, and the loop goes on listening.                                *)
AppendFails ==
  /\ finger.pc = "append"
  /\ Spend("failures")
  /\ LET path == PathOf[finger.show] IN
       /\ ~ListedAlready(path)
       /\ \/ UNCHANGED store
          \/ /\ \E line \in {Spoilt, [track |-> finger.track]} :
                  lists' = [lists EXCEPT ![path] = WithLine(path, line)]
             /\ torn' = torn \cup {path}
  /\ unlisted' = TRUE
  /\ finger' = [Listening EXCEPT !.show = finger.show]
  /\ UNCHANGED <<now, nowPlaying, finder, ha, request, excused>>
-----------------------------------------------------------------------------
(* The discovery thread.  Its naps are over at a given time; a lookup is   *)
(* about the moment it began.                                              *)

Nap == [pc |-> "nap", at |-> now + Poll]
AnyEnd == onShow.name # NoShow
StillOn == onShow.name # NoShow /\ now <= onShow.end
WakeUp ==
  /\ finder.pc = "nap"
  /\ now >= finder.at
  /\ finder' = IF StillOn THEN Nap ELSE [pc |-> "lookup", at |-> now]
  /\ UNCHANGED <<now, nowPlaying, store, finger, ha, request, todo, excused, unlisted>>

(* Any show that is on air then may answer first. *)
FindShow(s) ==
  /\ finder.pc = "lookup"
  /\ s \in OnAir(finder.at)
  /\ onShow' = [name |-> s, end |-> End[s]]
  /\ excused' = FALSE
  /\ finder' = Nap
  /\ UNCHANGED <<now, heard, store, finger, ha, request, todo, unlisted>>

FindNothing ==
  /\ finder.pc = "lookup"
  /\ \/ OnAir(finder.at) = {} /\ todo' = todo
     \/ OnAir(finder.at) # {} /\ Spend("failures")
  /\ excused' = TRUE
  /\ finder' = Nap
  /\ UNCHANGED <<now, nowPlaying, store, finger, ha, request, unlisted>>

(* The service starts again: it knows no track and no show. *)
Restart ==
  /\ Spend("restarts")
  /\ heard' = NoTrack
  /\ onShow' = NoOne
  /\ finger' = Listening
  /\ finder' = [pc |-> "nap", at |-> now]
  /\ reader' = NoRequest
  /\ excused' = FALSE
  /\ unlisted' = FALSE
  /\ asked' = [p \in Path |-> <<>>]
  /\ UNCHANGED <<now, store, ha>>
-----------------------------------------------------------------------------
(* A request for a day's lists: the files there are, then one at a time in *)
(* the order of their names, leaving out the lines that cannot be read.    *)

Files == {p \in Path : lists[p] # <<>>}
AskLists ==
  /\ reader.pc = "idle"
  /\ Spend("requests")
  /\ reader' = [NoRequest EXCEPT !.pc = "read", !.toRead = Files]
  /\ asked' = lists
  /\ UNCHANGED <<now, nowPlaying, store, finger, finder, ha, excused, unlisted>>
ReadList(p) ==
  /\ reader.pc = "read"
  /\ p \in reader.toRead
  /\ \A q \in reader.toRead : p <= q
  /\ reader' = [reader EXCEPT !.toRead = @ \ {p}, !.got[p] = Readable(lists[p])]
  /\ UNCHANGED <<now, nowPlaying, store, finger, finder, ha, asked, todo, excused, unlisted>>
TellLists ==
  /\ reader.pc = "read" /\ reader.toRead = {}
  /\ reader' = NoRequest
  /\ asked' = [p \in Path |-> <<>>]
  /\ UNCHANGED <<now, nowPlaying, store, finger, finder, ha, todo, excused, unlisted>>
-----------------------------------------------------------------------------
(* The sensor: the cached show if it has not ended, or else a lookup,      *)
(* which is cached, or leaves the cache as it was or unreadable.           *)

CacheHolds == cache.name # NoShow
CacheValid == cache.name # NoShow /\ now <= cache.end
RunSensor ==
  /\ sensor.pc = "off"
  /\ Spend("runs")
  /\ sensor' = IF CacheValid THEN [pc |-> "told", at |-> now, show |-> cache.name]
               ELSE [pc |-> "lookup", at |-> now, show |-> NoShow]
  /\ UNCHANGED <<now, nowPlaying, store, finger, finder, cache, request, excused, unlisted>>
Saved(s) == {[name |-> s, end |-> End[s]], NoOne, cache}
SensorFinds(s) ==
  /\ sensor.pc = "lookup"
  /\ s \in OnAir(sensor.at)
  /\ cache' \in Saved(s)
  /\ sensor' = [sensor EXCEPT !.pc = "told", !.show = s]
  /\ UNCHANGED <<now, nowPlaying, store, finger, finder, request, todo, excused, unlisted>>

(* Nothing is on, or a request failed: it tells no show, or fails. *)
SensorFindsNothing ==
  /\ sensor.pc = "lookup"
  /\ \/ OnAir(sensor.at) = {} /\ todo' = todo
     \/ OnAir(sensor.at) # {} /\ Spend("failures")
  /\ sensor' \in {[sensor EXCEPT !.pc = "told"], NoRun}
  /\ UNCHANGED <<now, nowPlaying, store, finger, finder, cache, request, excused, unlisted>>
SensorEnds ==
  /\ sensor.pc = "told"
  /\ sensor' = NoRun
  /\ UNCHANGED <<now, nowPlaying, store, finger, finder, cache, request, todo, excused, unlisted>>
-----------------------------------------------------------------------------
(* Time passes but not past a nap's end, nor a lookup's time.              *)
Tick ==
  /\ now < LastTime
  /\ now < finder.at + (IF finder.pc = "lookup" THEN Lookup ELSE 0)
  /\ sensor.pc = "lookup" => now < sensor.at + Lookup
  /\ now' = now + 1
  /\ UNCHANGED <<nowPlaying, store, finger, finder, ha, request, todo, excused, unlisted>>

Init ==
  /\ todo \in Budgets
  /\ now = 0
  /\ heard = NoTrack
  /\ onShow = NoOne
  /\ lists = [p \in Path |-> <<>>]
  /\ torn = {}
  /\ finger = Listening
  /\ finder = [pc |-> "nap", at |-> 0]
  /\ cache = NoOne
  /\ sensor = NoRun
  /\ reader = NoRequest
  /\ asked = [p \in Path |-> <<>>]
  /\ excused = FALSE
  /\ unlisted = FALSE

Next ==
  \/ Tick
  \/ \E t \in Track : Match(t)
  \/ AskShow \/ AppendTrack \/ AppendFails
  \/ WakeUp \/ FindNothing \/ Restart
  \/ \E s \in Show : FindShow(s) \/ SensorFinds(s)
  \/ RunSensor \/ SensorFindsNothing \/ SensorEnds
  \/ AskLists \/ TellLists
  \/ \E p \in Path : ReadList(p)

Spec == Init /\ [][Next]_vars
-----------------------------------------------------------------------------
TypeOK ==
  /\ now \in 0..LastTime
  /\ heard \in Track \cup {NoTrack}
  /\ onShow \in [name : Show \cup {NoShow}, end : Nat]
  /\ lists \in [Path -> Seq([track : Track \cup {NoTrack}])]
  /\ \A p \in torn : lists[p] # <<>>
  /\ finger \in [pc : {"listen", "show", "append"}, track : Track \cup {NoTrack},
                 show : Show \cup {NoShow}]
  /\ finger.pc \in {"show", "append"} <=> finger.track # NoTrack
  /\ finder \in [pc : {"nap", "lookup"}, at : Nat]
  /\ cache \in [name : Show \cup {NoShow}, end : Nat]
  /\ sensor \in [pc : {"off", "lookup", "told"}, at : Nat, show : Show \cup {NoShow}]
  /\ DOMAIN reader = {"pc", "toRead", "got"}
  /\ reader.pc \in {"idle", "read"} /\ reader.toRead \subseteq Path /\ DOMAIN reader.got = Path
  /\ excused \in BOOLEAN /\ unlisted \in BOOLEAN

(* A list never says a track twice in a row, over restarts, shows that     *)
(* share a file and failed writes, unless a line between cannot be read.   *)
NoRepeat ==
  \A p \in Path : \A i \in 1..(Len(lists[p]) - 1) :
    lists[p][i] # Spoilt => lists[p][i + 1] # lists[p][i]

(* The track that is playing is the last of the list it was written to,    *)
(* once the thread listens again, unless the write went wrong: nothing     *)
(* would write it later, as the track does not change.                     *)
CurrentTrackIsListed ==
  finger.pc = "listen" /\ ~unlisted /\ heard # NoTrack =>
    LET list == lists[PathOf[finger.show]] IN list # <<>> /\ Last(list).track = heard

(* A show's name is told, and lists are written under it, no longer than a *)
(* nap and two lookups after its end: the lookup that found it, and the    *)
(* next.  A lookup that fails or finds nothing leaves it there longer.     *)
ShowIsFresh ==
  onShow.name # NoShow /\ ~excused => now <= onShow.end + Poll + 2 * Lookup

(* The show the sensor tells was on air when it was asked, also from the   *)
(* cache, and over failed lookups and failed writes of the cache.          *)
SensorTellsTheShow ==
  sensor.pc = "told" /\ sensor.show # NoShow =>
    Start[sensor.show] <= sensor.at /\ sensor.at <= End[sensor.show]

(* The answer to a request has nothing but tracks, and every one that was  *)
(* listed, and could be read, when it came, in order, though more are      *)
(* written while it is put together; but for one whose line had no end and *)
(* was then run into.                                                      *)
AnswerHasThePast ==
  /\ \A p \in Path : reader.got[p] \in Seq([track : Track])
  /\ reader.pc = "read" /\ reader.toRead = {} =>
       \A p \in Path :
         LET kept == {i \in DOMAIN asked[p] : asked[p][i] # Spoilt /\ lists[p][i] # Spoilt}
             got == reader.got[p]
         IN  \A i \in kept :
               LET place == Cardinality({j \in kept : j <= i})
               IN  place <= Len(got) /\ got[place] = asked[p][i]

(* The lists have every track once, and the show that is told, by server   *)
(* and sensor, is the one on the air, or over for no longer than it takes  *)
(* to notice.                                                              *)
ListsSound == TypeOK /\ NoRepeat /\ CurrentTrackIsListed
ShowIsRight == ShowIsFresh /\ SensorTellsTheShow
=============================================================================
