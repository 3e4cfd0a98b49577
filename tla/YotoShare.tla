------------------------------ MODULE YotoShare ------------------------------
(***************************************************************************)
(* The Yoto tools around one book of the audiobook library, which other    *)
(* programs change while they read it:                                     *)
(*   - modules/nixos/services/yoto-share/server.py, eight request threads  *)
(*     that search the library, plan the book's cards and stream a card's  *)
(*     ZIP, with two slots for planning and two for downloads;             *)
(*   - yoto-prep.py, which writes the cards of a single-file book to a     *)
(*     directory of its own and stamps them with a manifest.               *)
(*                                                                         *)
(* Abstracted: HTTP, templates, tags and artwork; the bytes of a track,    *)
(* which are the version of the file they were cut from; music albums,     *)
(* which are planned and streamed alike; ages, which any of two answers    *)
(* may stand for.                                                          *)
(***************************************************************************)
EXTENDS YotoCards

CONSTANTS
  Thread,        \* the request threads
  DownloadSlots, PlannerSlots,
  Root,          \* the trees that can be searched; they share one scan lock
  Books,         \* the books to choose from: sequences of files
  Budgets,       \* bounds to choose from: searches, requests, runs, changes
  None

ASSUME SlotsAssumption ==
  {DownloadSlots, PlannerSlots} \subseteq Nat \ {0} /\ IsFiniteSet(Thread)
ASSUME NoneAssumption == None \notin Thread /\ None \notin Nat
(* What ffprobe tells of a file: its time, the bytes of a unit, chapters.  *)
Source ==
  [time : Nat \ {0}, rate : Nat \ {0}, chapters : Seq([start : Nat, end : Nat])]
ASSUME BooksAssumption ==
  Books \subseteq Seq(Source) /\ \A choice \in Budgets : choice.books \subseteq Seq(Source)

VARIABLES
  library,    \* the contents the book has had so far, the present ones last
  since,      \* per contents and file, the contents that file came with
  budget,     \* what may still happen (bound)
  thread,     \* the request each thread serves
  downloads, planners,  \* free slots
  catalogue,  \* per root, the library contents of the cached listing, or None
  scanLock,   \* the thread that holds catalogue_lock
  infos,      \* the probe cache: what was found of a file under its stamp
  prep,       \* the CLI run in progress, if any
  out         \* its output directory: tracks by card and number, manifest;
              \* and (history) whether it is spoilt: a run broke off since, or
              \* the book was replaced between its probe and its stamp

shareVars == <<thread, downloads, planners, catalogue, scanLock, infos>>
prepVars == <<prep, out>>
vars == <<library, since, budget, shareVars, prepVars>>

(* A file's stamp is its path, size and modification time, which tell its  *)
(* versions apart: a version is known by the contents it came with.        *)
Now == Len(library)
Stamps == since[Now]
Idle ==
  [ pc |-> "idle", root |-> None, seen |-> None, link |-> None, stamp |-> <<>>, found |-> <<>>,
    card |-> None, cards |-> <<>>, zip |-> <<>>, complete |-> FALSE ]
NoPrep ==
  [ pc |-> "off", of |-> 0, plan |-> <<>>, stamp |-> None, left |-> {}, force |-> FALSE,
    merge |-> FALSE ]

Spend(kind) == budget[kind] > 0 /\ budget' = [budget EXCEPT ![kind] = @ - 1]

(* Somebody replaces, adds or removes files of the book; some are kept.    *)
ChangeBook ==
  /\ Spend("changes")
  /\ \E files \in Books : \E kept \in SUBSET (DOMAIN files \cap DOMAIN library[Now]) :
       /\ \A k \in kept : files[k] = library[Now][k]
       /\ library' = Append(library, files)
       /\ since' = Append(since, [k \in DOMAIN files |-> IF k \in kept THEN Stamps[k] ELSE Now + 1])
  /\ UNCHANGED <<shareVars, prepVars>>
-----------------------------------------------------------------------------
(* Searching. *)

Free(t) == thread[t].pc = "idle"

ScansAtOnce == TRUE
MayScan == scanLock = None

(* search_entries: with an old or no listing in the cache, the thread that *)
(* gets the lock scans; any other answers from the cache or "try again",   *)
(* as does one that finds a listing young enough.                          *)
BeginScan(t, root) ==
  /\ Free(t)
  /\ MayScan
  /\ Spend("searches")
  /\ scanLock' = t
  /\ thread' = [thread EXCEPT ![t] = [Idle EXCEPT !.pc = "scan", !.root = root, !.seen = Now]]
  /\ UNCHANGED <<library, since, downloads, planners, catalogue, infos, prepVars>>

(* The listing shows any moment of the walk; one that fails stores nothing. *)
EndScan(t) ==
  /\ thread[t].pc = "scan"
  /\ catalogue' \in {catalogue} \cup
       {[catalogue EXCEPT ![thread[t].root] = seen] : seen \in thread[t].seen..Now}
  /\ scanLock' = None
  /\ thread' = [thread EXCEPT ![t] = Idle]
  /\ UNCHANGED <<library, since, budget, downloads, planners, infos, prepVars>>
-----------------------------------------------------------------------------
(* Planning and downloading. *)

ReleasesTwice(n) == n + 2
KeepsSlot(n) == n
Release(n) == n + 1

(* get_book takes a planner slot, or the answer is 503, and the stamps of  *)
(* the files (one after the other, which no request that is admitted can   *)
(* tell: they are those of its link, which all the files had before).  The *)
(* request is for the book's page (card 0) or for a card of the version    *)
(* the link was made for.                                                  *)
GetBook(t, card, link) ==
  /\ Free(t)
  /\ library[Now] # <<>>
  /\ planners > 0
  /\ Spend("requests")
  /\ planners' = planners - 1
  /\ thread' = [thread EXCEPT ![t] =
       [Idle EXCEPT !.pc = "probe", !.stamp = Stamps, !.card = card, !.link = since[link]]]
  /\ UNCHANGED <<library, since, downloads, catalogue, scanLock, infos, prepVars>>

(* source_info: the file as it is now, or as it was probed under the stamp *)
(* before, unless the cache dropped that or another thread is at it.       *)
SourceInfo(k, stamp) ==
  {infos[key] : key \in {<<k, stamp>>} \cap DOMAIN infos} \cup {Stamps[n] : n \in {k} \cap DOMAIN Stamps}

(* A pool of workers probes the files, in any order.                       *)
Noted(f, x, v) == [n \in DOMAIN f \cup {x} |-> IF n = x THEN v ELSE f[n]]
ProbeFile(t) ==
  /\ thread[t].pc = "probe"
  /\ \E k \in DOMAIN thread[t].stamp \ DOMAIN thread[t].found :
     \E v \in SourceInfo(k, thread[t].stamp[k]) :
       /\ infos' = Noted(infos, <<k, thread[t].stamp[k]>>, v)
       /\ thread' = [thread EXCEPT ![t] =
                       [thread[t] EXCEPT !.found = Noted(thread[t].found, k, v)]]
  /\ UNCHANGED <<library, since, budget, downloads, planners, catalogue, scanLock, prepVars>>

(* plan_book, of the files as they were probed, and for a card the checks  *)
(* of download_card: the link's version, which is all the stamps, the      *)
(* card's number, a free slot.                                             *)
Files(found) == [k \in DOMAIN found |-> library[found[k]][k]]
PlanAndAdmit(t) ==
  /\ thread[t].pc = "probe"
  /\ DOMAIN thread[t].found = DOMAIN thread[t].stamp
  /\ \E cards \in {PlanBook(Files(thread[t].found))} :
     LET r == thread[t]
         admitted == r.card \in DOMAIN cards /\ r.link = r.stamp /\ downloads > 0
     IN  /\ planners' = Release(planners)
         /\ downloads' = IF admitted THEN downloads - 1 ELSE downloads
         /\ thread' = [thread EXCEPT ![t] =
              IF admitted THEN [r EXCEPT !.pc = "check", !.cards = cards]
                          ELSE [Idle EXCEPT !.cards = cards]]
  /\ UNCHANGED <<library, since, budget, catalogue, scanLock, infos, prepVars>>

(* A file that cannot be probed or planned. *)
PlanFails(t) ==
  /\ thread[t].pc = "probe"
  /\ planners' = Release(planners)
  /\ thread' = [thread EXCEPT ![t] = Idle]
  /\ UNCHANGED <<library, since, budget, downloads, catalogue, scanLock, infos, prepVars>>

(* The end of stream(), however it comes: complete says whether the ZIP's  *)
(* central directory was sent.                                             *)
EndStream(t, r) ==
  /\ downloads' = Release(downloads)
  /\ thread' = [thread EXCEPT ![t] = [r EXCEPT !.pc = "idle"]]
  /\ UNCHANGED <<library, since, budget, planners, catalogue, scanLock, infos, prepVars>>

Step(t, r) ==
  /\ thread' = [thread EXCEPT ![t] = r]
  /\ UNCHANGED <<library, since, budget, downloads, planners, catalogue, scanLock, infos, prepVars>>

(* card_zip, before each track: has the file of this track changed?        *)
Turn(r) == Len(r.zip) + 1
FileOf(r, j) == r.cards[r.card][j].of
Unchanged(r, k) == k \in DOMAIN r.stamp \cap DOMAIN Stamps /\ r.stamp[k] = Stamps[k]
SameFirst(r) == Unchanged(r, FileOf(r, 1))
SameSource(r) == Unchanged(r, FileOf(r, Turn(r)))
CheckSource(t) ==
  /\ thread[t].pc = "check"
  /\ SameSource(thread[t])
  /\ Step(t, [thread[t] EXCEPT !.pc = "cut"])

(* The track is cut from that file as it is by then ...                    *)
CutTrack(t) ==
  /\ thread[t].pc = "cut"
  /\ LET k == FileOf(thread[t], Turn(thread[t]))
     IN  /\ k \in DOMAIN Stamps
         /\ Step(t, [thread[t] EXCEPT !.pc = "send", !.seen = Stamps[k]])

(* ... and sent as the client reads. *)
SendTrack(t) ==
  /\ thread[t].pc = "send"
  /\ \E zip \in {Append(thread[t].zip, thread[t].seen)} :
       Step(t, [thread[t] EXCEPT !.zip = zip,
                  !.pc = IF Len(zip) = Len(thread[t].cards[thread[t].card])
                         THEN "close" ELSE "check"])

CloseZip(t) ==
  /\ thread[t].pc = "close"
  /\ EndStream(t, [thread[t] EXCEPT !.complete = TRUE])

(* The deadline, a changed source, a track that cannot be cut or exceeds   *)
(* the limits: the archive is closed into a sink nobody drains.            *)
SentAnyway == TRUE
SentAfterFailure == FALSE
FailDownload(t) ==
  /\ thread[t].pc \in {"check", "cut", "send"}
  /\ EndStream(t, [thread[t] EXCEPT !.complete = SentAfterFailure])

Disconnect(t) ==
  /\ thread[t].pc \in {"check", "send", "close"}
  /\ EndStream(t, thread[t])

(* The service is restarted: no request, slot, lock or cache survives.     *)
RestartService ==
  /\ Spend("changes")
  /\ thread' = [t \in Thread |-> Idle]
  /\ downloads' = DownloadSlots
  /\ planners' = PlannerSlots
  /\ catalogue' = [r \in Root |-> None]
  /\ scanLock' = None
  /\ infos' = <<>>
  /\ UNCHANGED <<library, since, prepVars>>
-----------------------------------------------------------------------------
(* yoto-prep: prep_book for a directory with one audio file.  The ZIPs it  *)
(* adds repeat the tracks; the manifest does not say whether there are any.*)

BeginPrep(force, merge) ==
  /\ prep.pc = "off"
  /\ Spend("runs")
  /\ Len(library[Now]) = 1
  /\ \E plan \in {PrepPlan(library[Now][1], merge)} :
       prep' = [NoPrep EXCEPT !.pc = "stamp", !.of = Stamps[1], !.plan = plan, !.force = force,
                              !.merge = merge]
  /\ UNCHANGED <<library, since, shareVars, out>>

(* What the manifest will say: size and time of the file, and the counts.  *)
CountsOnly(plan, merge, version) ==
  [version |-> 1, merge |-> merge, cards |-> Len(plan), tracks |-> Len(FlattenSeq(plan))]
StampOf(plan, merge, version) ==
  [version |-> version, merge |-> merge, cards |-> Len(plan), tracks |-> Len(FlattenSeq(plan))]

(* The tracks to cut, card by card: card and number in it.                 *)
Tracks(plan) == UNION {{<<k, n>> : n \in DOMAIN plan[k]} : k \in DOMAIN plan}
First(places) ==
  {at \in places : \A b \in places : at[1] < b[1] \/ (at[1] = b[1] /\ at[2] <= b[2])}

ReadStamp ==
  /\ prep.pc = "stamp"
  /\ 1 \in DOMAIN Stamps
  /\ LET stamp == StampOf(prep.plan, prep.merge, Stamps[1])
     IN  prep' = IF ~prep.force /\ out.manifest = stamp THEN NoPrep
                 ELSE [prep EXCEPT !.pc = "cut", !.stamp = stamp, !.left = Tracks(prep.plan)]
  /\ UNCHANGED <<library, since, budget, shareVars, out>>

(* Each track in place, over what an earlier run left under its name: the  *)
(* version it is cut from, and where.                                      *)
PrepTrack ==
  /\ prep.pc = "cut"
  /\ 1 \in DOMAIN Stamps
  /\ \E at \in First(prep.left) :
       /\ out' = [out EXCEPT !.tracks = Noted(@, at, <<Stamps[1], prep.plan[at[1]][at[2]]>>)]
       /\ prep' = [prep EXCEPT !.left = @ \ {at}]
  /\ UNCHANGED <<library, since, budget, shareVars>>

(* Opening the manifest empties it, and an empty one counts as none.       *)
OpenManifest ==
  /\ prep.pc = "cut" /\ prep.left = {}
  /\ out' = [out EXCEPT !.manifest = None]
  /\ prep' = [prep EXCEPT !.pc = "write"]
  /\ UNCHANGED <<library, since, budget, shareVars>>
WriteManifest ==
  /\ prep.pc = "write"
  /\ out' = [out EXCEPT !.manifest = prep.stamp, !.spoilt = (prep.of # prep.stamp.version)]
  /\ prep' = NoPrep
  /\ UNCHANGED <<library, since, budget, shareVars>>

(* ffmpeg fails, or the run is killed: the track it was writing is torn.   *)
PrepBreaksOff ==
  /\ prep.pc # "off"
  /\ prep' = NoPrep
  /\ \E torn \in {{}, First(prep.left)} :
       out' = [out EXCEPT !.spoilt = TRUE, !.tracks =
                [at \in (DOMAIN @) \cup torn |-> IF at \in torn THEN None ELSE @[at]]]
  /\ UNCHANGED <<library, since, budget, shareVars>>

Init ==
  /\ \E choice \in Budgets : budget = choice.budget /\ library \in {<<b>> : b \in choice.books}
  /\ since = <<[k \in DOMAIN library[1] |-> 1]>>
  /\ thread = [t \in Thread |-> Idle]
  /\ downloads = DownloadSlots
  /\ planners = PlannerSlots
  /\ catalogue = [r \in Root |-> None]
  /\ scanLock = None
  /\ infos = <<>>
  /\ prep = NoPrep
  /\ out = [tracks |-> <<>>, manifest |-> None, spoilt |-> FALSE]

ThreadStep(t) ==
  \/ EndScan(t)
  \/ ProbeFile(t) \/ PlanFails(t) \/ PlanAndAdmit(t)
  \/ CheckSource(t) \/ CutTrack(t) \/ SendTrack(t) \/ CloseZip(t)
  \/ FailDownload(t) \/ Disconnect(t)

PrepStep == ReadStamp \/ PrepTrack \/ OpenManifest \/ WriteManifest

Next ==
  \/ ChangeBook
  \/ \E t \in Thread :
       \/ \E root \in Root : BeginScan(t, root)
       \/ \E card \in 0..2, link \in 1..Now : GetBook(t, card, link)
       \/ ThreadStep(t)
  \/ RestartService
  \/ \E force, merge \in BOOLEAN : BeginPrep(force, merge)
  \/ PrepStep
  \/ PrepBreaksOff

Spec == Init /\ [][Next]_vars

(* A thread goes on, and a client in the end reads on or goes away. *)
FairSpec == Spec /\ \A t \in Thread : WF_vars(ThreadStep(t))
-----------------------------------------------------------------------------
(* Properties. *)

Streaming == {t \in Thread : thread[t].pc \in {"check", "cut", "send", "close"}}
Planning == {t \in Thread : thread[t].pc = "probe"}

TypeOK ==
  /\ downloads \in 0..DownloadSlots
  /\ planners \in 0..PlannerSlots
  /\ \A r \in Root : catalogue[r] \in (1..Now) \cup {None}
  /\ scanLock \in Thread \cup {None}
  /\ \A s \in DOMAIN infos : infos[s] \in s[2]..Now
  /\ \A t \in Thread : thread[t].pc \in {"idle", "scan", "probe", "check", "cut", "send", "close"}
  /\ prep.pc \in {"off", "stamp", "cut", "write"}

Plans == {thread[t].cards : t \in Thread} \cup {prep.plan}

(* Every card and every track keeps within the limits of the player,       *)
(* whatever chapters and bitrates the files have (build_segments,          *)
(* pack_cards, plan_book) - but for a track of glued chapters, which has   *)
(* what was dropped before the last of them on top of the limit: less than *)
(* a usable chapter (merge_segments).                                      *)
TrackFits(track, bytes, dropped) ==
  \E gap \in 0..dropped :
    Duration(track) - gap <= TrackTime /\ (Duration(track) - gap) * track.rate <= bytes
PlanFits ==
  /\ \A plan \in Plans : \A k \in DOMAIN plan : FitsCard(plan[k])
  /\ \A t \in Thread : \A k \in DOMAIN thread[t].cards :
       \A track \in Range(thread[t].cards[k]) : TrackFits(track, ShareTrackBytes, 0)
  /\ \A k \in DOMAIN prep.plan : \A track \in Range(prep.plan[k]) :
       TrackFits(track, TrackBytes, IF prep.merge THEN Sliver - 1 ELSE 0)

(* Cards are never empty, and read one after the other they play the files *)
(* in their order, each on and on without going back (_split_evenly).      *)
Follows(a, b) == a.of < b.of \/ (a.of = b.of /\ a.end <= b.start)
PlanPlaysInOrder ==
  \A plan \in Plans :
    /\ \A k \in DOMAIN plan : plan[k] # <<>>
    /\ LET tracks == FlattenSeq(plan) IN
         \A j \in DOMAIN tracks :
           tracks[j].start <= tracks[j].end /\ (j > 1 => Follows(tracks[j - 1], tracks[j]))

(* What the books must be like for that: the chapters of a file follow     *)
(* each other; the limits are worth whole units of its time, at which the  *)
(* model cuts (the code cuts anywhere); and a card has room for what a     *)
(* glued track has on top of its limit.                                    *)
InOrder(chapters) == \A i, j \in DOMAIN chapters : i < j => chapters[i].end <= chapters[j].start
WholeRate(file, bytes) == \E m \in 1..bytes : bytes = m * file.rate
Roomy(file) == TrackBytes + Sliver * file.rate <= CardBytes
ChaptersFollow(files) == \A k \in DOMAIN files : InOrder(files[k].chapters)
RatesAreWhole(files, bytes) == \A k \in DOMAIN files : WholeRate(files[k], bytes)
Plannable(files) ==
  /\ ChaptersFollow(files) /\ RatesAreWhole(files, ShareTrackBytes) /\ RatesAreWhole(files, TrackBytes)
  /\ \A k \in DOMAIN files : Roomy(files[k])
Held == Books \cup UNION {choice.books : choice \in Budgets}

(* A ZIP the client can open holds the whole card; every file a track of   *)
(* it is from was planned as the version the link was made for; and of     *)
(* that version is every track that is followed by another of its file.    *)
(* Only a change after the last check of a file goes unnoticed, be it in   *)
(* the middle of the ZIP (card_zip).                                       *)
CompleteZipIsWhole ==
  \A t \in Thread : thread[t].complete =>
    LET r == thread[t] IN
      /\ Len(r.zip) = Len(r.cards[r.card])
      /\ \A j \in DOMAIN r.zip : r.found[FileOf(r, j)] = r.link[FileOf(r, j)]
      /\ \A i, j \in DOMAIN r.zip :
           i < j /\ FileOf(r, i) = FileOf(r, j) => r.zip[i] = r.link[FileOf(r, i)]

(* When a run without --force would skip the book as prepared, every track *)
(* of its plan is there, cut from the file as it is, and where the plan    *)
(* says, whatever earlier runs left and whenever the book changed          *)
(* (prep_book).  Not so once a run breaks off over prepared tracks: the    *)
(* manifest stays.  Nor for a book that is replaced between its probe and  *)
(* its stamp: the manifest says the new file, the tracks are cut by the    *)
(* plan of the old one, and counts that agree hide it.                     *)
SkipsOnlyPrepared ==
  (/\ prep.pc \in {"off", "stamp"}
   /\ out.manifest # None /\ ~out.spoilt /\ Len(library[Now]) = 1) =>
    \A merge \in BOOLEAN : LET plan == PrepPlan(library[Now][1], merge) IN
      out.manifest = StampOf(plan, merge, Stamps[1]) =>
        \A at \in Tracks(plan) :
          at \in DOMAIN out.tracks /\ out.tracks[at] = <<Stamps[1], plan[at[1]][at[2]]>>

(* The cached listing of a root never gives way to an older one, though    *)
(* scans take long and any thread may start one (catalogue_lock).          *)
CacheNeverGoesBack ==
  [][ \A r \in Root : catalogue[r] # None /\ catalogue'[r] # None
        => catalogue'[r] >= catalogue[r] ]_vars

(* However a download ends - complete, failed, abandoned - its slot and    *)
(* that of its planning come back (stream, get_book).                      *)
SlotsComeBack == []<>(downloads > 0 /\ planners > 0 /\ scanLock = None)

(* A plan plays the whole book within the player's limits, and what is     *)
(* served by it is whole.                                                  *)
PlanRight == PlanFits /\ PlanPlaysInOrder
ServingSound == TypeOK /\ CompleteZipIsWhole
=============================================================================
