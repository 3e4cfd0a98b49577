------------------------------ MODULE Magazines ------------------------------
(***************************************************************************)
(* The magazine system: the archivers (MagazineArchive), the Komga server  *)
(* that indexes their directory - external, modelled from how it is used - *)
(* and scripts/komga-sync.py, the nightly job that makes Komga index new   *)
(* arrivals and writes the sidecars' metadata into its books and series.   *)
(*                                                                         *)
(* Abstracted: the metadata fields of a book are one value with one lock;  *)
(* the waits between retries and polls; DRY_RUN (off).                     *)
(***************************************************************************)
EXTENDS MagazineArchive

CONSTANT Year  \* the year of an issue

ASSUME YearAssumption == DOMAIN Year = Issue

VARIABLES
  book,      \* Komga: per issue, its book, or None
  series,    \* Komga: the series that carry our metadata, locked
  scanning,  \* Komga: the libraries with an accepted, unfinished scan
  hashed,    \* Komga: the libraries with hashKoreader on
  sync       \* the komga-sync run in progress

(* A magazine's directory is the root of its library, and a year of it a series. *)
Library == {"GAW", "WVJ"}
LibraryOf(i) == IF owner[i] = "wvj" THEN "WVJ" ELSE "GAW"
SeriesOf(i) == <<LibraryOf(i), Year[i]>>
Series == {SeriesOf(i) : i \in Issue}

komgaVars == <<book, series, scanning, hashed>>
vars == <<archiveVars, komgaVars, sync>>

(* A book's metadata: None as Komga makes it of the bare file, or what a   *)
(* sidecar's contents ask for, which the contents stand for.               *)
Book(i) ==
  [ name : {"full", "synthetic", "DOWNLOADING"}, meta : (SUBSET Article(i)) \cup {None},
    locked : BOOLEAN ]

ASSUME BookAssumption == \A i \in Issue : None \notin Book(i)

NoSync ==
  [ pc |-> "off", sidecars |-> {}, cached |-> {}, waiting |-> {},
    todo |-> <<>>, got |-> FALSE, diff |-> FALSE, failed |-> {}, ask |-> None,
    seen |-> {}, blank |-> {}, unnamed |-> {}, error |-> FALSE, exit |-> None ]
-----------------------------------------------------------------------------
(* Komga (external). *)

FreshBook(i) == [name |-> disk[i].pdf.name, meta |-> None, locked |-> FALSE]

(* A library scan: books of new files appear, books whose file is gone go. *)
ScanLibrary(l) ==
  /\ book' = [i \in Issue |->
       IF LibraryOf(i) # l THEN book[i]
       ELSE IF disk[i].pdf = None THEN None
       ELSE IF book[i] # None /\ book[i].name = disk[i].pdf.name THEN book[i]
       ELSE FreshBook(i)]
  /\ scanning' = scanning \ {l}
  /\ UNCHANGED <<archiveVars, series, hashed, sync>>

FinishScan(l) == l \in scanning /\ ScanLibrary(l)
PeriodicScan(l) == l \notin scanning /\ ScanLibrary(l)

(* A metadata refresh puts back what the file says, but for locked fields. *)
RefreshMetadata(i) ==
  /\ book[i] # None
  /\ ~book[i].locked
  /\ book' = [book EXCEPT ![i].meta = None]
  /\ UNCHANGED <<archiveVars, series, scanning, hashed, sync>>
-----------------------------------------------------------------------------
(* komga-sync. *)

(* http: an answer with an error status, and a server that cannot be       *)
(* reached, are a status to look at.  What else can go wrong while the     *)
(* answer is awaited or read ends the run (BreaksOff).                     *)
HttpFails(p) == FaultIf(p)

(* The metadata a sidecar asks for, and whether a book lacks it.           *)
Desired(i) == disk[i].sidecar
NeedsPatchBook(i) == book[i].meta # Desired(i)

(* find_sidecars, in one fixed order. *)
HasSidecar(i) == disk[i].sidecar # None /\ disk[i].pdf # None
Sidecars == {i \in Issue : HasSidecar(i)}

(* ensure_hashkoreader; a library that refuses is left for another night.  *)
EnsureHashKoreader ==
  \E on \in {Library, hashed} :
    /\ hashed' = on
    /\ HttpFails(on # Library)

StartSync ==
  /\ sync.pc = "off"
  /\ EnsureHashKoreader
  /\ sync' = [NoSync EXCEPT !.pc = "index", !.sidecars = Sidecars, !.todo = Within(Index, Sidecars)]
  /\ UNCHANGED <<owner, served, disk, job, announced, unheard, book, series, scanning>>

(* Komga cannot be reached, or an answer is lost on the way. *)
StartSyncFails ==
  /\ sync.pc = "off"
  /\ Fault
  /\ hashed' \in {hashed \cup new : new \in SUBSET Library}
  /\ sync' = [NoSync EXCEPT !.exit = 1]
  /\ UNCHANGED <<owner, served, disk, job, announced, unheard, book, series, scanning>>

(* Paging through the books, of which those of the sidecars matter; a page *)
(* that cannot be had ends the list, which counts as loaded all the same.  *)
InKomga(i) == book[i] # None /\ book[i].name = disk[i].pdf.name
Indexed == {i \in sync.sidecars : InKomga(i)}
LoadBookCache(cached) ==
  /\ cached \in {Indexed} \cup {Indexed \ {i} : i \in Indexed}
  /\ HttpFails(cached # Indexed)

(* refresh_book_index: the books not indexed yet ...                       *)
ReadBookIndex ==
  /\ sync.pc = "index"
  /\ \E cached \in SUBSET sync.sidecars :
       /\ LoadBookCache(cached)
       /\ sync' = [sync EXCEPT !.cached = cached,
                               !.pc = IF cached = sync.sidecars THEN "books" ELSE "request"]
  /\ UNCHANGED <<owner, served, disk, job, announced, unheard, komgaVars>>

WantedNone(pending) == {}
Wanted(pending) == {LibraryOf(i) : i \in pending}

(* ... make their libraries be scanned, unless three requests are refused; *)
(* it waits only for the books of the libraries that accepted ...          *)
RequestScans ==
  /\ sync.pc = "request"
  /\ LET pending == sync.sidecars \ sync.cached
         wanted == Wanted(pending)
     IN  \E refused \in {{}} \cup {{l} : l \in wanted} :
           /\ HttpFails(refused # {})
           /\ scanning' = scanning \cup (wanted \ refused)
           /\ sync' = [sync EXCEPT !.pc = "wait", !.error = refused # {},
                         !.waiting = {i \in pending : LibraryOf(i) \in wanted \ refused}]
  /\ UNCHANGED <<owner, served, disk, job, announced, unheard, book, series, hashed>>

(* ... reading the whole index again with every poll ...                   *)
PollBookIndex ==
  /\ sync.pc = "wait"
  /\ sync.waiting # {}
  /\ \E cached \in SUBSET sync.sidecars :
       /\ LoadBookCache(cached)
       /\ sync' = [sync EXCEPT !.cached = cached, !.waiting = @ \ cached]
  /\ UNCHANGED <<owner, served, disk, job, announced, unheard, komgaVars>>

(* ... until none is missing, or the ten minutes are over.                 *)
LeaveGate ==
  /\ sync.pc = "wait"
  /\ FaultIf(sync.waiting # {})
  /\ sync' = [sync EXCEPT !.pc = "books", !.waiting = {}]
  /\ UNCHANGED <<owner, served, disk, job, announced, unheard, komgaVars>>

Failed(i) ==
  [sync EXCEPT !.todo = Tail(@), !.got = FALSE, !.diff = FALSE, !.failed = @ \cup {i}]

(* sync_book, the read: no such book in the cache, a failed GET and a book *)
(* gone since the cache was read are errors of this sidecar alone.         *)
(* Otherwise diff says whether its metadata differs from the sidecar's.    *)
GetBook ==
  /\ sync.pc = "books"
  /\ sync.todo # <<>>
  /\ ~sync.got
  /\ sync.ask = None
  /\ LET i == Head(sync.todo)
         there == i \in sync.cached /\ InKomga(i)
     IN  \/ /\ there
            /\ NoFault
            /\ sync' = [sync EXCEPT !.got = TRUE, !.diff = NeedsPatchBook(i)]
         \/ /\ ~there
            /\ NoFault
            /\ sync' = Failed(i)
         \/ /\ there
            /\ Fault
            /\ sync' = Failed(i)
  /\ UNCHANGED <<owner, served, disk, job, announced, unheard, komgaVars>>

(* The book with its differing fields set, and locked (attach_locks).      *)
AttachNothing(b, m) == [b EXCEPT !.meta = m]
AttachLocks(b, m) == [b EXCEPT !.meta = m, !.locked = TRUE]

(* sync_book, the write: what differs is set and locked.  The first book   *)
(* of a series that is synced is asked for its id.                         *)
PatchBook ==
  /\ sync.got
  /\ LET i == Head(sync.todo)
         done == [sync EXCEPT !.got = FALSE, !.diff = FALSE, !.todo = Tail(@),
                              !.ask = IF SeriesOf(i) \in sync.seen THEN None ELSE i]
     IN  \/ /\ NoFault
            /\ ~sync.diff
            /\ sync' = done
            /\ book' = book
         \/ /\ NoFault
            /\ sync.diff
            /\ InKomga(i)
            /\ sync' = done
            /\ book' = [book EXCEPT ![i] = AttachLocks(@, Desired(i))]
         \/ /\ sync.diff
            /\ HttpFails(InKomga(i))
            /\ sync' = Failed(i)
            /\ book' = book
  /\ UNCHANGED <<owner, served, disk, job, announced, unheard, series, scanning, hashed>>

(* main's second GET of the book: an id, which may be empty, is kept for   *)
(* the rest of the run; a failure is no error, and the next book of the    *)
(* series is asked instead.                                                *)
LookUpSeries ==
  /\ sync.ask # None
  /\ LET i == sync.ask
         answered == [sync EXCEPT !.ask = None, !.seen = @ \cup {SeriesOf(i)}]
     IN  \/ /\ InKomga(i)
            /\ NoFault
            /\ sync' = answered
         \/ /\ InKomga(i)
            /\ Fault
            /\ sync' = [answered EXCEPT !.blank = @ \cup {SeriesOf(i)}]
         \/ /\ HttpFails(InKomga(i))
            /\ sync' = [sync EXCEPT !.ask = None, !.unnamed = @ \cup {i}]
  /\ UNCHANGED <<owner, served, disk, job, announced, unheard, komgaVars>>

(* sync_series, for the series whose id this run has.                      *)
Named == sync.seen \ sync.blank
SyncSeries(failing) ==
  /\ HttpFails(failing # {})
  /\ series' = series \cup (Named \ failing)

Finishing == sync.pc = "books" /\ sync.todo = <<>> /\ sync.ask = None

(* The end of main: the series, and the exit status. *)
FinishSync ==
  /\ Finishing
  /\ \E failing \in {{}} \cup {{s} : s \in Named} :
       /\ SyncSeries(failing)
       /\ sync' = [NoSync EXCEPT !.exit = IF sync.failed # {} \/ failing # {} \/ sync.error THEN 2 ELSE 0]
  /\ UNCHANGED <<owner, served, disk, job, announced, unheard, book, scanning, hashed>>

(* What Komga may have done already of the step a run is broken off in.    *)
HalfDone ==
  /\ book' \in {book} \cup
       {[book EXCEPT ![i] = AttachLocks(@, Desired(i))] :
          i \in {j \in sync.sidecars : sync.got /\ sync.diff /\ j = Head(sync.todo) /\ InKomga(j)}}
  /\ series' \in {series \cup set : set \in SUBSET (IF Finishing THEN Named ELSE {})}

(* Nothing catches an answer that does not come in its 30 seconds or not   *)
(* whole, or a connection that is dropped or reset: the run is over, with  *)
(* status 1.  Or the 20 minutes are over.                                  *)
SyncBreaksOff ==
  /\ sync.pc # "off"
  /\ Fault
  /\ HalfDone
  /\ \E accepted \in SUBSET (IF sync.pc = "request" THEN Wanted(sync.sidecars \ sync.cached) ELSE {}) :
       scanning' = scanning \cup accepted
  /\ \E exit \in {None, 1} : sync' = [NoSync EXCEPT !.exit = exit]
  /\ UNCHANGED <<owner, served, disk, job, announced, unheard, hashed>>

(* The host goes down with every job on it, and no hook runs.              *)
Reboot ==
  /\ job.mode # None
  /\ Fault
  /\ HalfDone
  /\ job' = NoRun
  /\ unheard' = unheard \cup job.printed \cup Unprinted
  /\ sync' = NoSync
  /\ scanning' = {}
  /\ UNCHANGED <<owner, served, disk, announced, hashed>>

Init ==
  /\ ArchiveInit
  /\ book = [i \in Issue |-> None]
  /\ series = {}
  /\ scanning = {}
  /\ hashed = {}
  /\ sync = NoSync

SyncStep ==
  \/ ReadBookIndex \/ RequestScans \/ PollBookIndex \/ LeaveGate
  \/ GetBook \/ PatchBook \/ LookUpSeries \/ FinishSync

Next ==
  \/ ArchiveNext /\ UNCHANGED <<komgaVars, sync>>
  \/ \E l \in Library : FinishScan(l) \/ PeriodicScan(l)
  \/ \E i \in Issue : RefreshMetadata(i)
  \/ StartSync \/ StartSyncFails \/ SyncStep \/ SyncBreaksOff
  \/ Reboot

Spec == Init /\ [][Next]_vars

(* The timers keep starting the two gwm runs and the sync, a started run   *)
(* goes on, an accepted scan ends, and within the ten minutes.  Nothing    *)
(* starts wvj-archive again.                                               *)
FairSpec ==
  /\ Spec
  /\ \A mode \in {"current", "backfill"} :
       SF_vars(StartRun(mode) /\ UNCHANGED <<komgaVars, sync>>)
  /\ WF_vars(RunStep /\ UNCHANGED <<komgaVars, sync>>)
  /\ WF_vars(StartSync)
  /\ WF_vars(SyncStep)
  /\ SF_vars(\E l \in Library : FinishScan(l))
-----------------------------------------------------------------------------
(* Properties. *)

TypeOK ==
  /\ ArchiveTypeOK
  /\ \A i \in Issue : book[i] \in Book(i) \cup {None}
  /\ series \subseteq Series
  /\ scanning \subseteq Library
  /\ hashed \subseteq Library
  /\ sync.sidecars \subseteq Issue
  /\ sync.cached \subseteq sync.sidecars
  /\ sync.waiting \subseteq sync.sidecars
  /\ \A k \in DOMAIN sync.todo : sync.todo[k] \in sync.sidecars
  /\ sync.failed \subseteq sync.sidecars
  /\ sync.got => sync.todo # <<>>
  /\ sync.ask \in sync.sidecars \cup {None}
  /\ sync.seen \subseteq Series
  /\ sync.unnamed \subseteq sync.sidecars
  /\ sync.exit \in {None, 0, 1, 2}

(* A full issue gwm-archiver downloaded is whole, and the contents listed  *)
(* beside it are all of them, whatever failed or was killed on the way,    *)
(* unless a body that came without its length was cut short                *)
(* (download_request, download_full_issue, build_sidecar_for_native).      *)
PublishesWhole ==
  \A i \in Issue :
    owner[i] # "wvj" /\ disk[i].pdf # None /\ disk[i].pdf.name # "synthetic" /\ ~disk[i].unsized =>
      /\ disk[i].pdf.whole
      /\ disk[i].sidecar \in {None, Article(i)}

(* A backfill that recovers one gap leaves none it could have filled: the  *)
(* ones held back are swept in the same run, as far as the index listed    *)
(* them (main).                                                            *)
RecoverySweepsTheRest ==
  [][ (job.mode = "backfill" /\ FinishRun /\ job.printed # {} /\ ~job.error) =>
      \A i \in job.listed : Complete(i) \/ i \in job.absent ]_vars

(* A new issue is announced at most once, and only when PDF and sidecar    *)
(* are both in place (process_issue and the NEW_ISSUE line of main).       *)
AnnouncedOnceComplete ==
  [][ /\ \A i \in job'.printed \ job.printed : i \notin announced /\ Complete(i)
      /\ announced \subseteq announced' ]_vars

(* No magazine is complete and never announced, unless the run was killed  *)
(* between its sidecar and its line, or the host went down before the hook *)
(* ran: the next run skips it (process_issue, "skip-complete").            *)
CompleteIsAnnounced ==
  \A i \in Issue :
    owner[i] # "wvj" /\ Complete(i) =>
      i \in announced \cup job.printed \cup Unprinted \cup unheard

(* When komga-sync ends by itself, Komga shows the metadata of every       *)
(* sidecar that did not fail; and with exit status 0 that is every one of  *)
(* them, and every series is set that one of its books gave an id for      *)
(* (main; a series none gave an id for is passed over without an error).   *)
Nameless(s) ==
  s \in sync.blank \/ \A i \in sync.sidecars : SeriesOf(i) = s => i \in sync.unnamed
ExitTellsTheTruth ==
  [][ FinishSync =>
      /\ \A i \in sync.sidecars \ sync.failed :
           InKomga(i) /\ book[i].meta = Desired(i)
      /\ sync'.exit = 0 =>
           /\ sync.failed = {}
           /\ \A i \in sync.sidecars : SeriesOf(i) \in series' \/ Nameless(SeriesOf(i)) ]_vars

(* What was written into a book stays in it through any refresh or scan    *)
(* as long as its file is there (attach_locks).                            *)
MetadataStays ==
  [][ \A i \in Issue :
        book[i] # None /\ book[i].meta # None /\ book[i].name = disk'[i].pdf.name
          => book'[i] # None /\ book'[i].meta = book[i].meta ]_vars

(* Whatever the publisher serves and the timers fetch is in Komga with its *)
(* metadata in the end, and stays there, if it can be archived at all.     *)
Archivable(i) ==
  owner[i] # "wvj" /\ (Offer[i].full = "file" \/ Parts(Offer[i].articles) # {})
Catalogued ==
  <>[](\A i \in served : Archivable(i) => InKomga(i) /\ book[i].meta = Desired(i))

(* The state is well formed and the archive whole, and what a run reports  *)
(* is so: the announcements of one, the exit status of the other.          *)
ArchiveSound == TypeOK /\ PublishesWhole
ReportsTrue == AnnouncedOnceComplete /\ []CompleteIsAnnounced /\ ExitTellsTheTruth
=============================================================================
