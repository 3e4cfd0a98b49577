--------------------------- MODULE MagazineArchive ---------------------------
(***************************************************************************)
(* The magazine archivers: scripts/gwm-archiver.py, which two timers start *)
(* as "current" (weekly) and "backfill" (quarterly), and its one-shot      *)
(* relative scripts/wvj-archive.py ("wvj").  A run walks the issues its    *)
(* mode owns and leaves for each a PDF and, next to it, a JSON sidecar     *)
(* with the table of contents.  What is on disk is all a run remembers of  *)
(* the ones before it.                                                     *)
(*                                                                         *)
(* Abstracted: slugs, dates and titles (an issue is a model value), page   *)
(* ranges and keywords (a table of contents is the set of article numbers  *)
(* it describes), credentials, sleeps, logging, LIMIT and DRY_RUN (both    *)
(* off in the units).                                                      *)
(***************************************************************************)
EXTENDS Naturals, Sequences, FiniteSets

CONSTANTS
  Index,       \* the publisher's archive index: a sequence of issues, oldest first
  Owners,      \* the owners to choose from: which mode owns which issue
  Offer,       \* what the publisher serves of an issue once it serves it
  SampleSize,  \* how many missing historical issues a backfill probes first
  MaxFaults,   \* bound on failures, kills and reboots
  None

Mode == {"current", "backfill", "wvj"}
Issue == {Index[k] : k \in DOMAIN Index}
Article(i) == DOMAIN Offer[i].articles
EmptyFailFast == 2

(* An offer has a FULL ISSUE link to a file, to an empty file, or no such  *)
(* link, and article pages with a PDF, an empty one, or no download form.  *)
OfferType ==
  [full : {"file", "empty", "none"}, articles : Seq({"pdf", "empty", "noform"})]

ASSUME IndexAssumption ==
  Index \in Seq(Issue) /\ \A j, k \in DOMAIN Index : Index[j] = Index[k] => j = k
ASSUME OwnersAssumption == Owners \subseteq [Issue -> Mode]
ASSUME OfferAssumption == \A i \in Issue : Offer[i] \in OfferType
ASSUME BoundsAssumption == SampleSize \in Nat \ {0} /\ MaxFaults \in Nat

VARIABLES
  owner,      \* the mode that owns an issue: "current", "backfill" or "wvj"; fixed
  served,     \* the issues whose files the publisher serves
  disk,       \* per issue, the PDF and the sidecar on the shared directory
  job,        \* the archiver run in progress
  announced,  \* the issues whose NEW_ISSUE line reached the pickup hook
  unheard,    \* (history) the issues whose NEW_ISSUE line a kill lost
  faults      \* failures so far (bound)

archiveVars == <<owner, served, disk, job, announced, unheard, faults>>

(* The name of a PDF tells a download from a merge; "DOWNLOADING" is the   *)
(* name wvj-archive downloads to, which ends in .pdf too.  A file under a  *)
(* name that is no PDF's (.part, .download) is staged.                     *)
Pdf == [name : {"full", "synthetic", "DOWNLOADING"}, whole : BOOLEAN]

(* What a directory holds of an issue: the PDF, the sidecar, the staged    *)
(* file (whether it is whole), and, as history, whether a body that told   *)
(* no length was cut short on its way into one of them.                    *)
Nothing == [pdf |-> None, sidecar |-> None, staged |-> None, unsized |-> FALSE]

ASSUME NoneAssumption ==
  /\ None \notin Issue \cup Mode \cup Pdf \cup BOOLEAN
  /\ \A i \in Issue : \A contents \in SUBSET Article(i) : contents # None

NoRun ==
  [ mode |-> None, pc |-> "off", queue |-> <<>>, held |-> <<>>, cur |-> None,
    page |-> None, fresh |-> FALSE, records |-> None, status |-> None,
    listed |-> {}, printed |-> {}, absent |-> {}, error |-> FALSE ]

Complete(i) == disk[i].pdf # None /\ disk[i].sidecar # None

Fault == faults < MaxFaults /\ faults' = faults + 1
NoFault == faults' = faults
FaultIf(p) == IF p THEN Fault ELSE NoFault

(* What can go wrong with one request: a blip that another attempt gets    *)
(* past, an outage that outlasts every attempt, a body cut short of the    *)
(* length it came with, a body without a length cut short, or cut off      *)
(* before its first byte.                                                  *)
Trouble == {"ok", "blip", "outage", "short", "unsized", "void"}
-----------------------------------------------------------------------------
(* The publisher (external). *)

Listed(i) == owner[i] = "backfill" \/ i \in served

(* A new issue comes out.                                                  *)
PublishIssue(i) ==
  /\ owner[i] # "backfill"
  /\ i \notin served
  /\ served' = served \cup {i}
  /\ UNCHANGED <<owner, disk, job, announced, unheard, faults>>

(* The files of before July 2017 come back, all at once: their absence is  *)
(* one archive-wide outage.                                                *)
RestoreArchive ==
  /\ {i \in Issue : owner[i] = "backfill"} \ served # {}
  /\ served' = served \cup {i \in Issue : owner[i] = "backfill"}
  /\ UNCHANGED <<owner, disk, job, announced, unheard, faults>>

(* The page of an issue as it arrived, which a run fetches once: whether   *)
(* the link to the full issue is on it, and the articles listed.           *)
WholePage(i) == [link |-> TRUE, articles |-> Article(i)]
IssuePages(i) == [link : BOOLEAN, articles : {1..n : n \in 0..Len(Offer[i].articles)}]

FullIssue(i, page) == IF i \in served /\ page.link THEN Offer[i].full ELSE "none"
ArticlePage(i, k) == IF i \in served THEN Offer[i].articles[k] ELSE "noform"

(* Whether a request fails for good.  gwm-archiver replays it four times   *)
(* and takes a body short of its Content-Length for an interrupted one;    *)
(* wvj-archive asks once and keeps what it got.  Without a Content-Length  *)
(* what came before the connection closed is the body.                     *)
RequestFails(mode, t) ==
  IF mode = "wvj" THEN t \in {"blip", "outage"} ELSE t = "outage"
BodyAsReceived(mode, t) == t \notin {"short", "unsized"}
BodyWhole(mode, t) == t # "unsized" /\ (mode = "wvj" => t # "short")
-----------------------------------------------------------------------------
(* A run.                                                                  *)

Reversed(s) == [k \in DOMAIN s |-> s[Len(s) + 1 - k]]

(* Those of a sequence that are in a set, in their order. *)
Within(s, c) ==
  LET upTo[n \in 0..Len(s)] ==
        IF n = 0 THEN <<>>
        ELSE IF s[n] \in c THEN Append(upTo[n - 1], s[n]) ELSE upTo[n - 1]
  IN  upTo[Len(s)]

(* The issues of a mode on the index; of those its page listed as it       *)
(* arrived, gwm-archiver takes the newest first, wvj-archive the order of  *)
(* the page.                                                               *)
Own(mode) == {i \in Issue : Listed(i) /\ owner[i] = mode}
GwmIssues(listed) == Within(Reversed(Index), listed)
WvjIssues(listed) == Within(Index, listed)

Missing(s) == Within(s, {i \in Issue : ~Complete(i)})

Least(m, n) == IF m < n THEN m ELSE n

(* The random part of the missing issues to probe first, and the rest.     *)
Samples(s) == {c \in SUBSET {s[n] : n \in DOMAIN s} : Cardinality(c) = Least(SampleSize, Len(s))}
WithoutAny(s, c) == <<>>
Without(s, c) == Within(s, Issue \ c)
SplitBackfillSample(s) == {<<Within(s, c), Without(s, c)>> : c \in Samples(s)}

(* What a run will walk now, and what a backfill holds back.               *)
Queues(mode, listed) ==
  CASE mode = "wvj" -> {<<WvjIssues(listed), <<>>>>}
    [] mode = "current" -> {<<GwmIssues(listed), <<>>>>}
    [] mode = "backfill" -> SplitBackfillSample(Missing(GwmIssues(listed)))

(* A timer, or for wvj somebody, starts a run.  A login or an index that   *)
(* cannot be had, or an empty index, ends it before it changed anything; a *)
(* page of the index cut short lists some of the issues.  Runs of two      *)
(* modes own disjoint issues and share nothing else, so the model lets one *)
(* run end before the next begins.                                         *)
StartRun(mode) ==
  /\ job.mode = None
  /\ \E listed \in (SUBSET Own(mode)) \ {{}} :
       /\ FaultIf(listed # Own(mode))
       /\ \E queues \in Queues(mode, listed) :
            job' = [NoRun EXCEPT !.mode = mode, !.pc = "next", !.listed = listed,
                                 !.queue = queues[1], !.held = queues[2]]
  /\ UNCHANGED <<owner, served, disk, announced, unheard>>

Report(status) == [job EXCEPT !.pc = "report", !.status = status]

(* process_issue looks at what is there already; what is incomplete needs  *)
(* the page of the issue.                                                  *)
TakeIssue ==
  /\ job.pc = "next"
  /\ job.queue # <<>>
  /\ LET i == Head(job.queue)
         taken == [job EXCEPT !.queue = Tail(@), !.cur = i, !.fresh = disk[i].pdf = None,
                              !.records = None]
     IN  \/ /\ Complete(i)
            /\ NoFault
            /\ job' = [taken EXCEPT !.pc = "report", !.status = "skip-complete"]
         \/ /\ ~Complete(i)
            /\ \E page \in IssuePages(i) :
                 /\ FaultIf(page # WholePage(i))
                 /\ job' = [taken EXCEPT !.page = page,
                               !.pc = IF disk[i].pdf = None THEN "full" ELSE "sidecar"]
         \/ /\ ~Complete(i)
            /\ Fault
            /\ job' = [taken EXCEPT !.pc = "report", !.status = "error"]
  /\ UNCHANGED <<owner, served, disk, announced, unheard>>

(* download_full_issue: the link and the form, and a file to stage in ...  *)
FindFullIssue ==
  /\ job.pc = "full"
  /\ LET i == job.cur
         link == FullIssue(i, job.page)
     IN  \/ /\ link = "none"
            /\ NoFault
            /\ job' = [job EXCEPT !.pc = "articles"]
            /\ disk' = disk
         \/ /\ link # "none"
            /\ NoFault
            /\ job' = [job EXCEPT !.pc = "download"]
            /\ disk' = [disk EXCEPT ![i] = [@ EXCEPT !.staged = FALSE, !.unsized = FALSE]]
         \/ /\ link # "none"
            /\ Fault
            /\ job' = Report("error")
            /\ disk' = disk
  /\ UNCHANGED <<owner, served, announced, unheard>>

(* ... the body, which gwm-archiver leaves staged and wvj-archive gives a  *)
(* name that is a PDF's, unless it is empty or the request failed ...      *)
DownloadFullIssue ==
  /\ job.pc = "download"
  /\ \E t \in Trouble :
       LET i == job.cur
           whole == BodyWhole(job.mode, t)
           bare == [disk[i] EXCEPT !.staged = None]
       IN  /\ FaultIf(t # "ok")
           /\ \/ /\ RequestFails(job.mode, t)
                 /\ job' = Report("error")
                 /\ disk' = [disk EXCEPT ![i] = bare]
              \/ /\ ~RequestFails(job.mode, t)
                 /\ FullIssue(i, job.page) # "file" \/ t = "void"
                 /\ job' = [job EXCEPT !.pc = "articles"]
                 /\ disk' = [disk EXCEPT ![i] = bare]
              \/ /\ ~RequestFails(job.mode, t)
                 /\ FullIssue(i, job.page) = "file" /\ t # "void"
                 /\ job' = [job EXCEPT !.pc = "rename"]
                 /\ disk' = [disk EXCEPT ![i] =
                       IF job.mode = "wvj"
                       THEN [bare EXCEPT !.pdf = [name |-> "DOWNLOADING", whole |-> whole]]
                       ELSE [@ EXCEPT !.staged = whole, !.unsized = t = "unsized"]]
  /\ UNCHANGED <<owner, served, announced, unheard>>

(* ... and the rename to its final name.                                   *)
RenameStaged ==
  /\ job.pc = "rename"
  /\ LET i == job.cur
         whole == IF job.mode = "wvj" THEN disk[i].pdf.whole ELSE disk[i].staged
     IN  disk' = [disk EXCEPT ![i] =
                   [@ EXCEPT !.pdf = [name |-> "full", whole |-> whole], !.staged = None]]
  /\ job' = [job EXCEPT !.pc = "sidecar"]
  /\ UNCHANGED <<owner, served, announced, unheard, faults>>

(* What walking the articles in order comes to, got[k] being "pdf",        *)
(* "empty", "noform" or "raised": two bad ones before any good one mean    *)
(* the files were purged, an exception before that ends the issue, and     *)
(* otherwise the good ones are merged.                                     *)
Purged(got) ==
  Len(got) >= EmptyFailFast /\ \A k \in 1..EmptyFailFast : got[k] \in {"empty", "noform"}
Raises(got) == ~Purged(got) /\ \E k \in DOMAIN got : got[k] = "raised"
Parts(got) == IF Purged(got) THEN {} ELSE {k \in DOMAIN got : got[k] = "pdf"}

(* The articles of the page in order, one of which may be without its form *)
(* or body because a page or a body without a length was cut short, or not *)
(* be had at all, which ends the issue in gwm-archiver; in wvj-archive a   *)
(* page that cannot be fetched counts as one without a form.               *)
Walks(i, page) ==
  LET got == [k \in page.articles |-> ArticlePage(i, k)]
  IN  {got} \cup {[got EXCEPT ![k] = r] : k \in page.articles, r \in {"raised", "noform"}}

SynthesiseFromArticles ==
  /\ job.pc = "articles"
  /\ \E got \in Walks(job.cur, job.page) :
       /\ FaultIf(got # [k \in job.page.articles |-> ArticlePage(job.cur, k)])
       /\ job' = CASE Raises(got) -> Report("error")
                   [] ~Raises(got) /\ Parts(got) = {} ->
                        Report(IF job.mode = "current" THEN "error" ELSE "no-pdf")
                   [] OTHER -> [job EXCEPT !.pc = "merge", !.records = Parts(got)]
  /\ UNCHANGED <<owner, served, disk, announced, unheard>>

(* qpdf_merge writes the merged PDF under its final name ...               *)
BeginMerge ==
  /\ job.pc = "merge"
  /\ disk' = [disk EXCEPT ![job.cur].pdf = [name |-> "synthetic", whole |-> FALSE]]
  /\ job' = [job EXCEPT !.pc = "merging"]
  /\ UNCHANGED <<owner, served, announced, unheard, faults>>

(* ... and is done, or gives up - also on warnings about a file it wrote.  *)
EndMerge ==
  /\ job.pc = "merging"
  /\ \E ok, whole \in BOOLEAN :
       /\ ok => whole
       /\ FaultIf(~ok)
       /\ disk' = [disk EXCEPT ![job.cur].pdf.whole = whole]
       /\ job' = IF ok THEN [job EXCEPT !.pc = "sidecar"] ELSE Report("error")
  /\ UNCHANGED <<owner, served, announced, unheard>>

Status ==
  IF ~job.fresh THEN "sidecar-only"
  ELSE IF disk[job.cur].pdf.name = "synthetic" THEN "synthesised" ELSE "downloaded"

(* What the walk over the article pages comes to list: a page cut short    *)
(* without a length says nothing of its article, and one that cannot be    *)
(* fetched ends the issue in gwm-archiver and leaves a hole in wvj-archive.*)
PageEnds(mode, t) == mode # "wvj" /\ t = "outage"
Gaps(page) == {{}} \cup {{k} : k \in page.articles}

(* The sidecar is made from the records of the merge, if this run has      *)
(* them, or from the article pages, and renamed into place last.  exiftool *)
(* has by then rewritten the PDF in place, changing no page of it; where   *)
(* it fails, so does the issue.                                            *)
SaveSidecar(toc, unsized) ==
  LET i == job.cur
  IN  /\ job' = Report(Status)
      /\ disk' = IF disk[i].sidecar = None
                 THEN [disk EXCEPT ![i] = [@ EXCEPT !.sidecar = toc, !.unsized = disk[i].unsized \/ unsized]]
                 ELSE disk

WriteSidecar ==
  /\ job.pc = "sidecar"
  /\ \/ /\ job.records # None
        /\ NoFault
        /\ SaveSidecar(job.records, FALSE)
     \/ /\ job.records = None
        /\ \E t \in {"ok", "outage", "unsized"}, gap \in Gaps(job.page) :
             /\ t = "ok" <=> gap = {}
             /\ ~PageEnds(job.mode, t)
             /\ FaultIf(t # "ok")
             /\ SaveSidecar(job.page.articles \ gap,
                            t = "unsized" \/ job.page.articles # Article(job.cur))
     \/ /\ Fault
        /\ job' = Report("error")
        /\ disk' = disk
  /\ UNCHANGED <<owner, served, announced, unheard>>

RecoveredOrThere == {"downloaded", "synthesised", "sidecar-only", "skip-complete"}
Recovered == {"downloaded", "synthesised", "sidecar-only"}

(* The main loop's end: the NEW_ISSUE line, the error count, and the       *)
(* release of the gaps held back once one of them is recovered.            *)
ReportIssue ==
  /\ job.pc = "report"
  /\ LET hit == job.mode # "wvj" /\ job.status \in Recovered
     IN  job' = [job EXCEPT !.pc = "next", !.cur = None, !.page = None, !.status = None,
                            !.printed = IF hit THEN @ \cup {job.cur} ELSE @,
                            !.absent = IF job.status = "no-pdf" THEN @ \cup {job.cur} ELSE @,
                            !.error = @ \/ job.status = "error",
                            !.queue = IF hit THEN @ \o job.held ELSE @,
                            !.held = IF hit THEN <<>> ELSE @]
  /\ UNCHANGED <<owner, served, disk, announced, unheard, faults>>

(* The hook runs on either outcome and picks up the lines printed. *)
FinishRun ==
  /\ job.pc = "next"
  /\ job.queue = <<>>
  /\ announced' = announced \cup job.printed
  /\ job' = NoRun
  /\ UNCHANGED <<owner, served, disk, unheard, faults>>

(* The line of an issue that is on disk and not printed yet: main prints   *)
(* it after process_issue returned.                                        *)
Unprinted ==
  IF job.mode # "wvj" /\ job.pc = "report" /\ job.status \in Recovered THEN {job.cur} ELSE {}

(* systemd's timeout kills the run and starts the hook. *)
RunTimesOut ==
  /\ job.mode # None
  /\ Fault
  /\ announced' = announced \cup job.printed
  /\ unheard' = unheard \cup Unprinted
  /\ job' = NoRun
  /\ UNCHANGED <<owner, served, disk>>

ArchiveInit ==
  /\ owner \in Owners
  /\ served = {}
  /\ disk = [i \in Issue |-> Nothing]
  /\ job = NoRun
  /\ announced = {}
  /\ unheard = {}
  /\ faults = 0

RunStep ==
  \/ TakeIssue \/ FindFullIssue \/ DownloadFullIssue \/ RenameStaged \/ SynthesiseFromArticles
  \/ BeginMerge \/ EndMerge \/ WriteSidecar \/ ReportIssue \/ FinishRun

ArchiveNext ==
  \/ \E i \in Issue : PublishIssue(i)
  \/ RestoreArchive
  \/ \E mode \in Mode : StartRun(mode)
  \/ RunStep
  \/ RunTimesOut

ArchiveTypeOK ==
  /\ owner \in Owners
  /\ served \subseteq Issue
  /\ \A i \in Issue :
       /\ disk[i].pdf \in Pdf \cup {None}
       /\ disk[i].sidecar \in (SUBSET Article(i)) \cup {None}
       /\ disk[i].staged \in BOOLEAN \cup {None}
  /\ job.mode \in Mode \cup {None}
  /\ job.cur \in Issue \cup {None}
  /\ job.printed \subseteq Issue
  /\ announced \subseteq Issue
  /\ unheard \subseteq Issue
  /\ faults \in 0..MaxFaults
=============================================================================
