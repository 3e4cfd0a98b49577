--------------------------- MODULE AgentRetention ---------------------------
(***************************************************************************)
(* The daily retention run over what agents leave in a home directory      *)
(* (scripts/ai-retention.py), while the agents go on writing there and one *)
(* of them deletes old transcripts by itself.  A usage row is numbered     *)
(* within its file; a modification time is told by the number of rows, as  *)
(* every write changes both.  A day is the unit of age.                    *)
(*                                                                         *)
(* Left out: dry runs, Hermes (its own database and pruning), log files,   *)
(* empty directories, what is in a row.                                    *)
(***************************************************************************)
EXTENDS Naturals, FiniteSets

CONSTANTS
  Rollouts,    \* Codex rollouts: archived and removed once old
  Transcripts, \* Claude transcripts: archived early, removed by Claude
  Jobs,        \* Claude job directories, each with one transcript
  Days, Ahead, \* old is over Days; early is Ahead days before
  NoFile

ASSUME RetentionAssumption == Days \in Nat /\ Ahead \in 1..Days

VARIABLES
  today,
  there,    \* the files that exist
  rows,     \* how many rows were written to each
  day,      \* the day of the last
  ledger,   \* the rows that can be read in the usage ledger
  tornTail, \* per ledger file: its last line has no end
  saved,    \* archived.json: modification times
  run,      \* the run in progress
  lastRun,  \* the day of the last run that ended
  history,  \* prompt history: <<day, id>>
  todo,     \* last day; writes, prompts, runs, kills that may still happen (bound)
  late,     \* (history) rows written after the run's last look at their file
  glued     \* (history) rows whose line runs into a torn one

retentionVars == <<today, there, rows, day, ledger, tornTail, saved, run, lastRun, history, todo, late, glued>>

File == Rollouts \cup Transcripts \cup Jobs
LedgerOf(f) == IF f \in Rollouts THEN "codex" ELSE "claude"
NoRetention ==
  [pc |-> "off", now |-> 0, left |-> {}, f |-> NoFile, seen |-> 0,
   marks |-> [f \in File |-> 0], lines |-> {}]
RowsOf(f) == {<<f, n>> : n \in 1..rows[f]}
Older(d, days, now) == d + days < now
(* main: the cutoff, and that for files somebody else deletes on it.       *)
CutoffLate == Days
SameCutoff == Days
CutoffEarly == Days - Ahead
-----------------------------------------------------------------------------
(* Agents. *)

(* A row written once the run has read the file that it goes on to remove  *)
(* is lost with it.                                                        *)
AgentWritesRow(f) ==
  /\ todo.writes > 0
  /\ f \in there
  /\ todo' = [todo EXCEPT !.writes = @ - 1]
  /\ rows' = [rows EXCEPT ![f] = @ + 1]
  /\ day' = [day EXCEPT ![f] = today]
  /\ late' = IF run.pc \in {"markcodex", "remove", "removejob"} /\ run.f = f
             THEN late \cup {<<f, rows[f] + 1>>} ELSE late
  /\ UNCHANGED <<today, there, ledger, tornTail, saved, run, lastRun, history, glued>>

AgentPrompts ==
  /\ todo.prompts > 0
  /\ todo' = [todo EXCEPT !.prompts = @ - 1]
  /\ history' = history \cup {<<today, todo.prompts>>}
  /\ UNCHANGED <<today, there, rows, day, ledger, tornTail, saved, run, lastRun, late, glued>>

(* Claude deletes a transcript it has not written for as many days. *)
ClaudeCleansUp(f) ==
  /\ f \in there \cap Transcripts
  /\ Older(day[f], Days, today)
  /\ there' = there \ {f}
  /\ UNCHANGED <<today, rows, day, ledger, tornTail, saved, run, lastRun, history, todo, late, glued>>

(* The timer is daily and persistent: a run ends at least every Ahead days *)
(* on which the agents are in use.                                         *)
Tick ==
  /\ today < todo.days
  /\ today < lastRun + Ahead
  /\ today' = today + 1
  /\ UNCHANGED <<there, rows, day, ledger, tornTail, saved, run, lastRun, history, todo, late, glued>>
-----------------------------------------------------------------------------
(* The run. *)

Go(r) ==
  /\ run' = r
  /\ UNCHANGED <<today, there, rows, day, ledger, tornTail, saved, lastRun, history, todo, late, glued>>

StartRetention ==
  /\ run.pc = "off"
  /\ todo.runs > 0
  /\ todo' = [todo EXCEPT !.runs = @ - 1]
  /\ run' = [NoRetention EXCEPT !.pc = "claude", !.now = today, !.marks = saved,
                                !.left = (Transcripts \cup Jobs) \cap there]
  /\ UNCHANGED <<today, there, rows, day, ledger, tornTail, saved, lastRun, history, late, glued>>

(* A file is old enough by its modification time, which archive notes      *)
(* before it reads the rows.  One that was archived at that time is not    *)
(* archived again, and a rollout goes all the same.                        *)
After(pc) == IF pc = "codex" THEN "remove" ELSE pc
Look(f) ==
  /\ run.pc \in {"claude", "codex"}
  /\ f \in run.left
  /\ LET age == IF run.pc = "claude" THEN CutoffEarly ELSE CutoffLate
         r == [run EXCEPT !.left = @ \ {f}, !.f = f, !.seen = rows[f]]
     IN  Go(CASE f \notin there \/ ~Older(day[f], age, run.now) -> [run EXCEPT !.left = @ \ {f}]
              [] f \in there /\ Older(day[f], age, run.now) /\ run.marks[f] = rows[f] ->
                   [r EXCEPT !.pc = After(run.pc)]
              [] OTHER -> [r EXCEPT !.pc = IF run.pc = "codex" THEN "readcodex" ELSE "readclaude"])

(* The rows are read and appended; a torn line spoils the first.           *)
Appended(f, n) ==
  /\ ledger' = ledger \cup {<<f, k>> : k \in (IF tornTail[LedgerOf(f)] THEN 2 ELSE 1)..n}
  /\ glued' = IF tornTail[LedgerOf(f)] /\ n > 0 THEN glued \cup {<<f, 1>>} ELSE glued
ReadRows ==
  /\ run.pc \in {"readcodex", "readclaude"}
  /\ run.f \in there
  /\ Appended(run.f, rows[run.f])
  /\ tornTail' = [tornTail EXCEPT ![LedgerOf(run.f)] = FALSE]
  /\ run' = [run EXCEPT !.pc = IF run.pc = "readcodex" THEN "markcodex" ELSE "markclaude"]
  /\ UNCHANGED <<today, there, rows, day, saved, lastRun, history, todo, late>>

MarkNow == rows[run.f]
Mark == run.seen
MarkRows ==
  /\ run.pc \in {"markcodex", "markclaude"}
  /\ Go([run EXCEPT !.marks[run.f] = Mark, !.pc = IF run.pc = "markcodex" THEN "remove" ELSE "claude"])

(* Every exception ends the run: Claude deleted the file meanwhile, after  *)
(* the walk listed it or after archive looked at it.                       *)
FileVanished ==
  /\ \/ run.pc = "readclaude" /\ run.f \notin there
     \/ run.pc = "claude" /\ run.left \ there # {}
  /\ Go(NoRetention)

(* Claude's files are through: the job directories. *)
TurnToJobs == run.pc = "claude" /\ run.left = {} /\ Go([run EXCEPT !.pc = "jobs", !.left = Jobs \cap there])
LookAtJob(f) ==
  /\ run.pc = "jobs"
  /\ f \in run.left
  /\ Go([run EXCEPT !.left = @ \ {f}, !.f = f,
           !.pc = IF Older(day[f], CutoffLate, run.now) THEN "removejob" ELSE "jobs"])
TurnToRollouts ==
  run.pc = "jobs" /\ run.left = {} /\ Go([run EXCEPT !.pc = "codex", !.left = Rollouts \cap there])

RemoveFile ==
  /\ run.pc \in {"remove", "removejob"}
  /\ there' = there \ {run.f}
  /\ run' = [run EXCEPT !.pc = IF run.pc = "remove" THEN "codex" ELSE "jobs"]
  /\ UNCHANGED <<today, rows, day, ledger, tornTail, saved, lastRun, history, todo, late, glued>>

(* trim_history: read, and if a line is old, rename the rest over it.      *)
KeptEarly(lines) == {h \in lines : ~Older(h[1], CutoffEarly, run.now)}
KeptLines(lines) == {h \in lines : ~Older(h[1], CutoffLate, run.now)}
ReadHistory ==
  run.pc = "codex" /\ run.left = {} /\ Go([run EXCEPT !.pc = "trim", !.lines = history])
TrimHistory ==
  /\ run.pc = "trim"
  /\ history' = IF KeptLines(run.lines) # run.lines THEN KeptLines(run.lines) ELSE history
  /\ run' = [run EXCEPT !.pc = "save"]
  /\ UNCHANGED <<today, there, rows, day, ledger, tornTail, saved, lastRun, todo, late, glued>>

(* archived.json, for the files that are still there. *)
SaveMarks ==
  /\ run.pc = "save"
  /\ saved' = [f \in File |-> IF f \in there THEN run.marks[f] ELSE 0]
  /\ lastRun' = run.now
  /\ run' = NoRetention
  /\ UNCHANGED <<today, there, rows, day, ledger, tornTail, history, todo, late, glued>>

(* A kill; in the middle of an append some rows are written, and perhaps   *)
(* a part of the next.                                                     *)
KillRetention ==
  /\ run.pc # "off"
  /\ todo.kills > 0
  /\ todo' = [todo EXCEPT !.kills = @ - 1]
  /\ run' = NoRetention
  /\ IF run.pc \in {"readcodex", "readclaude"} /\ run.f \in there
     THEN \E n \in 0..rows[run.f] - 1, torn \in BOOLEAN :
            /\ Appended(run.f, n)
            /\ tornTail' = [tornTail EXCEPT ![LedgerOf(run.f)] = torn \/ (n = 0 /\ @)]
     ELSE UNCHANGED <<ledger, glued, tornTail>>
  /\ UNCHANGED <<today, there, rows, day, saved, lastRun, history, late>>

RetentionInit(limits) ==
  /\ today = 0
  /\ there = File
  /\ rows = [f \in File |-> 1]
  /\ day = [f \in File |-> 0]
  /\ ledger = {}
  /\ tornTail = [k \in {"codex", "claude"} |-> FALSE]
  /\ saved = [f \in File |-> 0]
  /\ run = NoRetention
  /\ lastRun = 0
  /\ history = {<<0, 0>>}
  /\ todo = limits
  /\ late = {}
  /\ glued = {}

RetentionStep ==
  \/ \E f \in File : Look(f) \/ LookAtJob(f)
  \/ ReadRows \/ MarkRows \/ FileVanished \/ TurnToJobs \/ TurnToRollouts
  \/ RemoveFile \/ ReadHistory \/ TrimHistory \/ SaveMarks

RetentionNext ==
  \/ Tick
  \/ \E f \in File : AgentWritesRow(f) \/ ClaudeCleansUp(f)
  \/ AgentPrompts
  \/ StartRetention \/ RetentionStep \/ KillRetention
-----------------------------------------------------------------------------
(* Properties. *)

RetentionTypeOK ==
  /\ there \subseteq File /\ ledger \subseteq File \X Nat
  /\ run.pc \in {"off", "claude", "readclaude", "markclaude", "jobs", "removejob", "codex",
                 "readcodex", "markcodex", "remove", "trim", "save"}
  /\ run.left \subseteq (IF run.pc \in {"codex", "readcodex", "markcodex", "remove"}
                       THEN Rollouts ELSE Transcripts \cup Jobs)
  /\ run.pc \in {"readcodex", "markcodex", "remove"} => run.f \in Rollouts
  /\ \A f \in File : saved[f] <= rows[f]

(* Whoever deletes a transcript, rollout or job - the run, or Claude on    *)
(* its own schedule - its usage is in the ledger: all rows but those       *)
(* written after the run's last look, and those spoilt by a kill in the    *)
(* middle of a line (archive, remove, main).                               *)
UsageSurvives ==
  \A f \in File \ there : RowsOf(f) \subseteq ledger \cup late \cup glued

(* What archived.json, or a run in progress, takes for archived at a       *)
(* modification time is in the ledger up to the rows of that time, though  *)
(* the agent may write between stat and read, and a run may be killed      *)
(* between append and save (Ledger).                                       *)
MarkedIsArchived ==
  \A f \in there :
    {<<f, n>> : n \in 1..saved[f]} \cup {<<f, n>> : n \in 1..run.marks[f]}
      \subseteq ledger \cup glued

(* Prompts leave the history only when they are older than the limit, or   *)
(* came while it was rewritten (trim_history).                             *)
RecentPromptsStay ==
  [][ \A h \in history \ history' : Older(h[1], Days, today) \/ h \notin run.lines ]_retentionVars
=============================================================================
