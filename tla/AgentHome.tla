----------------------------- MODULE AgentHome -----------------------------
(***************************************************************************)
(* What the configuration keeps up in the home directory of an agent's     *)
(* user: the managed parts of the agents' own files (ManagedFile), at each *)
(* activation, and what agents leave behind (AgentRetention), every day.   *)
(* They write different files; a behaviour has budgets for one of them.    *)
(***************************************************************************)
EXTENDS ManagedFile, AgentRetention

CONSTANT Limits   \* of the retention runs: days, writes, prompts, runs, kills

ASSUME LimitsAssumption ==
  Limits \subseteq [days : Nat, writes : Nat, prompts : Nat, runs : Nat, kills : Nat]

homeVars == <<fileVars, retentionVars>>

Init ==
  /\ FileInit
  /\ \E limits \in Limits : RetentionInit(limits)
  /\ left.starts = 0 \/ todo.days = 0

Next ==
  \/ FileNext /\ UNCHANGED retentionVars
  \/ RetentionNext /\ UNCHANGED fileVars

Spec == Init /\ [][Next]_homeVars

(* Who holds the lock is at work behind it, a run is in the one phase its  *)
(* files belong to, and no mark is newer than its file.                    *)
TypeOK == FileTypeOK /\ RetentionTypeOK

(* What the user and the agents wrote next to the managed parts is kept,   *)
(* and no usage is lost when its file goes.                                *)
FilesSound == TypeOK /\ UsersTextStays
UsageKept == UsageSurvives /\ MarkedIsArchived
=============================================================================
