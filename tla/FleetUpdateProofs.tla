-------------------------- MODULE FleetUpdateProofs --------------------------
(***************************************************************************)
(* Theorems of FleetUpdate, for every history, every set of origins and    *)
(* invocations, and every behaviour of the forges and of the environment.  *)
(***************************************************************************)
EXTENDS FleetUpdate, TLAPS

(* The locals an invocation relies on from one step to the next.           *)
Selected == {"anchor", "classify", "beat", "highest", "marker", "preflight",
             "switch", "record"}
Approved == {"beat", "highest", "marker", "preflight", "switch", "record"}

LocalOK(l) ==
  /\ l.pc # "idle" => l.opt \in Options
  /\ l.pc = "fetch" => l.next >= 1
  /\ l.pc \in Selected => l.target \in Commit
  /\ l.pc = "classify" => l.anchor \in Commit
  /\ l.pc \in {"highest", "marker"} => Object[l.target].heartbeat # None

LocalsOK == \A r \in Run : LocalOK(run[r])

TypeInv == TypeOK /\ LocalsOK

-----------------------------------------------------------------------------
(* Facts about the constants, cited by name below.                         *)

(* The origins are a sequence of at least one origin, and the write root   *)
(* is one.                                                                 *)
LEMMA OriginFacts ==
  /\ Len(Origins) \in Nat /\ Len(Origins) >= 1
  /\ \A i \in 1..Len(Origins) : Origins[i] \in Origin
  /\ WriteRoot \in Origin
BY FleetUpdateAssumption DEF FleetUpdateAssumption, Origin

(* What a commit reaches, lists and says is of the history.                *)
LEMMA CommitFacts ==
  ASSUME NEW c \in Commit
  PROVE  /\ c # None
         /\ c \in Reach[c] /\ Reach[c] \subseteq Commit
         /\ Object[c].listed \subseteq Key
         /\ Object[c].heartbeat # None =>
              /\ Object[c].heartbeat.by \in Commit
              /\ Object[c].heartbeat.epoch \in Nat
BY HistoryAssumption DEF HistoryAssumption, CommitObject, Heartbeat

(* A command line names commits, and one of the branches.                  *)
LEMMA OptionFacts ==
  ASSUME NEW opt \in Options
  PROVE  /\ opt.rev \in CommitOrNone /\ opt.acceptNewRoot \in CommitOrNone
         /\ opt.branch \in Branch
BY FleetUpdateAssumption DEF FleetUpdateAssumption, CommandLine

-----------------------------------------------------------------------------
(* Type correctness.                                                       *)

(* An invocation that is over has well typed locals.                       *)
LEMMA ExitedType ==
  ASSUME NEW e \in {"0", "1", "tamper", "killed"}
  PROVE  Exited(e) \in RunState /\ LocalOK(Exited(e)) /\ Exited(e).pc = "idle"
BY OriginFacts, FleetUpdateAssumption
  DEF Exited, RunState, NoCandidates, CommitOrNone, PC, LocalOK, Selected,
      FleetUpdateAssumption

(* A step of r that leaves it well-typed locals leaves all locals so.      *)
LEMMA LocalStep ==
  ASSUME TypeInv, NEW r \in Run, NEW l \in RunState, LocalOK(l),
         run' = [run EXCEPT ![r] = l]
  PROVE  run' \in [Run -> RunState] /\ LocalsOK'
BY DEF TypeInv, TypeOK, LocalsOK

(* So a step that ends an invocation keeps the locals typed.               *)
LEMMA ExitStep ==
  ASSUME TypeInv, NEW r \in Run, NEW e \in {"0", "1", "tamper", "killed"},
         Exit(r, e)
  PROVE  run' \in [Run -> RunState] /\ LocalsOK'
BY ExitedType, LocalStep DEF Exit

(* Advancing the program counter needs what the next step relies on.       *)
LEMMA GotoStep ==
  ASSUME TypeInv, NEW r \in Run, NEW pc \in PC, Goto(r, pc),
         LocalOK([run[r] EXCEPT !.pc = pc])
  PROVE  run' \in [Run -> RunState] /\ LocalsOK'
<1>1. [run[r] EXCEPT !.pc = pc] \in RunState
  BY DEF TypeInv, TypeOK, RunState
<1>2. run' = [run EXCEPT ![r] = [run[r] EXCEPT !.pc = pc]]
  BY DEF Goto, TypeInv, TypeOK
<1> QED
  BY <1>1, <1>2, LocalStep

(* As does the step past the freshness marker, to the switch or out.       *)
LEMMA AfterFreshnessStep ==
  ASSUME TypeInv, NEW r \in Run, run[r].pc \in Approved, AfterFreshness(r)
  PROVE  run' \in [Run -> RunState] /\ LocalsOK'
<1>1. LocalOK([run[r] EXCEPT !.pc = "preflight"])
  BY DEF TypeInv, TypeOK, LocalsOK, LocalOK, RunState, Selected, Approved
<1> QED
  BY <1>1, ExitStep, GotoStep DEF AfterFreshness, PC

(* At the start everything is typed.                                       *)
LEMMA InitTypeInv == Init => TypeInv
<1> SUFFICES ASSUME Init PROVE TypeInv
  OBVIOUS
<1>1. run \in [Run -> RunState] /\ LocalsOK
  BY ExitedType DEF Init, LocalsOK
<1>2. TypeOK
  BY <1>1, CommitFacts, FleetUpdateAssumption
    DEF Init, TypeOK, CommitOrNone, FleetUpdateAssumption
<1> QED
  BY <1>1, <1>2 DEF TypeInv

(* Every step keeps it so: one case for each action.                       *)
LEMMA NextTypeInv == TypeInv /\ [Next]_vars => TypeInv'
<1> SUFFICES ASSUME TypeInv, [Next]_vars PROVE TypeInv'
  OBVIOUS
<1> DEFINE RunOK == run' \in [Run -> RunState] /\ LocalsOK'
<1> USE DEF TypeInv
<1>1. ASSUME NEW r \in Run, Start(r) PROVE TypeInv'
  <2>1. PICK opt \in Options :
          run' = [run EXCEPT ![r] =
                    [Exited("1") EXCEPT !.pc = "clone", !.opt = opt]]
    BY <1>1 DEF Start
  <2>2. LET l == [Exited("1") EXCEPT !.pc = "clone", !.opt = opt]
        IN  l \in RunState /\ LocalOK(l)
    BY ExitedType DEF RunState, PC, LocalOK, Selected
  <2>3. RunOK
    BY <2>1, <2>2, LocalStep
  <2> QED
    BY <1>1, <2>3 DEF Start, TypeOK, repo, files, history
<1>2. ASSUME NEW r \in Run, Clone(r) PROVE TypeInv'
  <2> DEFINE l == [run[r] EXCEPT !.pc = "fetch", !.next = 1]
  <2>1. run[r] \in RunState /\ run[r].opt \in Options
    BY <1>2 DEF TypeOK, LocalsOK, LocalOK, Clone
  <2>2. 1 \in 0..(Len(Origins) + 1)
    BY OriginFacts
  <2>3. l \in RunState
    BY <2>1, <2>2 DEF RunState, PC
  <2>4. LocalOK(l)
    BY <2>1 DEF RunState, LocalOK, Selected
  <2>5. RunOK
    <3>1. CASE Exit(r, "0")
      BY <3>1, ExitStep
    <3>2. CASE run' = [run EXCEPT ![r].pc = "fetch", ![r].next = 1]
      <4>1. run' = [run EXCEPT ![r] = l]
        BY <3>2 DEF TypeOK
      <4> QED
        BY <2>3, <2>4, <4>1, LocalStep
    <3> QED
      BY <1>2, <3>1, <3>2 DEF Clone
  <2>6. objects' \subseteq Commit
    BY <1>2, CommitFacts, OptionFacts
      DEF Clone, TypeOK, LocalsOK, LocalOK, CommitOrNone, Objects
  <2> QED
    BY <1>2, <2>5, <2>6 DEF Clone, TypeOK, files, history
<1>3. ASSUME NEW r \in Run, FetchOk(r) PROVE TypeInv'
  <2> DEFINE o == Origins[run[r].next]
             tip == origin[o][run[r].opt.branch]
             l == [run[r] EXCEPT !.candidate[o] = tip, !.next = @ + 1]
  <2>0. /\ run[r] \in RunState /\ run[r].opt \in Options
        /\ run[r].next \in 1..Len(Origins) /\ run[r].pc = "fetch"
    BY <1>3, OriginFacts DEF TypeOK, LocalsOK, LocalOK, FetchOk, RunState
  <2>1. o \in Origin /\ run[r].opt.branch \in Branch /\ tip \in Commit
    BY <1>3, <2>0, OriginFacts, OptionFacts DEF TypeOK, FetchOk, CommitOrNone
  <2>2. l \in RunState /\ LocalOK(l)
    <3>1. run[r].next + 1 \in 0..(Len(Origins) + 1) /\ run[r].next + 1 >= 1
      BY <2>0, OriginFacts
    <3>2. [run[r].candidate EXCEPT ![o] = tip] \in [Origin -> CommitOrNone]
      BY <2>0, <2>1 DEF RunState, CommitOrNone
    <3>3. l = [run[r] EXCEPT !.candidate = [@ EXCEPT ![o] = tip], !.next = @ + 1]
      BY <2>0 DEF RunState
    <3>4. l \in RunState
      BY <2>0, <3>1, <3>2, <3>3 DEF RunState
    <3> QED
      BY <2>0, <3>1, <3>3, <3>4 DEF LocalOK, RunState, Selected
  <2>3. run' = [run EXCEPT ![r] = l]
    BY <1>3 DEF FetchOk, TypeOK
  <2>4. RunOK
    BY <2>2, <2>3, LocalStep
  <2>5. objects' \subseteq Commit
    BY <1>3, <2>1, CommitFacts DEF FetchOk, TypeOK, Objects
  <2>6. remote' \in [Origin -> [Branch -> CommitOrNone]]
    BY <1>3, <2>1 DEF FetchOk, TypeOK, CommitOrNone
  <2> QED
    BY <1>3, <2>4, <2>5, <2>6 DEF FetchOk, TypeOK, files, history
<1>4. ASSUME NEW r \in Run, FetchFails(r) PROVE TypeInv'
  <2> DEFINE l == [run[r] EXCEPT !.next = @ + 1]
  <2>1. run[r] \in RunState /\ LocalOK(run[r]) /\ run[r].next <= Len(Origins)
    BY <1>4 DEF TypeOK, LocalsOK, FetchFails
  <2>2. l \in RunState /\ LocalOK(l)
    BY <1>4, <2>1, OriginFacts DEF RunState, LocalOK, FetchFails, Selected
  <2>3. run' = [run EXCEPT ![r] = l]
    BY <1>4 DEF FetchFails, TypeOK
  <2>4. RunOK
    BY <2>2, <2>3, LocalStep
  <2> QED
    BY <1>4, <2>4 DEF FetchFails, TypeOK, repo, files, history
<1>5. ASSUME NEW r \in Run, Fetched(r) PROVE TypeInv'
  <2>1. LocalOK([run[r] EXCEPT !.pc = "tips"])
    BY <1>5 DEF Fetched, TypeOK, RunState, LocalsOK, LocalOK, Selected
  <2>2. RunOK
    BY <1>5, <2>1, ExitStep, GotoStep DEF Fetched, PC
  <2> QED
    BY <1>5, <2>2 DEF Fetched, TypeOK, repo, files, history
<1>6. ASSUME NEW r \in Run, VerifyTips(r) PROVE TypeInv'
  <2>1. LocalOK([run[r] EXCEPT !.pc = "select"])
    BY <1>6 DEF VerifyTips, TypeOK, RunState, LocalsOK, LocalOK, Selected
  <2>2. RunOK
    BY <1>6, <2>1, ExitStep, GotoStep DEF VerifyTips, PC
  <2> QED
    BY <1>6, <2>2 DEF VerifyTips, TypeOK, repo, history
<1>7. ASSUME NEW r \in Run, SelectTarget(r) PROVE TypeInv'
  <2>1. CASE \E e \in {"0", "tamper"} : Exit(r, e)
    BY <1>7, <2>1, ExitStep DEF SelectTarget, TypeOK, repo, files, history
  <2>2. CASE \E target \in Selectable(r) :
               run' = [run EXCEPT ![r].pc = "anchor", ![r].target = target]
    <3>1. PICK t \in Selectable(r) :
            run' = [run EXCEPT ![r].pc = "anchor", ![r].target = t]
      BY <2>2
    <3> DEFINE l == [run[r] EXCEPT !.pc = "anchor", !.target = t]
    <3>2. run[r] \in RunState /\ run[r].opt \in Options
      BY <1>7 DEF TypeOK, LocalsOK, LocalOK, SelectTarget
    <3>3. t \in Commit
      BY <3>2 DEF Selectable, MostAdvanced, Candidates, TypeOK, RunState,
                  CommitOrNone
    <3>4. l \in RunState /\ LocalOK(l)
      BY <3>2, <3>3 DEF RunState, PC, LocalOK, Selected, CommitOrNone
    <3>5. RunOK
      BY <3>1, <3>4, LocalStep DEF TypeOK
    <3> QED
      BY <1>7, <3>5 DEF SelectTarget, TypeOK, repo, files, history
  <2> QED
    BY <1>7, <2>1, <2>2 DEF SelectTarget
<1>8. ASSUME NEW r \in Run, ReadAnchor(r) PROVE TypeInv'
  <2>0. run[r] \in RunState /\ LocalOK(run[r]) /\ run[r].pc = "anchor"
    BY <1>8 DEF TypeOK, LocalsOK, ReadAnchor
  <2>1. CASE Exit(r, "tamper") /\ UNCHANGED accepted
    BY <1>8, <2>1, ExitStep DEF ReadAnchor, TypeOK, repo, files
  <2>2. CASE \E c \in Commit :
               /\ run' = [run EXCEPT ![r].pc = "classify", ![r].anchor = c]
               /\ accepted' \in {accepted, accepted \cup Reach[c]}
    <3>1. PICK c \in Commit :
            /\ run' = [run EXCEPT ![r].pc = "classify", ![r].anchor = c]
            /\ accepted' \in {accepted, accepted \cup Reach[c]}
      BY <2>2
    <3> DEFINE l == [run[r] EXCEPT !.pc = "classify", !.anchor = c]
    <3>2. l \in RunState /\ LocalOK(l)
      BY <2>0 DEF RunState, PC, LocalOK, Selected, CommitOrNone
    <3>3. RunOK
      BY <3>1, <3>2, LocalStep DEF TypeOK
    <3> QED
      BY <1>8, <3>1, <3>3, CommitFacts DEF ReadAnchor, TypeOK, repo, files
  <2>3. run[r].opt.acceptNewRoot \in CommitOrNone /\ Anchor \in CommitOrNone
    BY <2>0, OptionFacts DEF LocalOK, Anchor, TypeOK
  <2> QED
    BY <1>8, <2>1, <2>2, <2>3 DEF ReadAnchor, CommitOrNone
<1>9. ASSUME NEW r \in Run, Classify(r) PROVE TypeInv'
  <2>0. run[r] \in RunState /\ LocalOK(run[r]) /\ run[r].pc = "classify"
    BY <1>9 DEF TypeOK, LocalsOK, Classify
  <2>1. ASSUME NEW e \in {"0", "tamper"}, Exit(r, e) PROVE RunOK
    BY <2>1, ExitStep
  <2>2. ASSUME NEW kind \in {"noop", "deploy"},
               run' = [run EXCEPT ![r].pc = "beat", ![r].action = kind]
        PROVE  RunOK
    <3> DEFINE l == [run[r] EXCEPT !.pc = "beat", !.action = kind]
    <3>1. l \in RunState /\ LocalOK(l)
      BY <2>0 DEF RunState, PC, LocalOK, Selected
    <3> QED
      BY <2>2, <3>1, LocalStep DEF TypeOK
  <2> QED
    BY <1>9, <2>1, <2>2 DEF Classify, TypeOK, repo, files, history
<1>10. ASSUME NEW r \in Run, ReadHeartbeat(r) PROVE TypeInv'
  <2>0. run[r] \in RunState /\ LocalOK(run[r]) /\ run[r].pc = "beat"
    BY <1>10 DEF TypeOK, LocalsOK, ReadHeartbeat
  <2>1. CASE AfterFreshness(r)
    BY <1>10, <2>0, <2>1, AfterFreshnessStep
      DEF ReadHeartbeat, TypeOK, Approved, repo, files, history
  <2>2. ASSUME NEW pc \in {"highest", "marker"},
               Object[run[r].target].heartbeat # None,
               run' = [run EXCEPT ![r].pc = pc, ![r].checked = now]
        PROVE  RunOK
    <3> DEFINE l == [run[r] EXCEPT !.pc = pc, !.checked = now]
    <3>1. l \in RunState /\ LocalOK(l)
      BY <2>0, <2>2 DEF RunState, PC, LocalOK, Selected, TypeOK
    <3> QED
      BY <2>2, <3>1, LocalStep DEF TypeOK
  <2> QED
    BY <1>10, <2>1, <2>2
      DEF ReadHeartbeat, FreshAt, TypeOK, repo, files, history
<1>11. ASSUME NEW r \in Run, WriteHighestSeen(r) PROVE TypeInv'
  <2>0. run[r] \in RunState /\ LocalOK(run[r]) /\ run[r].pc = "highest"
    BY <1>11 DEF TypeOK, LocalsOK, WriteHighestSeen
  <2>1. LocalOK([run[r] EXCEPT !.pc = "marker"])
    BY <2>0 DEF LocalOK, RunState, Selected
  <2>2. RunOK
    BY <1>11, <2>1, GotoStep DEF WriteHighestSeen, PC
  <2>3. highestSeen' \in Nat
    BY <1>11, <2>0, CommitFacts DEF WriteHighestSeen, LocalOK, Selected
  <2> QED
    BY <1>11, <2>2, <2>3 DEF WriteHighestSeen, TypeOK, repo, history
<1>12. ASSUME NEW r \in Run, WriteFreshness(r) PROVE TypeInv'
  <2>0. run[r] \in RunState /\ LocalOK(run[r]) /\ run[r].pc = "marker"
    BY <1>12 DEF TypeOK, LocalsOK, WriteFreshness
  <2>1. RunOK
    BY <1>12, <2>0, AfterFreshnessStep DEF WriteFreshness, Approved
  <2>2. freshness' \in Marker
    BY <1>12, <2>0, CommitFacts, FleetUpdateAssumption
      DEF WriteFreshness, LocalOK, Selected, RunState, Marker,
          FleetUpdateAssumption
  <2> QED
    BY <1>12, <2>1, <2>2 DEF WriteFreshness, TypeOK, repo, history
<1>13. ASSUME NEW r \in Run, Preflight(r) PROVE TypeInv'
  <2>0. run[r] \in RunState /\ LocalOK(run[r]) /\ run[r].pc = "preflight"
    BY <1>13 DEF TypeOK, LocalsOK, Preflight
  <2>1. CASE \E e \in {"0", "1"} : Exit(r, e)
    BY <1>13, <2>1, ExitStep DEF Preflight, TypeOK, repo, files, history
  <2>2. CASE run' = [run EXCEPT ![r].pc = "switch", ![r].attempt = 1]
    <3> DEFINE l == [run[r] EXCEPT !.pc = "switch", !.attempt = 1]
    <3>1. l \in RunState
      <4>1. "switch" \in PC /\ 1 \in 0..2
        BY DEF PC
      <4> QED
        BY <2>0, <4>1 DEF RunState
    <3>2. LocalOK(l)
      BY <2>0 DEF RunState, LocalOK, Selected
    <3>3. RunOK
      BY <2>2, <3>1, <3>2, LocalStep DEF TypeOK
    <3> QED
      BY <1>13, <3>3 DEF Preflight, TypeOK, repo, files, history
  <2> QED
    BY <1>13, <2>1, <2>2 DEF Preflight
<1>14. ASSUME NEW r \in Run, Switch(r) PROVE TypeInv'
  <2>0. run[r] \in RunState /\ LocalOK(run[r]) /\ run[r].pc = "switch"
    BY <1>14 DEF TypeOK, LocalsOK, Switch
  <2>1. ASSUME Goto(r, "record") PROVE RunOK
    <3>1. LocalOK([run[r] EXCEPT !.pc = "record"])
      BY <2>0 DEF LocalOK, RunState, Selected
    <3> QED
      BY <2>1, <3>1, GotoStep DEF PC
  <2>2. ASSUME run' = [run EXCEPT ![r].attempt = 2] PROVE RunOK
    <3> DEFINE l == [run[r] EXCEPT !.attempt = 2]
    <3>1. l \in RunState
      BY <2>0 DEF RunState
    <3>2. LocalOK(l)
      BY <2>0 DEF RunState, LocalOK, Selected
    <3> QED
      BY <2>2, <3>1, <3>2, LocalStep DEF TypeOK
  <2>3. RunOK
    BY <1>14, <2>1, <2>2, ExitStep DEF Switch
  <2>4. /\ running' \in [rev : CommitOrNone, listed : SUBSET Key]
        /\ everListed' \subseteq Key
    BY <1>14, <2>0, CommitFacts
      DEF Switch, TypeOK, LocalOK, Selected, CommitOrNone
  <2> QED
    BY <1>14, <2>3, <2>4 DEF Switch, TypeOK, repo, files
<1>15. ASSUME NEW r \in Run, WriteAnchor(r) PROVE TypeInv'
  <2>1. run[r].target \in Commit
    BY <1>15 DEF WriteAnchor, LocalsOK, LocalOK, Selected
  <2> QED
    BY <1>15, <2>1, ExitStep
      DEF WriteAnchor, TypeOK, CommitOrNone, repo, history
<1>16. ASSUME NEW r \in Run, Kill(r) PROVE TypeInv'
  BY <1>16, ExitStep DEF Kill, TypeOK, repo, files, history
<1>17. ASSUME Environment PROVE TypeInv'
  <2>1. UNCHANGED run /\ LocalsOK'
    BY <1>17 DEF Environment, Publish, Mirror, ActivateUnversioned, Tick,
                 LocalsOK, LocalOK
  <2>2. ASSUME NEW o \in Origin, NEW b \in Branch, Publish(o, b) \/ Mirror(o, b)
        PROVE  TypeInv'
    <3>1. PICK c \in CommitOrNone : origin' = [origin EXCEPT ![o][b] = c]
      <4>1. CASE Publish(o, b)
        BY <4>1 DEF Publish, CommitOrNone
      <4>2. CASE Mirror(o, b)
        BY <4>2, OriginFacts DEF Mirror, TypeOK
      <4> QED
        BY <2>2, <4>1, <4>2
    <3>2. origin' \in [Origin -> [Branch -> CommitOrNone]]
      BY <3>1 DEF TypeOK
    <3> QED
      BY <2>1, <2>2, <3>2
        DEF Publish, Mirror, TypeOK, repo, files, history
  <2>3. ASSUME ActivateUnversioned PROVE TypeInv'
    BY <2>1, <2>3, CommitFacts, FleetUpdateAssumption
      DEF ActivateUnversioned, TypeOK, CommitOrNone, FleetUpdateAssumption,
          repo, files
  <2>4. ASSUME Tick PROVE TypeInv'
    BY <2>1, <2>4, FleetUpdateAssumption
      DEF Tick, TypeOK, FleetUpdateAssumption, repo, files, history
  <2> QED
    BY <1>17, <2>2, <2>3, <2>4 DEF Environment
<1>18. CASE UNCHANGED vars
  BY <1>18 DEF vars, repo, files, history, TypeOK, LocalsOK, LocalOK
<1> QED
  BY <1>1, <1>2, <1>3, <1>4, <1>5, <1>6, <1>7, <1>8, <1>9, <1>10, <1>11,
     <1>12, <1>13, <1>14, <1>15, <1>16, <1>17, <1>18 DEF Next, Step

(* Every state of every behaviour is well typed (TypeOK); LocalsOK says    *)
(* what the phases of fleet-update.sh hand to one another.                 *)
THEOREM TypeCorrect == Spec => []TypeOK
<1>1. TypeInv => TypeOK
  BY DEF TypeInv
<1> QED
  BY <1>1, InitTypeInv, NextTypeInv, PTL DEF Spec

-----------------------------------------------------------------------------
(* Trust.  An invocation that is past classify_target carries a target     *)
(* that the trusted keys vouch for, one about to classify an anchor.       *)
LocalVouched(r) ==
  /\ run[r].pc = "classify" => Vouched(run[r].anchor)
  /\ run[r].pc \in Approved => Vouched(run[r].target)

LocalsVouched == \A r \in Run : LocalVouched(r)

TrustInv ==
  /\ TypeInv
  /\ running.listed \subseteq everListed
  /\ OnlyTrustedHistory
  /\ LocalsVouched

(* What verifies under some keys verifies under more.                      *)
LEMMA VerifiesMonotone ==
  ASSUME NEW c \in Commit, NEW K, NEW L, K \subseteq L, Verifies(c, K)
  PROVE  Verifies(c, L)
BY DEF Verifies

(* Trust only grows: more commits are vouched for, never fewer.            *)
LEMMA HistoryGrows ==
  TypeInv /\ [Next]_vars => accepted \subseteq accepted'
                            /\ everListed \subseteq everListed'
<1> SUFFICES ASSUME [Next]_vars
             PROVE  /\ accepted \subseteq accepted'
                    /\ everListed \subseteq everListed'
  OBVIOUS
<1>1. CASE UNCHANGED vars
  BY <1>1 DEF vars, history
<1>2. ASSUME NEW r \in Run, Start(r) \/ Step(r) \/ Kill(r)
      PROVE  accepted \subseteq accepted' /\ everListed \subseteq everListed'
  BY <1>2 DEF Start, Step, Kill, Clone, FetchOk, FetchFails, Fetched,
     VerifyTips, SelectTarget, ReadAnchor, Classify, ReadHeartbeat, WriteHighestSeen,
     WriteFreshness, Preflight, Switch, WriteAnchor, history
<1>3. CASE Environment
  BY <1>3 DEF Environment, Publish, Mirror, ActivateUnversioned, Tick, history
<1> QED
  BY <1>1, <1>2, <1>3 DEF Next

(* A commit that was vouched for stays so: acceptances are never           *)
(* forgotten.                                                              *)
LEMMA VouchedGrows ==
  ASSUME NEW c \in Commit, Vouched(c), TypeInv, [Next]_vars
  PROVE  Vouched(c)'
<1>1. accepted \subseteq accepted' /\ everListed \subseteq everListed'
  BY HistoryGrows
<1> QED
  BY <1>1, CommitFacts, VerifiesMonotone DEF Vouched

(* The induction step of classify_target: what lies between a vouched      *)
(* anchor and a target, verified now, makes the target vouched.            *)
LEMMA RangeVouches ==
  ASSUME NEW a \in Commit, NEW t \in Commit, Vouched(a),
         running.listed \subseteq everListed,
         RangeVerifies(a, t, running.listed)
  PROVE  Vouched(t)
BY CommitFacts, VerifiesMonotone DEF Vouched, RangeVerifies, CommitRange

(* At the start only the installed revision is trusted.                    *)
LEMMA InitTrustInv == Init => TrustInv
<1> SUFFICES ASSUME Init PROVE TrustInv
  OBVIOUS
<1>1. TypeInv
  BY InitTypeInv
<1>2. PICK c \in Commit :
        /\ running = [rev |-> c, listed |-> Object[c].listed]
        /\ accepted = Reach[c] /\ everListed = Object[c].listed
  BY FleetUpdateAssumption DEF Init, FleetUpdateAssumption
<1>3. OnlyTrustedHistory
  BY <1>2 DEF OnlyTrustedHistory, Vouched, Init
<1>4. LocalsVouched
  BY ExitedType DEF Init, LocalsVouched, LocalVouched, Exited, Approved
<1> QED
  BY <1>1, <1>2, <1>3, <1>4 DEF TrustInv

(* What invocation s does with what it knows: nothing, give it up, or hand *)
(* an approved target to its next phase.                                   *)
Carries(s) ==
  \/ run'[s] = run[s]
  \/ run'[s].pc \notin {"classify"} \cup Approved
  \/ run'[s].pc \in Approved /\ run[s].pc \in Approved
     /\ run'[s].target = run[s].target

(* An invocation that keeps its locals keeps what vouches for them.        *)
LEMMA CarriesTrust ==
  ASSUME TrustInv, [Next]_vars, NEW s \in Run, Carries(s)
  PROVE  LocalVouched(s)'
<1> USE DEF LocalVouched
<1>1. TypeInv'
  BY NextTypeInv DEF TrustInv
<1>2. CASE run'[s] = run[s]
  <2>1. ASSUME run[s].pc = "classify" PROVE Vouched(run[s].anchor)'
    <3> DEFINE a == run[s].anchor
    <3>1. a \in Commit /\ Vouched(a)
      BY <2>1 DEF TrustInv, TypeInv, LocalsOK, LocalOK, LocalsVouched,
                  LocalVouched
    <3>2. \A d \in Reach[a] \ accepted' : Verifies(d, everListed')
      BY <3>1, VouchedGrows DEF TrustInv, Vouched
    <3> QED
      BY <1>2, <3>2 DEF Vouched
  <2>2. ASSUME run[s].pc \in Approved PROVE Vouched(run[s].target)'
    <3> DEFINE t == run[s].target
    <3>1. t \in Commit /\ Vouched(t)
      BY <2>2 DEF TrustInv, TypeInv, LocalsOK, LocalOK, LocalsVouched,
                  Approved, Selected
    <3>2. \A d \in Reach[t] \ accepted' : Verifies(d, everListed')
      BY <3>1, VouchedGrows DEF TrustInv, Vouched
    <3> QED
      BY <1>2, <3>2 DEF Vouched
  <2> QED
    BY <1>2, <2>1, <2>2
<1>3. CASE run'[s].pc \notin {"classify"} \cup Approved
  BY <1>3
<1>4. CASE /\ run'[s].pc \in Approved /\ run[s].pc \in Approved
           /\ run'[s].target = run[s].target
  <2> DEFINE t == run[s].target
  <2>1. t \in Commit /\ Vouched(t)
    BY <1>4 DEF TrustInv, TypeInv, LocalsOK, LocalOK, LocalsVouched,
                Approved, Selected
  <2>2. \A d \in Reach[t] \ accepted' : Verifies(d, everListed')
    BY <2>1, VouchedGrows DEF TrustInv, Vouched
  <2> QED
    BY <1>4, <2>2 DEF Vouched, Approved
<1> QED
  BY <1>2, <1>3, <1>4 DEF Carries

(* Every step but the two that judge, read_anchor and classify_target,     *)
(* only carries what was judged.                                           *)
LEMMA StepCarries ==
  ASSUME TypeInv, [Next]_vars,
         \A r \in Run : ~ReadAnchor(r) /\ ~Classify(r)
  PROVE  \A s \in Run : Carries(s)
<1> SUFFICES ASSUME NEW s \in Run PROVE Carries(s)
  OBVIOUS
<1>1. CASE UNCHANGED vars \/ Environment
  BY <1>1 DEF vars, Environment, Publish, Mirror, ActivateUnversioned, Tick,
              Carries
<1> USE DEF TypeInv, TypeOK
<1>2. ASSUME NEW r \in Run, NEW e \in {"0", "1", "tamper", "killed"}, Exit(r, e)
      PROVE  Carries(s)
  BY <1>2 DEF Exit, Exited, Carries, Approved
<1>3. ASSUME NEW r \in Run, Start(r) \/ Clone(r) \/ FetchOk(r) \/ FetchFails(r)
      PROVE  Carries(s)
  <2>1. s # r => run'[s] = run[s]
    BY <1>3 DEF Start, Clone, FetchOk, FetchFails, Exit
  <2>2. CASE Start(r) \/ Clone(r)
    <3>1. run'[r].pc \in {"clone", "fetch", "idle"}
      <4>1. CASE Start(r)
        BY <4>1 DEF Start, Exited
      <4>2. CASE Clone(r)
        BY <4>2 DEF Clone, Exit, Exited, RunState
      <4> QED
        BY <2>2, <4>1, <4>2
    <3> QED
      BY <2>1, <3>1 DEF Carries, Approved
  <2>3. CASE FetchOk(r)
    <3>1. run[r].pc = "fetch"
      BY <2>3 DEF FetchOk
    <3> DEFINE o == Origins[run[r].next]
               l == [run[r] EXCEPT !.candidate[o] = origin[o][run[r].opt.branch],
                                   !.next = @ + 1]
    <3>2. run' = [run EXCEPT ![r] = l]
      BY <2>3 DEF FetchOk
    <3>3. l.pc = run[r].pc
      BY DEF RunState
    <3> QED
      BY <2>1, <3>1, <3>2, <3>3 DEF Carries, Approved
  <2>4. CASE FetchFails(r)
    BY <2>1, <2>4 DEF FetchFails, RunState, Carries, Approved
  <2> QED
    BY <1>3, <2>2, <2>3, <2>4
<1>4. ASSUME NEW r \in Run, Fetched(r) \/ VerifyTips(r) \/ SelectTarget(r)
      PROVE  Carries(s)
  <2>1. s # r => run'[s] = run[s]
    BY <1>4 DEF Fetched, VerifyTips, SelectTarget, Exit, Goto
  <2>2. run'[r].pc \in {"tips", "select", "anchor", "idle"}
    BY <1>4 DEF Fetched, VerifyTips, SelectTarget, Exit, Exited, Goto, RunState
  <2> QED
    BY <2>1, <2>2 DEF Carries, Approved
<1>5. ASSUME NEW r \in Run, \/ ReadHeartbeat(r) \/ WriteHighestSeen(r)
                            \/ WriteFreshness(r) \/ Preflight(r)
                            \/ Switch(r) \/ WriteAnchor(r)
      PROVE  Carries(s)
  <2>1. s # r => run'[s] = run[s]
    BY <1>5 DEF ReadHeartbeat, WriteHighestSeen, WriteFreshness, Preflight,
                Switch, WriteAnchor, AfterFreshness, Exit, Goto
  <2>2. run[r].pc \in Approved
    BY <1>5 DEF ReadHeartbeat, WriteHighestSeen, WriteFreshness, Preflight,
                Switch, WriteAnchor, Approved
  <2>3. run'[r].pc = "idle" \/ (/\ run'[r].target = run[r].target
                                /\ run'[r].pc \in Approved)
    BY <1>5, <2>2
       DEF ReadHeartbeat, WriteHighestSeen, WriteFreshness, Preflight,
           Switch, WriteAnchor, AfterFreshness, Exit, Exited, Goto, RunState,
           Approved
  <2> QED
    BY <2>1, <2>2, <2>3 DEF Carries, Approved
<1>6. ASSUME NEW r \in Run, Kill(r) PROVE Carries(s)
  BY <1>2, <1>6 DEF Kill
<1> QED
  BY <1>1, <1>3, <1>4, <1>5, <1>6 DEF Next, Step

(* A commit fleet-update names: vouched for now, it stays so.              *)
LEMMA RevisionStays ==
  ASSUME TrustInv, [Next]_vars, NEW c, c \in {running.rev, lastVerified} \ {None}
  PROVE  \A d \in Reach[c] \ accepted' : Verifies(d, everListed')
<1>1. c \in Commit /\ Vouched(c)
  BY DEF TrustInv, TypeInv, TypeOK, CommitOrNone, OnlyTrustedHistory
<1> QED
  BY <1>1, VouchedGrows DEF TrustInv, Vouched

(* A step that leaves the running system and the anchor file alone.        *)
LEMMA TrustFrame ==
  ASSUME TrustInv, [Next]_vars, UNCHANGED <<running, lastVerified>>
  PROVE  OnlyTrustedHistory' /\ running'.listed \subseteq everListed'
<1>1. running'.listed \subseteq everListed'
  BY HistoryGrows DEF TrustInv
<1>2. OnlyTrustedHistory'
  BY RevisionStays DEF OnlyTrustedHistory, Vouched
<1> QED
  BY <1>1, <1>2

(* Every step keeps the trust: classification, re-rooting and switch are   *)
(* the ones that matter.                                                   *)
LEMMA NextTrustInv == TrustInv /\ [Next]_vars => TrustInv'
<1> SUFFICES ASSUME TrustInv, [Next]_vars PROVE TrustInv'
  OBVIOUS
<1>0. TypeInv /\ TypeInv'
  BY NextTypeInv DEF TrustInv
(* read_anchor: the anchor is an accepted root, or Anchor, vouched for.    *)
<1>1. ASSUME NEW r \in Run, ReadAnchor(r) PROVE TrustInv'
  <2>1. UNCHANGED <<running, lastVerified>>
    BY <1>1 DEF ReadAnchor, files
  <2>2. ASSUME Exit(r, "tamper") PROVE \A s \in Run : Carries(s)
    BY <1>0, <2>2 DEF Exit, Exited, Carries, Approved, TypeInv, TypeOK
  <2>3. ASSUME NEW c \in Commit,
               run' = [run EXCEPT ![r].pc = "classify", ![r].anchor = c],
               \A d \in Reach[c] \ accepted' : Verifies(d, everListed')
        PROVE  LocalsVouched'
    <3>1. \A s \in Run \ {r} : Carries(s)
      BY <1>0, <2>3 DEF Carries, TypeInv, TypeOK
    <3>2. /\ run'[r].pc = "classify" /\ run'[r].anchor = c
      BY <1>0, <2>3 DEF TypeInv, TypeOK, RunState
    <3>3. Vouched(c)'
      BY <2>3 DEF Vouched
    <3>4. \A s \in Run \ {r} : LocalVouched(s)'
      BY <3>1, CarriesTrust
    <3>5. LocalVouched(r)'
      BY <3>2, <3>3 DEF LocalVouched, Approved, Vouched
    <3> QED
      BY <3>4, <3>5 DEF LocalsVouched
  <2>4. LocalsVouched'
    <3>1. CASE Exit(r, "tamper")
      BY <2>2, <3>1, CarriesTrust DEF LocalsVouched
    <3>2. ASSUME run[r].opt.acceptNewRoot \in objects,
                 run' = [run EXCEPT ![r].pc = "classify",
                                    ![r].anchor = run[r].opt.acceptNewRoot],
                 accepted' = accepted \cup Reach[run[r].opt.acceptNewRoot]
          PROVE  LocalsVouched'
      <4>1. run[r].opt.acceptNewRoot \in Commit
        BY <1>0, <3>2 DEF TypeInv, TypeOK
      <4> QED
        BY <2>3, <3>2, <4>1
    <3>3. ASSUME Anchor # None,
                 run' = [run EXCEPT ![r].pc = "classify", ![r].anchor = Anchor]
          PROVE  LocalsVouched'
      <4>1. Anchor \in Commit /\ Anchor \in {running.rev, lastVerified} \ {None}
        BY <1>0, <3>3 DEF TypeInv, TypeOK, Anchor, CommitOrNone
      <4> QED
        BY <2>3, <3>3, <4>1, RevisionStays
    <3> QED
      BY <1>1, <3>1, <3>2, <3>3 DEF ReadAnchor
  <2> QED
    BY <1>0, <2>1, <2>4, TrustFrame DEF TrustInv
(* classify_target: a noop's target is the anchor; a deploy's is vouched   *)
(* for by RangeVouches, against the keys the running system lists.         *)
<1>2. ASSUME NEW r \in Run, Classify(r) PROVE TrustInv'
  <2>1. UNCHANGED <<running, lastVerified, accepted, everListed>>
    BY <1>2 DEF Classify, files, history
  <2>2. ASSUME NEW e \in {"0", "tamper"}, Exit(r, e)
        PROVE  \A s \in Run : Carries(s)
    BY <1>0, <2>2 DEF Exit, Exited, Carries, Approved, TypeInv, TypeOK
  <2>3. run[r].pc = "classify"
    BY <1>2 DEF Classify
  <2>4. run[r].anchor \in Commit /\ Vouched(run[r].anchor)
        /\ run[r].target \in Commit
    BY <1>0, <2>3 DEF TrustInv, LocalsVouched, LocalVouched, TypeInv,
                      LocalsOK, LocalOK, Selected
  <2>5. ASSUME NEW kind \in {"noop", "deploy"}, Vouched(run[r].target),
               run' = [run EXCEPT ![r].pc = "beat", ![r].action = kind]
        PROVE  LocalsVouched'
    <3>1. \A s \in Run \ {r} : Carries(s)
      BY <1>0, <2>5 DEF Carries, TypeInv, TypeOK
    <3>2. run'[r].pc = "beat" /\ run'[r].target = run[r].target
      BY <1>0, <2>5 DEF TypeInv, TypeOK, RunState
    <3>3. \A s \in Run \ {r} : LocalVouched(s)'
      BY <3>1, CarriesTrust
    <3>4. LocalVouched(r)'
      BY <2>1, <2>5, <3>2 DEF LocalVouched, Approved, Vouched
    <3> QED
      BY <3>3, <3>4 DEF LocalsVouched
  <2>6. LocalsVouched'
    <3>1. ASSUME NEW e \in {"0", "tamper"}, Exit(r, e) PROVE LocalsVouched'
      BY <2>2, <3>1, CarriesTrust DEF LocalsVouched
    <3>2. ASSUME run[r].target = run[r].anchor PROVE Vouched(run[r].target)
      BY <2>4, <3>2
    <3>3. ASSUME RangeVerifies(run[r].anchor, run[r].target, running.listed)
          PROVE  Vouched(run[r].target)
      BY <2>4, <3>3, RangeVouches DEF TrustInv
    <3> QED
      BY <1>2, <2>5, <3>1, <3>2, <3>3 DEF Classify
  <2> QED
    BY <1>0, <2>1, <2>6, TrustFrame DEF TrustInv
<1>3. ASSUME \A r \in Run : ~ReadAnchor(r) /\ ~Classify(r) PROVE LocalsVouched'
  <2>1. \A s \in Run : Carries(s)
    BY <1>0, <1>3, StepCarries
  <2> QED
    BY <2>1, CarriesTrust DEF LocalsVouched
(* The switch: what becomes the running system was approved.               *)
<1>4. ASSUME NEW r \in Run, Switch(r)
      PROVE  OnlyTrustedHistory' /\ running'.listed \subseteq everListed'
  <2> DEFINE t == run[r].target
  <2>1. t \in Commit /\ Vouched(t)
    BY <1>0, <1>4 DEF Switch, TrustInv, LocalsVouched, LocalVouched,
                      Approved, TypeInv, LocalsOK, LocalOK, Selected
  <2>2. \A d \in Reach[t] \ accepted' : Verifies(d, everListed')
    BY <1>0, <2>1, VouchedGrows DEF Vouched
  <2>3. UNCHANGED lastVerified
    BY <1>4 DEF Switch, files
  <2>4. CASE UNCHANGED running
    BY <2>3, <2>4, TrustFrame
  <2>5. CASE /\ running' = [rev |-> t, listed |-> Object[t].listed]
             /\ everListed' = everListed \cup Object[t].listed
    <3>1. \A c \in {t, lastVerified} \ {None} :
             \A d \in Reach[c] \ accepted' : Verifies(d, everListed')
      BY <2>2, RevisionStays
    <3> QED
      BY <2>3, <2>5, <3>1 DEF OnlyTrustedHistory, Vouched
  <2> QED
    BY <1>4, <2>4, <2>5 DEF Switch
(* write_success_anchor records what this run switched to.                 *)
<1>5. ASSUME NEW r \in Run, WriteAnchor(r)
      PROVE  OnlyTrustedHistory' /\ running'.listed \subseteq everListed'
  <2> DEFINE t == run[r].target
  <2>1. t \in Commit /\ Vouched(t)
    BY <1>0, <1>5 DEF WriteAnchor, TrustInv, LocalsVouched, LocalVouched,
                      Approved, TypeInv, LocalsOK, LocalOK, Selected
  <2>2. \A d \in Reach[t] \ accepted' : Verifies(d, everListed')
    BY <1>0, <2>1, VouchedGrows DEF Vouched
  <2>3. UNCHANGED running /\ lastVerified' = t
    BY <1>5 DEF WriteAnchor
  <2>4. running'.listed \subseteq everListed'
    BY <2>3, <1>0, HistoryGrows DEF TrustInv
  <2> QED
    BY <2>2, <2>3, <2>4, RevisionStays DEF OnlyTrustedHistory, Vouched
(* An unversioned activation leaves no revision to stand on.               *)
<1>6. ASSUME ActivateUnversioned
      PROVE  OnlyTrustedHistory' /\ running'.listed \subseteq everListed'
  <2>1. running'.rev = None /\ UNCHANGED lastVerified
    BY <1>6 DEF ActivateUnversioned, files
  <2>2. running'.listed \subseteq everListed'
    BY <1>6 DEF ActivateUnversioned
  <2> QED
    BY <2>1, <2>2, RevisionStays DEF OnlyTrustedHistory, Vouched
(* Every other step leaves both alone.                                     *)
<1>7. \/ UNCHANGED <<running, lastVerified>>
      \/ \E r \in Run : Switch(r) \/ WriteAnchor(r)
      \/ ActivateUnversioned
  <2>1. CASE UNCHANGED vars
    BY <2>1 DEF vars, files
  <2>2. ASSUME NEW r \in Run, Start(r) \/ Kill(r)
        PROVE  UNCHANGED <<running, lastVerified>>
    BY <2>2 DEF Start, Kill, files
  <2>3. ASSUME NEW r \in Run, Step(r)
        PROVE  \/ UNCHANGED <<running, lastVerified>>
               \/ Switch(r) \/ WriteAnchor(r)
    <3>1. CASE Clone(r) \/ FetchOk(r) \/ FetchFails(r) \/ Fetched(r)
      BY <3>1 DEF Clone, FetchOk, FetchFails, Fetched, files
    <3>2. CASE VerifyTips(r) \/ SelectTarget(r) \/ ReadAnchor(r) \/ Classify(r)
      BY <3>2 DEF VerifyTips, SelectTarget, ReadAnchor, Classify, files
    <3>3. CASE ReadHeartbeat(r) \/ WriteHighestSeen(r) \/ WriteFreshness(r)
      BY <3>3 DEF ReadHeartbeat, WriteHighestSeen, WriteFreshness, files
    <3>4. CASE Preflight(r)
      BY <3>4 DEF Preflight, files
    <3> QED
      BY <2>3, <3>1, <3>2, <3>3, <3>4 DEF Step
  <2>4. ASSUME Environment
        PROVE  UNCHANGED <<running, lastVerified>> \/ ActivateUnversioned
    <3>1. CASE \E o \in Origin, b \in Branch : Publish(o, b) \/ Mirror(o, b)
      BY <3>1 DEF Publish, Mirror, files
    <3>2. CASE Tick
      BY <3>2 DEF Tick, files
    <3> QED
      BY <2>4, <3>1, <3>2 DEF Environment
  <2> QED
    BY <2>1, <2>2, <2>3, <2>4 DEF Next
<1>8. OnlyTrustedHistory' /\ running'.listed \subseteq everListed'
  BY <1>4, <1>5, <1>6, <1>7, TrustFrame
<1> QED
  BY <1>0, <1>1, <1>2, <1>3, <1>8 DEF TrustInv

(* OnlyTrustedHistory of every behaviour: no forge, no interleaving of     *)
(* invocations, no kill and no failed rebuild puts the host, or the anchor *)
(* it would fall back to, on a commit with an unvouched ancestor.          *)
THEOREM TrustedHistory == Spec => []OnlyTrustedHistory
<1>1. TrustInv => OnlyTrustedHistory
  BY DEF TrustInv
<1> QED
  BY <1>1, InitTrustInv, NextTrustInv, PTL DEF Spec
-----------------------------------------------------------------------------
(***************************************************************************)
(* Theorems of FleetUpdate when one invocation runs at a time, as the      *)
(* nightly timer does by itself: the host is a SignedRatchet, and what it  *)
(* records of heartbeats is authentic and never goes back.  Nothing in     *)
(* fleet-update.sh excludes a second invocation, hence the hypothesis.     *)
(***************************************************************************)
OneInvocation == \A r, s \in Run : r = s

NoReRoots == \A opt \in Options : opt.acceptNewRoot = None

Forced(r) == run[r].opt.acceptNewRoot # None

-----------------------------------------------------------------------------
(* The ground a deploy stands on.  Of an invocation that is past           *)
(* read_anchor, as long as no unversioned activation has taken away the    *)
(* running revision: its anchor is that revision, or a root the operator   *)
(* named and the running system admits.                                    *)
Grounded(r) ==
  /\ run[r].anchor \in Commit
  /\ IF Forced(r) THEN /\ MayBeRoot(run[r].anchor, running.listed)
                       /\ Reach[run[r].anchor] \subseteq accepted
                  ELSE run[r].anchor = running.rev

(* What classify_target established of a deploy and nothing may undo       *)
(* before the switch.                                                      *)
Cleared(r) ==
  /\ Grounded(r)
  /\ IsAncestor(run[r].anchor, run[r].target)
  /\ RangeVerifies(run[r].anchor, run[r].target, running.listed)

Stands(r) ==
  /\ run[r].pc = "classify" /\ running.rev # None => Grounded(r)
  /\ run[r].pc \in Approved => run[r].action \in {"deploy", "noop"}
  /\ run[r].pc \in {"preflight", "switch", "record"} => run[r].action = "deploy"
  /\ run[r].pc \in Approved /\ run[r].action = "deploy" =>
       running.rev \in {None, run[r].target} \/ Cleared(r)
  /\ run[r].pc = "record" => running.rev \in {None, run[r].target}

StandInv == TypeInv /\ \A r \in Run : Stands(r)

(* The anchor file is never ahead of what an invocation deploys.           *)
Behind(r) ==
  lastVerified # None =>
    /\ run[r].pc = "classify" => IsAncestor(lastVerified, run[r].anchor)
    /\ run[r].pc \in Approved => IsAncestor(lastVerified, run[r].target)

AnchorInv == StandInv /\ AnchorFollowsRunning /\ \A r \in Run : Behind(r)

(* Between the checks of record_verified_freshness and its two writes.     *)
Fresh(r) ==
  run[r].pc \in {"highest", "marker"} =>
    LET beat == Object[run[r].target].heartbeat IN
    /\ Object[beat.by].signer = Bot /\ Bot \in everListed
    /\ beat.green
    /\ run[r].checked <= beat.epoch + MaxAge
    /\ IF run[r].pc = "highest" THEN beat.epoch > highestSeen
                                ELSE beat.epoch = highestSeen

FreshInv == TrustInv /\ FreshnessAuthentic /\ \A r \in Run : Fresh(r)
-----------------------------------------------------------------------------
(* What every step but read_anchor, classify_target and the switch does    *)
(* with an approval: leaves it, gives it up, or takes it to a later phase. *)
Keeps(s) ==
  \/ run'[s] = run[s]
  \/ run'[s].pc \notin {"classify"} \cup Approved
  \/ /\ run[s].pc \in Approved /\ run'[s].pc \in Approved
     /\ run'[s].opt = run[s].opt /\ run'[s].action = run[s].action
     /\ run'[s].anchor = run[s].anchor /\ run'[s].target = run[s].target
     /\ run'[s].pc \in {"preflight", "switch"} =>
          \/ run[s].pc \in {"preflight", "switch"}
          \/ run[s].action # "noop"
     /\ run'[s].pc = "record" => run[s].pc = "record"

(* Nothing a step of one invocation does touches the locals of another.    *)
LEMMA OthersStay ==
  ASSUME TypeInv, NEW r \in Run, Start(r) \/ Step(r) \/ Kill(r),
         NEW s \in Run \ {r}
  PROVE  run'[s] = run[s]
<1> USE DEF TypeInv, TypeOK
<1>1. CASE Start(r) \/ Clone(r) \/ FetchOk(r) \/ FetchFails(r) \/ Fetched(r)
  BY <1>1 DEF Start, Clone, FetchOk, FetchFails, Fetched, Exit, Goto
<1>2. CASE VerifyTips(r) \/ SelectTarget(r) \/ ReadAnchor(r) \/ Classify(r)
  BY <1>2 DEF VerifyTips, SelectTarget, ReadAnchor, Classify, Exit, Goto
<1>3. CASE \/ ReadHeartbeat(r) \/ WriteHighestSeen(r) \/ WriteFreshness(r)
           \/ Preflight(r)
  BY <1>3 DEF ReadHeartbeat, WriteHighestSeen, WriteFreshness, Preflight,
              AfterFreshness, Exit, Goto
<1>4. CASE Switch(r) \/ WriteAnchor(r) \/ Kill(r)
  BY <1>4 DEF Switch, WriteAnchor, Kill, Exit, Goto
<1> QED
  BY <1>1, <1>2, <1>3, <1>4 DEF Step

(* No step but these three changes what an invocation knows of its target. *)
LEMMA StepKeeps ==
  ASSUME TypeInv, [Next]_vars,
         \A r \in Run : ~ReadAnchor(r) /\ ~Classify(r) /\ ~Switch(r)
  PROVE  \A s \in Run : Keeps(s)
<1> SUFFICES ASSUME NEW s \in Run PROVE Keeps(s)
  OBVIOUS
<1>1. CASE UNCHANGED vars \/ Environment
  BY <1>1 DEF vars, Environment, Publish, Mirror, ActivateUnversioned, Tick,
              Keeps
<1>2. ASSUME NEW r \in Run, Start(r) \/ Step(r) \/ Kill(r),
             run[r].pc \notin {"classify"} \cup Approved
      PROVE  Keeps(s)
  <2>1. Carries(s)
    BY StepCarries
  <2>2. s # r => run'[s] = run[s]
    BY <1>2, OthersStay
  <2> QED
    BY <1>2, <2>1, <2>2 DEF Carries, Keeps
<1> USE DEF TypeInv, TypeOK
<1>3. ASSUME NEW r \in Run, \/ ReadHeartbeat(r) \/ WriteHighestSeen(r)
                            \/ WriteFreshness(r) \/ Preflight(r)
      PROVE  Keeps(s)
  <2>1. s # r => run'[s] = run[s]
    BY <1>3 DEF ReadHeartbeat, WriteHighestSeen, WriteFreshness, Preflight,
                AfterFreshness, Exit, Goto
  <2>2. run[r].pc \in Approved /\ run[r].pc # "record"
    BY <1>3 DEF ReadHeartbeat, WriteHighestSeen, WriteFreshness, Preflight,
                Approved
  <2>3. \/ run'[r].pc = "idle"
        \/ /\ run'[r].pc \in Approved \ {"record"}
           /\ run'[r].opt = run[r].opt /\ run'[r].action = run[r].action
           /\ run'[r].anchor = run[r].anchor /\ run'[r].target = run[r].target
           /\ run'[r].pc \in {"preflight", "switch"} =>
                run[r].pc = "preflight" \/ run[r].action # "noop"
    <3>1. CASE ReadHeartbeat(r)
      BY <3>1 DEF ReadHeartbeat, AfterFreshness, Exit, Exited, Goto, RunState,
                  Approved
    <3>2. CASE WriteHighestSeen(r)
      BY <3>2 DEF WriteHighestSeen, Goto, RunState, Approved
    <3>3. CASE WriteFreshness(r)
      BY <3>3 DEF WriteFreshness, AfterFreshness, Exit, Exited, Goto, RunState,
                  Approved
    <3>4. CASE Preflight(r)
      BY <3>4 DEF Preflight, Exit, Exited, RunState, Approved
    <3> QED
      BY <1>3, <3>1, <3>2, <3>3, <3>4
  <2> QED
    BY <2>1, <2>2, <2>3 DEF Keeps, Approved
<1>4. ASSUME NEW r \in Run, WriteAnchor(r) \/ Kill(r) PROVE Keeps(s)
  BY <1>4 DEF WriteAnchor, Kill, Exit, Exited, Keeps, Approved
<1>5. ASSUME NEW r \in Run, \/ Start(r) \/ Clone(r) \/ FetchOk(r)
                            \/ FetchFails(r) \/ Fetched(r) \/ VerifyTips(r)
                            \/ SelectTarget(r)
      PROVE  run[r].pc \notin {"classify"} \cup Approved
  BY <1>5 DEF Start, Clone, FetchOk, FetchFails, Fetched, VerifyTips,
              SelectTarget, Approved
<1> QED
  BY <1>1, <1>2, <1>3, <1>4, <1>5 DEF Next, Step

(* Only a switch or an unversioned activation changes the running system,  *)
(* and only read_anchor accepts a root.                                    *)
LEMMA RunningSteps ==
  ASSUME [Next]_vars
  PROVE  /\ (\A r \in Run : ~Switch(r)) =>
              running' = running \/ ActivateUnversioned
         /\ accepted' = accepted \/ \E r \in Run : ReadAnchor(r)
<1>1. CASE UNCHANGED vars
  BY <1>1 DEF vars, history
<1>2. CASE Environment
  BY <1>2 DEF Environment, Publish, Mirror, ActivateUnversioned, Tick, history
<1>3. ASSUME NEW r \in Run, Start(r) \/ Kill(r)
      PROVE  running' = running /\ accepted' = accepted
  BY <1>3 DEF Start, Kill, history
<1>4. ASSUME NEW r \in Run, Step(r), ~ReadAnchor(r), ~Switch(r)
      PROVE  running' = running /\ accepted' = accepted
  BY <1>4 DEF Step, Clone, FetchOk, FetchFails, Fetched, VerifyTips,
     SelectTarget, Classify, ReadHeartbeat, WriteHighestSeen, WriteFreshness,
     Preflight, WriteAnchor, history
<1>5. ASSUME NEW r \in Run, ReadAnchor(r) PROVE running' = running
  BY <1>5 DEF ReadAnchor
<1>6. ASSUME NEW r \in Run, Switch(r) PROVE accepted' = accepted
  BY <1>6 DEF Switch
<1> QED
  BY <1>1, <1>2, <1>3, <1>4, <1>5, <1>6 DEF Next, Step

(* run_switch records a target only when the switch activated it.          *)
LEMMA DeploysActivated ==
  ASSUME NEW o \in Rebuilds, Deploys(o)
  PROVE  o.activated
BY DEF Rebuilds, Deploys

-----------------------------------------------------------------------------
(* StandInv is inductive for a single invocation.                          *)
LEMMA InitStandInv == Init => StandInv
<1> SUFFICES ASSUME Init PROVE \A r \in Run : Stands(r)
  BY InitTypeInv DEF StandInv
<1>1. \A r \in Run : run[r].pc = "idle"
  BY ExitedType DEF Init
<1> QED
  BY <1>1 DEF Stands, Approved

(* With one invocation, every step keeps what it knows in line with the    *)
(* files.                                                                  *)
LEMMA NextStandInv ==
  ASSUME OneInvocation, StandInv, [Next]_vars
  PROVE  StandInv'
<1>0. TypeInv /\ TypeInv'
  BY NextTypeInv DEF StandInv
<1> USE DEF TypeInv, TypeOK
(* read_anchor puts the invocation on its ground.                          *)
<1>1. ASSUME NEW r \in Run, ReadAnchor(r) PROVE Stands(r)'
  <2>1. running' = running
    BY <1>1 DEF ReadAnchor
  <2>2. CASE Exit(r, "tamper")
    BY <1>0, <2>2, ExitedType DEF Exit, Stands, Approved
  <2>3. ASSUME NEW c \in Commit,
               run' = [run EXCEPT ![r].pc = "classify", ![r].anchor = c],
               Forced(r) => /\ MayBeRoot(c, running.listed)
                            /\ Reach[c] \subseteq accepted',
               ~Forced(r) => c = Anchor
        PROVE  Stands(r)'
    <3>1. /\ run'[r].pc = "classify" /\ run'[r].anchor = c
          /\ run'[r].opt = run[r].opt
      BY <1>0, <2>3 DEF RunState
    <3>2. running.rev # None => Grounded(r)'
      BY <2>1, <2>3, <3>1 DEF Grounded, Forced, Anchor
    <3> QED
      BY <2>1, <3>1, <3>2 DEF Stands, Approved
  <2>4. ASSUME run[r].opt.acceptNewRoot # None, ~Exit(r, "tamper")
        PROVE  Stands(r)'
    <3> DEFINE c == run[r].opt.acceptNewRoot
    <3>1. /\ c \in objects /\ MayBeRoot(c, running.listed)
          /\ run' = [run EXCEPT ![r].pc = "classify", ![r].anchor = c]
          /\ accepted' = accepted \cup Reach[c]
      BY <1>1, <2>4 DEF ReadAnchor
    <3>2. c \in Commit
      BY <1>0, <3>1
    <3> QED
      BY <2>3, <2>4, <3>1, <3>2 DEF Forced
  <2>5. ASSUME run[r].opt.acceptNewRoot = None, ~Exit(r, "tamper")
        PROVE  Stands(r)'
    <3>1. /\ Anchor # None
          /\ run' = [run EXCEPT ![r].pc = "classify", ![r].anchor = Anchor]
      BY <1>1, <2>5 DEF ReadAnchor
    <3>2. Anchor \in Commit
      BY <1>0, <3>1 DEF Anchor, CommitOrNone
    <3> QED
      BY <2>3, <2>5, <3>1, <3>2 DEF Forced
  <2> QED
    BY <2>2, <2>4, <2>5
(* classify_target clears a deploy on that ground.                         *)
<1>2. ASSUME NEW r \in Run, Classify(r) PROVE Stands(r)'
  <2>1. running' = running /\ accepted' = accepted /\ run[r].pc = "classify"
    BY <1>2 DEF Classify, history
  <2>2. ASSUME NEW e \in {"0", "tamper"}, Exit(r, e) PROVE Stands(r)'
    BY <1>0, <2>2, ExitedType DEF Exit, Stands, Approved
  <2>3. ASSUME NEW kind \in {"noop", "deploy"},
               run' = [run EXCEPT ![r].pc = "beat", ![r].action = kind],
               kind = "deploy" =>
                 /\ IsAncestor(run[r].anchor, run[r].target)
                 /\ RangeVerifies(run[r].anchor, run[r].target, running.listed)
        PROVE  Stands(r)'
    <3>1. /\ run'[r].pc = "beat" /\ run'[r].action = kind
          /\ run'[r].opt = run[r].opt /\ run'[r].anchor = run[r].anchor
          /\ run'[r].target = run[r].target
      BY <1>0, <2>3 DEF RunState
    <3>2. running.rev # None => Grounded(r)'
      BY <2>1, <3>1 DEF StandInv, Stands, Grounded, Forced
    <3>3. kind = "deploy" /\ running.rev # None => Cleared(r)'
      BY <2>1, <2>3, <3>1, <3>2 DEF Cleared
    <3> QED
      BY <2>1, <3>1, <3>3 DEF Stands
  <2> QED
    BY <1>2, <2>2, <2>3 DEF Classify
(* The switch: from here on the target is what runs.                       *)
<1>3. ASSUME NEW r \in Run, Switch(r) PROVE Stands(r)'
  <2> DEFINE t == run[r].target
  <2>0. run[r].pc = "switch" /\ run[r].action = "deploy" /\ accepted' = accepted
    BY <1>3 DEF Switch, StandInv, Stands
  <2>1. PICK o \in Rebuilds :
          /\ IF o.activated
               THEN running' = [rev |-> t, listed |-> Object[t].listed]
               ELSE running' = running
          /\ \/ Deploys(o) /\ Goto(r, "record")
             \/ run' = [run EXCEPT ![r].attempt = 2]
             \/ Exit(r, "1")
    BY <1>3 DEF Switch
  <2>2. CASE Exit(r, "1")
    BY <1>0, <2>2, ExitedType DEF Exit, Stands, Approved
  <2>3. CASE Deploys(o) /\ Goto(r, "record")
    <3>1. /\ run'[r].pc = "record" /\ run'[r].target = t
          /\ run'[r].action = "deploy"
      BY <1>0, <2>0, <2>3 DEF Goto, RunState
    <3>2. running'.rev = t
      BY <2>1, <2>3, DeploysActivated
    <3> QED
      BY <3>1, <3>2 DEF Stands
  <2>4. CASE run' = [run EXCEPT ![r].attempt = 2]
    <3>1. /\ run'[r].pc = "switch" /\ run'[r].target = t
          /\ run'[r].action = "deploy" /\ run'[r].anchor = run[r].anchor
          /\ run'[r].opt = run[r].opt
      BY <1>0, <2>0, <2>4 DEF RunState
    <3>2. CASE running' = running
      <4>1. running.rev \in {None, t} \/ Cleared(r)
        BY <2>0 DEF StandInv, Stands, Approved
      <4>2. Cleared(r) => Cleared(r)'
        BY <2>0, <3>1, <3>2 DEF Cleared, Grounded, Forced
      <4> QED
        BY <3>1, <3>2, <4>1, <4>2 DEF Stands
    <3>3. CASE running'.rev = t
      BY <3>1, <3>3 DEF Stands
    <3> QED
      BY <2>1, <3>2, <3>3
  <2> QED
    BY <2>1, <2>2, <2>3, <2>4
(* Every other step keeps what was approved, and where it stands.          *)
<1>4. ASSUME \A r \in Run : ~ReadAnchor(r) /\ ~Classify(r) /\ ~Switch(r),
             NEW r \in Run
      PROVE  Stands(r)'
  <2>1. Keeps(r)
    BY <1>0, <1>4, StepKeeps
  <2>2. accepted' = accepted /\ (running' = running \/ running'.rev = None)
    BY <1>4, RunningSteps DEF ActivateUnversioned
  <2>3. Stands(r)
    BY DEF StandInv
  <2>4. CASE run'[r] = run[r]
    <3>1. CASE running' = running
      BY <2>2, <2>3, <2>4, <3>1 DEF Stands, Cleared, Grounded, Forced
    <3>2. CASE running'.rev = None
      BY <2>3, <2>4, <3>2 DEF Stands
    <3> QED
      BY <2>2, <3>1, <3>2
  <2>5. CASE run'[r].pc \notin {"classify"} \cup Approved
    BY <2>5 DEF Stands, Approved
  <2>6. CASE /\ run[r].pc \in Approved /\ run'[r].pc \in Approved
             /\ run'[r].opt = run[r].opt /\ run'[r].action = run[r].action
             /\ run'[r].anchor = run[r].anchor /\ run'[r].target = run[r].target
             /\ run'[r].pc \in {"preflight", "switch"} =>
                  \/ run[r].pc \in {"preflight", "switch"}
                  \/ run[r].action # "noop"
             /\ run'[r].pc = "record" => run[r].pc = "record"
    <3>1. run'[r].action = "deploy" =>
            running'.rev \in {None, run'[r].target} \/ Cleared(r)'
      <4>1. Cleared(r) /\ running' = running => Cleared(r)'
        BY <2>2, <2>6 DEF Cleared, Grounded, Forced
      <4> QED
        BY <2>2, <2>3, <2>6, <4>1 DEF Stands
    <3> QED
      BY <2>2, <2>3, <2>6, <3>1 DEF Stands, Approved
  <2> QED
    BY <2>1, <2>4, <2>5, <2>6 DEF Keeps
<1> QED
  BY <1>0, <1>1, <1>2, <1>3, <1>4 DEF OneInvocation, StandInv

-----------------------------------------------------------------------------
(* What a switch does, when it does anything to the running system.        *)
LEMMA SwitchMoves ==
  ASSUME StandInv, NEW r \in Run, Switch(r), running' # running
  PROVE  /\ run[r].target \in Commit /\ run[r].opt \in Options
         /\ running' = [rev |-> run[r].target,
                        listed |-> Object[run[r].target].listed]
         /\ running.rev \in {None, run[r].target} \/ Cleared(r)
<1>1. run[r].pc = "switch"
  BY DEF Switch
<1>2. run[r].target \in Commit /\ run[r].opt \in Options
  BY <1>1 DEF StandInv, TypeInv, LocalsOK, LocalOK, Selected
<1>3. running' = [rev |-> run[r].target, listed |-> Object[run[r].target].listed]
  BY DEF Switch
<1>4. running.rev \in {None, run[r].target} \/ Cleared(r)
  BY <1>1 DEF StandInv, Stands, Approved
<1> QED
  BY <1>2, <1>3, <1>4

(* A running revision is replaced only by a switch to a target that was    *)
(* cleared.                                                                *)
LEMMA ReplacedBySwitch ==
  ASSUME StandInv, [Next]_vars, Replaced
  PROVE  \E r \in Run : /\ run[r].opt \in Options
                        /\ running'.rev = run[r].target
                        /\ Cleared(r)
<1>1. PICK r \in Run : Switch(r)
  BY RunningSteps DEF Replaced, ActivateUnversioned
<1>2. running' # running
  BY DEF Replaced
<1> QED
  BY <1>1, <1>2, SwitchMoves DEF Replaced

(* NoRollback of a single invocation, even when unversioned activations    *)
(* come between its steps.                                                 *)
THEOREM NeverRollsBack == ASSUME OneInvocation PROVE Spec => NoRollback
<1>1. Init => StandInv
  BY InitStandInv
<1>2. StandInv /\ [Next]_vars => StandInv'
  BY OneInvocation, NextStandInv
<1>3. StandInv /\ [Next]_vars =>
        (Replaced => \/ IsAncestor(running.rev, running'.rev)
                     \/ running'.rev \in ForcedTargets)
  <2> SUFFICES ASSUME StandInv, [Next]_vars, Replaced
               PROVE  \/ IsAncestor(running.rev, running'.rev)
                      \/ running'.rev \in ForcedTargets
    OBVIOUS
  <2>1. PICK r \in Run : /\ run[r].opt \in Options
                         /\ running'.rev = run[r].target
                         /\ Cleared(r)
    BY ReplacedBySwitch
  <2>2. CASE Forced(r)
    <3>1. run[r].opt # None
      BY <2>1, FleetUpdateAssumption DEF FleetUpdateAssumption
    <3> QED
      BY <2>1, <2>2, <3>1 DEF Forced, ForcedTargets
  <2>3. CASE ~Forced(r)
    BY <2>1, <2>3 DEF Cleared, Grounded
  <2> QED
    BY <2>2, <2>3
<1> QED
  BY <1>1, <1>2, <1>3, PTL DEF Spec, NoRollback

(* SwitchUnderCurrentTrust of a single invocation: the keys that admit a   *)
(* deploy are those installed at the switch, not those of an earlier or a  *)
(* later closure.                                                          *)
THEOREM SwitchTrustsCurrentKeys ==
  ASSUME OneInvocation PROVE Spec => SwitchUnderCurrentTrust
<1>1. Init => StandInv
  BY InitStandInv
<1>2. StandInv /\ [Next]_vars => StandInv'
  BY OneInvocation, NextStandInv
<1>3. StandInv /\ [Next]_vars =>
        (Replaced =>
           \A d \in Reach[running'.rev] \ (Reach[running.rev] \cup accepted) :
             Verifies(d, running.listed))
  <2> SUFFICES ASSUME StandInv, [Next]_vars, Replaced,
                      NEW d \in Reach[running'.rev]
                                  \ (Reach[running.rev] \cup accepted)
               PROVE  Verifies(d, running.listed)
    OBVIOUS
  <2>1. PICK r \in Run : running'.rev = run[r].target /\ Cleared(r)
    BY ReplacedBySwitch
  <2>2. d \notin Reach[run[r].anchor]
    BY <2>1 DEF Cleared, Grounded
  <2> QED
    BY <2>1, <2>2 DEF Cleared, RangeVerifies, CommitRange
<1> QED
  BY <1>1, <1>2, <1>3, PTL DEF Spec, SwitchUnderCurrentTrust

-----------------------------------------------------------------------------
(* Refinement: without unversioned activations the host always knows the   *)
(* revision it stands on, a switch that activates is a step of the ratchet *)
(* and every other step stutters.                                          *)
RatchetInv == StandInv /\ running.rev # None

(* The ratchet judges a commit by the policy fleet-update applies.         *)
LEMMA SamePolicy ==
  /\ \A c, d : Ratchet!IsAncestor(c, d) = IsAncestor(c, d)
  /\ \A c, d, K : Ratchet!RangeVerifies(c, d, K) = RangeVerifies(c, d, K)
  /\ \A c, K : Ratchet!MayBeRoot(c, K) = MayBeRoot(c, K)
<1>1. \A S : Ratchet!Cardinality(S) = Cardinality(S)
  BY DEF Cardinality, Ratchet!Cardinality
<1>2. \A c : Ratchet!ForgejoMergePolicy(c) = ForgejoMergePolicy(c)
  BY <1>1 DEF ForgejoMergePolicy, Ratchet!ForgejoMergePolicy
<1>3. \A c, K : Ratchet!Verifies(c, K) = Verifies(c, K)
  BY <1>2 DEF Verifies, Ratchet!Verifies
<1>4. \A c, d, K : Ratchet!RangeVerifies(c, d, K) = RangeVerifies(c, d, K)
  BY <1>3 DEF RangeVerifies, CommitRange, Ratchet!RangeVerifies,
              Ratchet!CommitRange
<1> QED
  BY <1>3, <1>4 DEF IsAncestor, Ratchet!IsAncestor, MayBeRoot,
                    Ratchet!MayBeRoot

(* The initial states map to those of the ratchet ...                      *)
LEMMA InitRatchet == Init => RatchetInv /\ Ratchet!Init
<1> SUFFICES ASSUME Init PROVE RatchetInv /\ Ratchet!Init
  OBVIOUS
<1>1. PICK c \in Installed : running = [rev |-> c, listed |-> Object[c].listed]
  BY DEF Init
<1>2. c # None
  BY CommitFacts, FleetUpdateAssumption DEF FleetUpdateAssumption
<1> QED
  BY <1>1, <1>2, InitStandInv DEF RatchetInv, Ratchet!Init, Anchor

(* ... and every step to one of its steps, or to none.                     *)
LEMMA StepRatchet ==
  ASSUME OneInvocation, Bypass = {}, RatchetInv, [Next]_vars
  PROVE  RatchetInv' /\ [Ratchet!Next]_(Ratchet!state)
<1>1. StandInv /\ StandInv'
  BY NextStandInv DEF RatchetInv
<1>2. CASE running' = running
  BY <1>1, <1>2 DEF RatchetInv, Ratchet!state, Anchor
<1>3. CASE running' # running
  <2>1. PICK r \in Run : Switch(r)
    BY <1>3, RunningSteps DEF ActivateUnversioned
  <2> DEFINE t == run[r].target
             a == run[r].anchor
  <2>2. /\ t \in Commit /\ run[r].opt \in Options
        /\ running' = [rev |-> t, listed |-> Object[t].listed]
        /\ running.rev = t \/ Cleared(r)
    BY <1>1, <1>3, <2>1, SwitchMoves DEF RatchetInv
  <2>3. t # None /\ Anchor = running.rev /\ Anchor' = t
    BY <2>2, CommitFacts DEF RatchetInv, Anchor
  <2>4. Ratchet!StandOn(t)
    BY <2>2, <2>3 DEF Ratchet!StandOn
  <2>5. ASSUME running.rev = t PROVE Ratchet!Next
    <3>1. IsAncestor(t, t) /\ RangeVerifies(t, t, running.listed)
      BY <2>2, CommitFacts DEF IsAncestor, RangeVerifies, CommitRange
    <3>2. Ratchet!Advance
      BY <2>2, <2>3, <2>4, <2>5, <3>1, SamePolicy DEF Ratchet!Advance
    <3> QED
      BY <3>2 DEF Ratchet!Next
  <2>6. ASSUME Cleared(r) /\ ~Forced(r) PROVE Ratchet!Next
    <3>1. a = Anchor
      BY <2>3, <2>6 DEF Cleared, Grounded
    <3>2. Ratchet!Advance
      BY <2>2, <2>4, <2>6, <3>1, SamePolicy DEF Ratchet!Advance, Cleared
    <3> QED
      BY <3>2 DEF Ratchet!Next
  <2>7. ASSUME Cleared(r) /\ Forced(r) PROVE Ratchet!Next
    <3>1. \E opt \in Options : opt.acceptNewRoot # None
      BY <2>2, <2>7 DEF Forced
    <3>2. Ratchet!ReRoot
      BY <2>2, <2>4, <2>7, <3>1, SamePolicy
        DEF Ratchet!ReRoot, Cleared, Grounded
    <3> QED
      BY <3>2 DEF Ratchet!Next
  <2>8. Ratchet!Next
    BY <2>2, <2>5, <2>6, <2>7
  <2> QED
    BY <1>1, <2>2, <2>3, <2>8 DEF RatchetInv
<1> QED
  BY <1>2, <1>3

(* fleet-update implements SignedRatchet, one invocation at a time and     *)
(* with no activation around it: none of its phases, retries, kills,       *)
(* partial switches and stale files lets the host leave the ratchet.       *)
THEOREM Implementation ==
  ASSUME OneInvocation, Bypass = {} PROVE Spec => ImplementsRatchet
<1>1. Init => RatchetInv /\ Ratchet!Init
  BY InitRatchet
<1>2. RatchetInv /\ [Next]_vars => RatchetInv' /\ [Ratchet!Next]_(Ratchet!state)
  BY OneInvocation, Bypass = {}, StepRatchet
<1> QED
  BY <1>1, <1>2, PTL DEF Spec, ImplementsRatchet, Ratchet!Spec

-----------------------------------------------------------------------------
(* The anchor file.  Only write_success_anchor writes it.                  *)
LEMMA AncestorFacts ==
  /\ \A c \in Commit : IsAncestor(c, c)
  /\ \A a, b : \A c \in Commit :
       IsAncestor(a, b) /\ IsAncestor(b, c) => IsAncestor(a, c)
BY HistoryAssumption, CommitFacts DEF HistoryAssumption, IsAncestor

(* Each state file is written by one step of the program.                  *)
LEMMA FileSteps ==
  ASSUME [Next]_vars
  PROVE  /\ lastVerified' = lastVerified \/ \E r \in Run : WriteAnchor(r)
         /\ highestSeen' = highestSeen \/ \E r \in Run : WriteHighestSeen(r)
         /\ freshness' = freshness \/ \E r \in Run : WriteFreshness(r)
<1>1. CASE UNCHANGED vars
  BY <1>1 DEF vars, files
<1>2. CASE Environment
  BY <1>2 DEF Environment, Publish, Mirror, ActivateUnversioned, Tick, files
<1>3. ASSUME NEW r \in Run, Start(r) \/ Kill(r) PROVE UNCHANGED files
  BY <1>3 DEF Start, Kill
<1>4. ASSUME NEW r \in Run, Step(r), ~WriteAnchor(r), ~WriteHighestSeen(r),
             ~WriteFreshness(r)
      PROVE  UNCHANGED <<lastVerified, highestSeen, freshness>>
  BY <1>4 DEF Step, Clone, FetchOk, FetchFails, Fetched, VerifyTips,
     SelectTarget, ReadAnchor, Classify, ReadHeartbeat, Preflight, Switch, files
<1>5. ASSUME NEW r \in Run, WriteAnchor(r) PROVE UNCHANGED <<highestSeen, freshness>>
  BY <1>5 DEF WriteAnchor
<1>6. ASSUME NEW r \in Run, WriteHighestSeen(r)
      PROVE  UNCHANGED <<lastVerified, freshness>>
  BY <1>6 DEF WriteHighestSeen
<1>7. ASSUME NEW r \in Run, WriteFreshness(r)
      PROVE  UNCHANGED <<lastVerified, highestSeen>>
  BY <1>7 DEF WriteFreshness
<1> QED
  BY <1>1, <1>2, <1>3, <1>4, <1>5, <1>6, <1>7 DEF Next, files

(* At the start the anchor is the running revision.                        *)
LEMMA InitAnchorInv == Init => AnchorInv
<1> SUFFICES ASSUME Init PROVE AnchorInv
  OBVIOUS
<1>1. lastVerified = None
  BY DEF Init
<1> QED
  BY <1>1, InitStandInv DEF AnchorInv, AnchorFollowsRunning, Behind

(* Every step keeps the anchor at or behind it: the switch comes first,    *)
(* then the file.                                                          *)
LEMMA NextAnchorInv ==
  ASSUME OneInvocation, NoReRoots, AnchorInv, [Next]_vars
  PROVE  AnchorInv'
<1>0. /\ StandInv /\ TypeInv
      /\ StandInv' /\ TypeInv'
  BY NextStandInv DEF AnchorInv, StandInv
(* The file stays behind the target, along anchor <= target.               *)
<1>1. ASSUME NEW r \in Run, WriteAnchor(r) PROVE Behind(r)'
  BY <1>0, <1>1, ExitedType
    DEF WriteAnchor, Exit, Behind, Approved, TypeInv, TypeOK
<1>2. ASSUME NEW r \in Run, ReadAnchor(r) PROVE Behind(r)'
  <2>1. run[r].opt \in Options
    BY <1>0, <1>2 DEF ReadAnchor, TypeInv, LocalsOK, LocalOK
  <2>2. run[r].opt.acceptNewRoot = None
    BY <2>1, NoReRoots DEF NoReRoots
  <2>3. UNCHANGED <<running, lastVerified>>
    BY <1>2 DEF ReadAnchor, files
  <2>4. CASE Exit(r, "tamper")
    BY <1>0, <2>4, ExitedType DEF Exit, Behind, Approved, TypeInv, TypeOK
  <2>5. CASE run' = [run EXCEPT ![r].pc = "classify", ![r].anchor = Anchor]
    <3>1. run'[r].pc = "classify" /\ run'[r].anchor = Anchor
      BY <1>0, <2>5 DEF TypeInv, TypeOK, RunState
    <3>2. lastVerified # None => IsAncestor(lastVerified, Anchor)
      BY <1>0, AncestorFacts
        DEF AnchorInv, AnchorFollowsRunning, Anchor, TypeInv, TypeOK,
            CommitOrNone
    <3> QED
      BY <2>3, <3>1, <3>2 DEF Behind, Approved
  <2> QED
    BY <1>2, <2>2, <2>4, <2>5 DEF ReadAnchor
<1>3. ASSUME NEW r \in Run, Classify(r) PROVE Behind(r)'
  <2>1. run[r].pc = "classify" /\ lastVerified' = lastVerified
    BY <1>3 DEF Classify, files
  <2>2. run[r].target \in Commit
    BY <1>0, <2>1 DEF TypeInv, LocalsOK, LocalOK, Selected
  <2>3. ASSUME NEW e \in {"0", "tamper"}, Exit(r, e) PROVE Behind(r)'
    BY <1>0, <2>3, ExitedType DEF Exit, Behind, Approved, TypeInv, TypeOK
  <2>4. ASSUME NEW kind \in {"noop", "deploy"},
               run' = [run EXCEPT ![r].pc = "beat", ![r].action = kind],
               IsAncestor(run[r].anchor, run[r].target)
        PROVE  Behind(r)'
    <3>1. run'[r].pc = "beat" /\ run'[r].target = run[r].target
      BY <1>0, <2>4 DEF TypeInv, TypeOK, RunState
    <3>2. lastVerified # None => IsAncestor(lastVerified, run[r].target)
      BY <2>1, <2>2, <2>4, AncestorFacts DEF AnchorInv, Behind
    <3> QED
      BY <2>1, <3>1, <3>2 DEF Behind
  <2>5. run[r].target = run[r].anchor => IsAncestor(run[r].anchor, run[r].target)
    BY <2>2, AncestorFacts
  <2> QED
    BY <1>3, <2>3, <2>4, <2>5 DEF Classify
<1>4. ASSUME \A r \in Run : ~WriteAnchor(r) /\ ~ReadAnchor(r) /\ ~Classify(r),
             NEW r \in Run
      PROVE  Behind(r)'
  <2>1. Carries(r)
    BY <1>0, <1>4, StepCarries
  <2>2. lastVerified' = lastVerified
    BY <1>4, FileSteps
  <2>3. Behind(r)
    BY DEF AnchorInv
  <2> QED
    BY <2>1, <2>2, <2>3 DEF Carries, Behind, Approved
<1>5. \A r \in Run : Behind(r)'
  BY <1>1, <1>2, <1>3, <1>4 DEF OneInvocation
(* ... so it is behind what the switch makes run, and a target that is     *)
(* recorded is the one that runs.                                          *)
<1>6. ASSUME NEW r \in Run, Switch(r), running' # running
      PROVE  AnchorFollowsRunning'
  <2>1. running'.rev = run[r].target
    BY <1>0, <1>6, SwitchMoves
  <2>2. lastVerified' = lastVerified
    BY <1>6 DEF Switch, files
  <2>3. lastVerified # None => IsAncestor(lastVerified, run[r].target)
    BY <1>6 DEF Switch, AnchorInv, Behind, Approved
  <2> QED
    BY <2>1, <2>2, <2>3 DEF AnchorFollowsRunning
<1>7. ASSUME NEW r \in Run, WriteAnchor(r) PROVE AnchorFollowsRunning'
  <2>1. run[r].pc = "record" /\ lastVerified' = run[r].target /\ running' = running
    BY <1>7 DEF WriteAnchor
  <2>2. running.rev \in {None, run[r].target} /\ run[r].target \in Commit
    BY <1>0, <2>1 DEF StandInv, Stands, TypeInv, LocalsOK, LocalOK, Selected
  <2> QED
    BY <2>1, <2>2, AncestorFacts DEF AnchorFollowsRunning
<1>8. ASSUME lastVerified' = lastVerified,
             running' = running \/ ActivateUnversioned
      PROVE  AnchorFollowsRunning'
  BY <1>8 DEF AnchorInv, AnchorFollowsRunning, ActivateUnversioned
<1>9. AnchorFollowsRunning'
  <2>1. CASE \E r \in Run : WriteAnchor(r)
    BY <1>7, <2>1
  <2>2. CASE lastVerified' = lastVerified
    BY <1>6, <1>8, <2>2, RunningSteps
  <2> QED
    BY <2>1, <2>2, FileSteps
<1> QED
  BY <1>0, <1>5, <1>9 DEF AnchorInv

(* AnchorFollowsRunning where no root is ever re-accepted: a switch that   *)
(* activates but is not recorded, a kill before write_success_anchor and   *)
(* an unversioned activation leave the anchor file behind, never beside or *)
(* ahead of, the running revision.                                         *)
THEOREM AnchorStaysBehind ==
  ASSUME OneInvocation, NoReRoots PROVE Spec => []AnchorFollowsRunning
<1>1. Init => AnchorInv
  BY InitAnchorInv
<1>2. AnchorInv /\ [Next]_vars => AnchorInv'
  BY OneInvocation, NoReRoots, NextAnchorInv
<1>3. AnchorInv => AnchorFollowsRunning
  BY DEF AnchorInv
<1> QED
  BY <1>1, <1>2, <1>3, PTL DEF Spec

-----------------------------------------------------------------------------
(* Freshness.                                                              *)
LEMMA HeartbeatFacts ==
  ASSUME NEW c \in Commit, Object[c].heartbeat # None
  PROVE  LET beat == Object[c].heartbeat IN
         /\ beat.epoch \in Nat
         /\ beat = [by |-> beat.by, epoch |-> beat.epoch, green |-> beat.green]
BY HistoryAssumption DEF HistoryAssumption, CommitObject, Heartbeat

(* Only record_verified_freshness enters the phases of its two writes.     *)
LEMMA StepsToFresh ==
  ASSUME TypeInv, [Next]_vars,
         \A r \in Run : ~ReadHeartbeat(r) /\ ~WriteHighestSeen(r)
  PROVE  \A s \in Run : \/ run'[s] = run[s]
                        \/ run'[s].pc \notin {"highest", "marker"}
<1> DEFINE Elsewhere(s) == \/ run'[s] = run[s]
                           \/ run'[s].pc \notin {"highest", "marker"}
<1> SUFFICES ASSUME NEW s \in Run PROVE Elsewhere(s)
  OBVIOUS
<1>1. CASE UNCHANGED vars \/ Environment
  BY <1>1 DEF vars, Environment, Publish, Mirror, ActivateUnversioned, Tick
<1>2. ASSUME NEW r \in Run, Start(r) \/ Step(r) \/ Kill(r), s # r
      PROVE  Elsewhere(s)
  BY <1>2, OthersStay
<1> USE DEF TypeInv, TypeOK
<1>3. CASE \/ Start(s) \/ Clone(s) \/ FetchFails(s) \/ Fetched(s)
           \/ VerifyTips(s)
  <2>1. CASE Start(s)
    BY <2>1 DEF Start, Exited
  <2>2. CASE Clone(s)
    BY <2>2 DEF Clone, Exit, Exited, RunState
  <2>3. CASE FetchFails(s)
    BY <2>3 DEF FetchFails, RunState
  <2>4. CASE Fetched(s) \/ VerifyTips(s)
    BY <2>4 DEF Fetched, VerifyTips, Exit, Exited, Goto, RunState
  <2> QED
    BY <1>3, <2>1, <2>2, <2>3, <2>4
<1>4. CASE SelectTarget(s) \/ ReadAnchor(s) \/ Classify(s)
  <2>1. CASE SelectTarget(s)
    BY <2>1 DEF SelectTarget, Exit, Exited, RunState
  <2>2. CASE ReadAnchor(s)
    BY <2>2 DEF ReadAnchor, Exit, Exited, RunState
  <2>3. CASE Classify(s)
    BY <2>3 DEF Classify, Exit, Exited, RunState
  <2> QED
    BY <1>4, <2>1, <2>2, <2>3
<1>5. CASE \/ WriteFreshness(s) \/ Preflight(s) \/ WriteAnchor(s) \/ Kill(s)
  BY <1>5 DEF WriteFreshness, AfterFreshness, Preflight, WriteAnchor, Kill,
              Exit, Exited, Goto, RunState
<1>6. CASE Switch(s)
  BY <1>6 DEF Switch, Exit, Exited, Goto, RunState
<1>7. CASE FetchOk(s)
  <2> DEFINE o == Origins[run[s].next]
             l == [run[s] EXCEPT !.candidate[o] = origin[o][run[s].opt.branch],
                                 !.next = @ + 1]
  <2>1. run' = [run EXCEPT ![s] = l] /\ run[s].pc = "fetch"
    BY <1>7 DEF FetchOk
  <2>2. l.pc = run[s].pc
    BY DEF RunState
  <2> QED
    BY <2>1, <2>2
<1> QED
  BY <1>1, <1>2, <1>3, <1>4, <1>5, <1>6, <1>7 DEF Next, Step

(* At the start no heartbeat was seen.                                     *)
LEMMA InitFreshInv == Init => FreshInv
<1> SUFFICES ASSUME Init PROVE FreshInv
  OBVIOUS
<1>1. freshness = None /\ \A r \in Run : run[r].pc = "idle"
  BY ExitedType DEF Init
<1> QED
  BY <1>1, InitTrustInv DEF FreshInv, FreshnessAuthentic, Fresh

(* Every step keeps the freshness marker and the highest heartbeat behind  *)
(* one that was verified.                                                  *)
LEMMA NextFreshInv ==
  ASSUME OneInvocation, FreshInv, [Next]_vars
  PROVE  FreshInv'
<1>0. /\ TrustInv /\ TrustInv' /\ TypeInv
      /\ everListed \subseteq everListed' /\ highestSeen \in Nat
  BY NextTrustInv, HistoryGrows DEF FreshInv, TrustInv, TypeInv, TypeOK
(* What the checks of record_verified_freshness hand to its writes.        *)
<1>1. ASSUME NEW r \in Run, ReadHeartbeat(r) PROVE Fresh(r)'
  <2> DEFINE t == run[r].target
             beat == Object[t].heartbeat
  <2>1. /\ run[r].pc = "beat" /\ run[r] \in RunState
        /\ UNCHANGED <<everListed, highestSeen>>
    BY <1>0, <1>1 DEF ReadHeartbeat, TypeInv, TypeOK, files, history
  <2>2. t \in Commit
    BY <1>0, <2>1 DEF TypeInv, LocalsOK, LocalOK, Selected
  <2>3. CASE AfterFreshness(r)
    BY <1>0, <2>1, <2>3
      DEF AfterFreshness, Exit, Exited, Goto, Fresh, TypeInv, TypeOK, RunState
  <2>4. CASE /\ FreshAt(t, running.listed, now) /\ NotReplayed(t)
             /\ run' = [run EXCEPT
                  ![r].pc = IF beat.epoch > highestSeen THEN "highest"
                                                        ELSE "marker",
                  ![r].checked = now]
    <3>1. /\ run'[r].pc = IF beat.epoch > highestSeen THEN "highest" ELSE "marker"
          /\ run'[r].target = t /\ run'[r].checked = now
      BY <1>0, <2>1, <2>4 DEF TypeInv, TypeOK, RunState
    <3>2. /\ beat.epoch \in Nat /\ beat.green /\ now <= beat.epoch + MaxAge
          /\ Object[beat.by].signer = Bot /\ Bot \in running.listed
      BY <2>2, <2>4, HeartbeatFacts DEF FreshAt, VerifiesAs, Verifies
    <3>3. Bot \in everListed
      BY <1>0, <3>2 DEF TrustInv
    <3>4. IF run'[r].pc = "highest" THEN beat.epoch > highestSeen
                                    ELSE beat.epoch = highestSeen
      BY <1>0, <2>4, <3>1, <3>2 DEF NotReplayed
    <3> QED
      BY <2>1, <3>1, <3>2, <3>3, <3>4 DEF Fresh
  <2> QED
    BY <1>1, <2>3, <2>4 DEF ReadHeartbeat
<1>2. ASSUME NEW r \in Run, WriteHighestSeen(r)
      PROVE  Fresh(r)' /\ FreshnessAuthentic'
  <2> DEFINE t == run[r].target
             beat == Object[t].heartbeat
  <2>1. /\ run[r].pc = "highest" /\ highestSeen' = beat.epoch
        /\ UNCHANGED <<everListed, freshness>>
    BY <1>2 DEF WriteHighestSeen, history
  <2>2. run'[r].pc = "marker" /\ run'[r].target = t
        /\ run'[r].checked = run[r].checked
    BY <1>0, <1>2 DEF WriteHighestSeen, Goto, TypeInv, TypeOK, RunState
  <2>3. Fresh(r) /\ beat.epoch > highestSeen
    BY <2>1 DEF FreshInv, Fresh
  <2>4. Fresh(r)'
    BY <2>1, <2>2, <2>3 DEF Fresh
  <2>5. beat.epoch \in Nat
    BY <1>0, <2>1, HeartbeatFacts DEF TypeInv, LocalsOK, LocalOK, Selected
  <2>6. FreshnessAuthentic'
    <3>1. freshness # None => freshness.epoch \in Nat
      BY <1>0 DEF TypeInv, TypeOK, Marker
    <3> QED
      BY <1>0, <2>1, <2>3, <2>5, <3>1 DEF FreshInv, FreshnessAuthentic
  <2> QED
    BY <2>4, <2>6
<1>3. ASSUME \A r \in Run : ~ReadHeartbeat(r) /\ ~WriteHighestSeen(r),
             NEW r \in Run
      PROVE  Fresh(r)'
  <2>1. run'[r] = run[r] \/ run'[r].pc \notin {"highest", "marker"}
    BY <1>0, <1>3, StepsToFresh
  <2>2. highestSeen' = highestSeen
    BY <1>3, FileSteps
  <2>3. Fresh(r)
    BY DEF FreshInv
  <2> QED
    BY <1>0, <2>1, <2>2, <2>3 DEF Fresh
(* The marker is written from what was checked, under the same guard.      *)
<1>4. ASSUME NEW r \in Run, WriteFreshness(r) PROVE FreshnessAuthentic'
  <2> DEFINE t == run[r].target
             beat == Object[t].heartbeat
  <2>1. /\ run[r].pc = "marker" /\ UNCHANGED <<everListed, highestSeen>>
        /\ freshness' = [epoch |-> beat.epoch, observed |-> run[r].checked,
                         target |-> t, by |-> beat.by]
    BY <1>4 DEF WriteFreshness, history
  <2>2. t \in Commit /\ beat # None
    BY <1>0, <2>1 DEF TypeInv, LocalsOK, LocalOK, Selected
  <2>3. /\ beat.epoch \in Nat
        /\ beat = [by |-> beat.by, epoch |-> beat.epoch, green |-> beat.green]
    BY <2>2, HeartbeatFacts
  <2>4. /\ Object[beat.by].signer = Bot /\ Bot \in everListed
        /\ beat.green /\ run[r].checked <= beat.epoch + MaxAge
        /\ beat.epoch = highestSeen
    BY <2>1 DEF FreshInv, Fresh
  <2>5. beat.green \in BOOLEAN
    BY <2>2, HistoryAssumption DEF HistoryAssumption, CommitObject, Heartbeat
  <2> QED
    BY <2>1, <2>3, <2>4, <2>5 DEF FreshnessAuthentic
<1>5. FreshnessAuthentic'
  <2>1. CASE UNCHANGED <<freshness, highestSeen>>
    BY <1>0, <2>1 DEF FreshInv, FreshnessAuthentic
  <2> QED
    BY <1>2, <1>4, <2>1, FileSteps
<1>6. \A r \in Run : Fresh(r)'
  BY <1>1, <1>2, <1>3 DEF OneInvocation
<1> QED
  BY <1>0, <1>5, <1>6 DEF FreshInv

(* FreshnessAuthentic of a single invocation: what the marker says was     *)
(* checked, whatever the forge replays and wherever a run is killed.       *)
THEOREM FreshnessIsAuthentic ==
  ASSUME OneInvocation PROVE Spec => []FreshnessAuthentic
<1>1. Init => FreshInv
  BY InitFreshInv
<1>2. FreshInv /\ [Next]_vars => FreshInv'
  BY OneInvocation, NextFreshInv
<1>3. FreshInv => FreshnessAuthentic
  BY DEF FreshInv
<1> QED
  BY <1>1, <1>2, <1>3, PTL DEF Spec

(* FreshnessNeverRegresses of a single invocation: the recorded epoch is   *)
(* the highest one seen at the write, and the marker never exceeded that.  *)
THEOREM FreshnessAdvances ==
  ASSUME OneInvocation PROVE Spec => FreshnessNeverRegresses
<1>1. Init => FreshInv
  BY InitFreshInv
<1>2. FreshInv /\ [Next]_vars => FreshInv'
  BY OneInvocation, NextFreshInv
<1>3. FreshInv /\ [Next]_vars =>
        (freshness # None /\ freshness' # freshness
           => freshness'.epoch >= freshness.epoch)
  <2> SUFFICES ASSUME FreshInv, [Next]_vars, freshness # None,
                      freshness' # freshness
               PROVE  freshness'.epoch >= freshness.epoch
    OBVIOUS
  <2>1. PICK r \in Run : WriteFreshness(r)
    BY FileSteps
  <2>2. freshness'.epoch = Object[run[r].target].heartbeat.epoch
        /\ run[r].pc = "marker"
    BY <2>1 DEF WriteFreshness
  <2>3. freshness'.epoch = highestSeen
    BY <2>2 DEF FreshInv, Fresh
  <2>4. freshness.epoch <= highestSeen
    BY DEF FreshInv, FreshnessAuthentic
  <2>5. freshness.epoch \in Nat /\ highestSeen \in Nat
    BY DEF FreshInv, TrustInv, TypeInv, TypeOK, Marker
  <2> QED
    BY <2>3, <2>4, <2>5
<1> QED
  BY <1>1, <1>2, <1>3, PTL DEF Spec, FreshnessNeverRegresses
=============================================================================
