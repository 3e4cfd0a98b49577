---------------------------- MODULE RollingUpdate ----------------------------
(***************************************************************************)
(* The rolling flake update bot of doc1 (rolling_flake_update.sh and       *)
(* populate_cache.sh) and the forge it pushes to.  One night: clone and    *)
(* verify master; update every group at once, or each in a transaction of  *)
(* its own; commit what builds, restore what does not; sign a heartbeat;   *)
(* push, rebasing when somebody else pushed during the build; check the    *)
(* push; record the base anchor; activate the closures that were built.    *)
(*                                                                         *)
(* The clone is thrown away at the end of a night, so what survives a kill *)
(* is the forge, the base anchor, the GC roots of built closures, the      *)
(* activated host and the failure streak.                                  *)
(***************************************************************************)
EXTENDS Naturals, FiniteSets, SequencesExt

CONSTANTS
  Groups,        \* the names of the groups, in the order they are tried
  Core,          \* the group that moves nixpkgs and owns package holds
  Held,          \* a hold in nix/held-packages.json
  Bot,           \* the bot's signing principal
  ForgejoMerge,  \* FORGEJO_MERGE_PRINCIPAL
  Trusted,       \* the principals ALLOWED_SIGNERS_FILE lists
  Green,         \* the trees that evaluate and build on every host
  Seed,          \* trees master may start with
  Pushes,        \* what others push: a signer, a kind of merge, a change
  Rewrites,      \* may the forge replace what master already has?
  None,
  MaxRuns, MaxFaults, MaxPushes, MaxTime   \* bounds of the model

Group == {Groups[i] : i \in DOMAIN Groups}
Change == {p.change : p \in Pushes}

(* A tree is the set of changes made to it since the seed: updates of      *)
(* groups, a hold, changes of others.                                      *)
Tree == SUBSET (Group \cup {Held} \cup Change)
Heartbeat == [epoch : Nat, green : BOOLEAN]
Commit ==
  [ signer : {p.signer : p \in Pushes} \cup {Bot},
    merge : BOOLEAN,    \* a clean two-parent merge, made by the forge?
    tree : Tree, beat : Heartbeat ]

ASSUME RollingAssumption ==
  /\ Groups \in Seq(STRING) /\ IsInjective(Groups) /\ Core \in Group
  /\ Held \notin Group \cup Change /\ Group \cap Change = {}
  /\ Green \subseteq Tree /\ Seed \subseteq Tree
  /\ Rewrites \in BOOLEAN
  /\ \A p \in Pushes : p.merge \in BOOLEAN
  /\ {MaxRuns, MaxFaults, MaxPushes, MaxTime} \subseteq Nat

VARIABLES
  master,    \* the forge's branch: its commits from the seed on
  upstream,  \* groups for which an update has been published
  anchor,    \* BASE_ANCHOR_FILE: the history up to the recorded commit
  roots,     \* the tree whose closures the GC roots point to
  deployed,  \* the tree push-deploy last activated
  streak,    \* failure-streak, raised by rolling_flake_update_alert.sh
  now,       \* the clock
  bot,       \* the run in progress, or how the last one ended
  built,     \* history: the trees populate_cache.sh has built
  count      \* how much of each bound is used

store == <<anchor, roots, deployed, streak>>
outside == <<upstream, now>>
vars == <<master, store, outside, bot, built, count>>

PC == {"idle", "update", "build", "commit", "restore", "beat", "push", "race",
       "verify", "anchor", "deploy", "finish"}

(* How a run may end; "unadvanced" is verify_remote_push's own error.      *)
Exit == {"0", "1", "aborted", "fatal", "unadvanced", "killed"}

Ended(e, landed) ==
  [ pc |-> "idle", exit |-> e, base |-> <<>>, head |-> <<>>, work |-> {},
    next |-> 0, heldBack |-> FALSE, fail |-> FALSE, attempt |-> 0,
    red |-> {}, raced |-> FALSE, landed |-> landed ]

BotState ==
  [ pc : PC, exit : Exit,
    base : Seq(Commit),     \* origin/$BRANCH in the clone
    head : Seq(Commit),     \* HEAD
    work : Tree,            \* the work tree
    next : 0..Len(Groups),  \* the transaction: 0 is all groups at once
    heldBack : BOOLEAN,     \* has this transaction auto-held a package?
    fail : BOOLEAN,         \* ANY_FAIL
    attempt : 0..3,         \* of push_with_retries
    red : SUBSET Group,     \* history: groups that failed alone
    raced : BOOLEAN,        \* history: rebased onto a moved master?
    landed : BOOLEAN ]      \* history: has master taken this run's push?

TypeOK ==
  /\ master \in Seq(Commit) /\ anchor \in Seq(Commit)
  /\ upstream \subseteq Group
  /\ roots \in Tree \cup {None} /\ deployed \in Tree \cup {None}
  /\ streak \in Nat /\ now \in 0..MaxTime
  /\ bot \in BotState
  /\ built \subseteq Tree
  /\ count \in [runs : 0..MaxRuns, faults : 0..MaxFaults, pushes : 0..MaxPushes]

Init ==
  /\ \E t \in Seed :
       master = << [ signer |-> Bot, merge |-> FALSE, tree |-> t,
                     beat |-> [epoch |-> 0, green |-> TRUE] ] >>
  /\ anchor = master              \* seeded by hand, as verify_base_anchor asks
  /\ upstream = {} /\ roots = None /\ deployed = None /\ streak = 0
  /\ now = 0 /\ built = {}
  /\ bot = Ended("0", FALSE)
  /\ count = [runs |-> 0, faults |-> 0, pushes |-> 0]

-----------------------------------------------------------------------------
(* Helpers *)

Goto(pc) == bot' = [bot EXCEPT !.pc = pc]
End(e) == bot' = Ended(e, bot.landed)
Fatal == End("fatal")                                   \* fatal_error

(* Anything that may go wrong at any time, within the budget of a run of   *)
(* the model.                                                              *)
Fault ==
  /\ count.faults < MaxFaults
  /\ count' = [count EXCEPT !.faults = @ + 1]
NoFault == UNCHANGED count

(* verify_commit, with verify_forgejo_merge_policy                         *)
Verifies(c) == c.signer \in Trusted /\ (c.signer = ForgejoMerge => c.merge)

(* `git rev-list h..g`: the commits of g that h does not have.             *)
Shared(g, h) == Len(LongestCommonPrefix({g, h}))
Beyond(g, h) == {g[i] : i \in (Shared(g, h) + 1)..Len(g)}

(* A faulty range check, which enumerates nothing.                         *)
NoRange(g, h) == TRUE

(* verify_commit_range, verify_new_commits and verify_range_strict, h..g   *)
RangeVerifies(g, h) == \A c \in Beyond(g, h) : Verifies(c)

ByBot(tree, beat) ==
  [signer |-> Bot, merge |-> FALSE, tree |-> tree, beat |-> beat]

(* `git rebase`: every commit of h that g lacks is replayed on g, and      *)
(* signed by the bot whoever signed it before.                             *)
Rebased(h, g) ==
  LET k == Shared(h, g)
      old == h[k]
      new == Last(g)
      Replay(c) == ByBot((new.tree \cup (c.tree \ old.tree))
                           \ (old.tree \ c.tree),
                         IF c.beat # old.beat THEN c.beat ELSE new.beat)
  IN g \o [i \in 1..(Len(h) - k) |-> Replay(h[k + i])]

(* The groups of transaction i.                                            *)
Members(i) == IF i = 0 THEN Group ELSE {Groups[i]}

(* A faulty night, with no fallback after the combined transaction.        *)
NoFallback(b, landed) == [b EXCEPT !.pc = "beat"]

(* Where the night goes after a transaction: the fallback begins only when *)
(* the combined one did not land.                                          *)
Proceed(b, landed) ==
  IF b.next = Len(Groups) \/ (b.next = 0 /\ landed)
    THEN [b EXCEPT !.pc = "beat"]
    ELSE [b EXCEPT !.pc = "update", !.next = @ + 1]

(* A transaction that fails is rolled back; only a group that failed alone *)
(* makes the night a failure.                                              *)
TransactionFails ==
  bot' = [bot EXCEPT !.pc = "restore", !.fail = @ \/ bot.next # 0,
                     !.red = IF bot.next = 0 THEN @
                                             ELSE @ \cup Members(bot.next)]

-----------------------------------------------------------------------------
(* The night, in program order.                                            *)

(* Setup: the clone, verify_commit HEAD, verify_base_anchor and the EOL    *)
(* gate; a failure of any of them is fatal.                                *)
Start ==
  /\ bot.pc = "idle" /\ count.runs < MaxRuns
  /\ \/ /\ count' = [count EXCEPT !.runs = @ + 1]
        /\ IF Verifies(Last(master)) /\ IsPrefix(anchor, master)
                                     /\ RangeVerifies(master, anchor)
             THEN bot' = [Ended("0", FALSE) EXCEPT
                            !.pc = "update", !.base = master, !.head = master,
                            !.work = Last(master).tree]
             ELSE bot' = Ended("fatal", FALSE)
     \/ /\ count.faults < MaxFaults
        /\ count' = [count EXCEPT !.runs = @ + 1, !.faults = @ + 1]
        /\ bot' = Ended("fatal", FALSE)
  /\ UNCHANGED <<master, store, outside, built>>

(* What release_holds may make of a tree in which nixpkgs moved: a held    *)
(* package that builds again is let go.                                    *)
AfterRelease(t) == {t, t \ {Held}}

(* The update of try_all_groups or try_group.                              *)
Update ==
  LET new == (Members(bot.next) \cap upstream) \ bot.work
      updated == bot.work \cup new
  IN
  /\ bot.pc = "update"
  /\ \/ new = {} /\ bot' = Proceed(bot, TRUE) /\ NoFault
     \/ /\ new # {} /\ NoFault
        /\ \E t \in IF Core \in new THEN AfterRelease(updated)
                                   ELSE {updated} :
             bot' = [bot EXCEPT !.pc = "build", !.work = t,
                                !.heldBack = FALSE]
     \/ TransactionFails /\ Fault
  /\ UNCHANGED <<master, store, outside, built>>

(* A faulty build_group, which commits the new hold without building it.   *)
HoldsUnbuilt == bot' = [bot EXCEPT !.pc = "commit", !.work = @ \cup {Held}]

(* auto_hold_failures, which may refuse: the tree with the new hold is     *)
(* built once more.                                                        *)
AutoHold == bot' = [bot EXCEPT !.work = @ \cup {Held}, !.heldBack = TRUE]

(* populate_cache.sh, once everything has built                            *)
RefreshRoots == built' = built \cup {bot.work} /\ roots' = bot.work

(* build_group.  populate_cache.sh can still fail while it refreshes the   *)
(* GC roots.                                                               *)
Build ==
  LET green == bot.work \in Green IN
  /\ bot.pc = "build"
  /\ \/ /\ green
        /\ RefreshRoots
        /\ \/ Goto("commit") /\ NoFault
           \/ TransactionFails /\ Fault
     \/ /\ IF green THEN Fault ELSE NoFault
        /\ \/ TransactionFails
           \/ /\ Members(bot.next) = {Core} /\ bot.next # 0
              /\ ~bot.heldBack /\ Held \notin bot.work
              /\ AutoHold
        /\ UNCHANGED <<roots, built>>
  /\ UNCHANGED <<master, anchor, deployed, streak, outside>>

(* git add and git commit of the transaction's paths                       *)
CommitGroup ==
  /\ bot.pc = "commit"
  /\ \/ /\ bot' = Proceed([bot EXCEPT
                             !.head = Append(@, ByBot(bot.work,
                                                      Last(@).beat))], TRUE)
        /\ NoFault
     \/ TransactionFails /\ Fault
  /\ UNCHANGED <<master, store, outside, built>>

(* A faulty restore_group_state, which leaves the work tree as it is.      *)
LeavesWork(b) == b

(* restore_group_state when every checkout succeeds                        *)
Restored(b) == [b EXCEPT !.work = Last(b.head).tree]

(* restore_group_state; when it fails, FATAL_TRANSACTION: the groups left  *)
(* are skipped, and the run exits before the heartbeat and the push.       *)
Restore ==
  /\ bot.pc = "restore"
  /\ \/ bot' = Proceed(Restored(bot), FALSE) /\ NoFault
     \/ End("aborted") /\ Fault
  /\ UNCHANGED <<master, store, outside, built>>

(* A faulty write_heartbeat, which believes the clock.                     *)
ClockEpoch(previous) == now

(* write_heartbeat: later than the heartbeat it replaces.                  *)
NextEpoch(previous) == IF now <= previous THEN previous + 1 ELSE now

(* The second EOL gate, write_heartbeat, its commit, verify_new_commits.   *)
WriteHeartbeat ==
  LET last == Last(bot.head)
      beat == [epoch |-> NextEpoch(last.beat.epoch), green |-> ~bot.fail]
      head == Append(bot.head, ByBot(last.tree, beat))
  IN
  /\ bot.pc = "beat"
  /\ \/ /\ RangeVerifies(head, bot.base)
        /\ bot' = [bot EXCEPT !.pc = "push", !.head = head, !.attempt = 1]
        /\ NoFault
     \/ ~RangeVerifies(head, bot.base) /\ Fatal /\ NoFault
     \/ Fatal /\ Fault
  /\ UNCHANGED <<master, store, outside, built>>

(* Faulty ends of push_with_retries: it never gives up, or the run goes on *)
(* as if it had pushed.                                                    *)
NeverGivesUp == Goto("race")
GivesUpQuietly == IF bot.attempt = 3 THEN Goto("anchor") ELSE Goto("race")

(* A push attempt fails: look for a race, unless it was the last.          *)
PushFails == IF bot.attempt = 3 THEN Fatal ELSE Goto("race")

(* One attempt of push_with_retries, never forced; the answer of one that  *)
(* landed may be lost.                                                     *)
Push ==
  /\ bot.pc = "push"
  /\ \/ /\ IsPrefix(master, bot.head)
        /\ master' = bot.head
        /\ LET b == [bot EXCEPT !.landed = TRUE] IN
           \/ bot' = [b EXCEPT !.pc = "verify"] /\ NoFault
           \/ /\ bot' = IF b.attempt = 3 THEN Ended("fatal", TRUE)
                                         ELSE [b EXCEPT !.pc = "race"]
              /\ Fault
     \/ ~IsPrefix(master, bot.head) /\ PushFails /\ NoFault /\ UNCHANGED master
     \/ PushFails /\ Fault /\ UNCHANGED master
  /\ UNCHANGED <<store, outside, built>>

(* The rebase of rebase_onto_moved_remote                                  *)
RebaseOnto(b, tip) ==
  [b EXCEPT !.head = Rebased(b.head, tip), !.raced = TRUE]

(* rebase_onto_moved_remote: a fetch that fails or finds nothing new leads *)
(* to another attempt, commits that do not verify and conflicts are fatal. *)
Race ==
  LET again == [bot EXCEPT !.pc = "push", !.attempt = @ + 1]
      fetched == [again EXCEPT !.base = master]
      rebased == RebaseOnto(fetched, master)
  IN
  /\ bot.pc = "race"
  /\ \/ bot' = again /\ Fault
     \/ IsPrefix(master, bot.head) /\ bot' = fetched /\ NoFault
     \/ /\ ~IsPrefix(master, bot.head)
        /\ \/ /\ RangeVerifies(master, bot.head)
              /\ RangeVerifies(rebased.head, master)
              /\ bot' = rebased /\ NoFault
           \/ /\ ~(RangeVerifies(master, bot.head)
                     /\ RangeVerifies(rebased.head, master))
              /\ Fatal /\ NoFault
           \/ Fatal /\ Fault
  /\ UNCHANGED <<master, store, outside, built>>

(* verify_remote_push                                                      *)
VerifyPush ==
  /\ bot.pc = "verify"
  /\ \/ master = bot.head /\ Goto("anchor") /\ NoFault
     \/ master # bot.head /\ End("unadvanced") /\ NoFault
     \/ Fatal /\ Fault
  /\ UNCHANGED <<master, store, outside, built>>

(* write_base_anchor                                                       *)
WriteAnchor ==
  /\ bot.pc = "anchor"
  /\ anchor' = bot.head
  /\ Goto("deploy")
  /\ UNCHANGED <<master, roots, deployed, streak, outside, built, count>>

(* push_deploy.sh: whatever the GC roots point to is activated; a failure  *)
(* may come after the activation.                                          *)
PushDeploy ==
  LET failed == [bot EXCEPT !.pc = "finish", !.fail = TRUE] IN
  /\ bot.pc = "deploy"
  /\ \/ roots = None /\ bot' = failed /\ NoFault /\ UNCHANGED deployed
     \/ roots # None /\ deployed' = roots /\ Goto("finish") /\ NoFault
     \/ bot' = failed /\ deployed' \in {deployed, roots} /\ Fault
  /\ UNCHANGED <<master, anchor, roots, streak, outside, built>>

(* The notification, the streak and the exit status                        *)
Finish ==
  /\ bot.pc = "finish"
  /\ End(IF bot.fail THEN "1" ELSE "0")
  /\ streak' = IF bot.fail THEN streak ELSE 0
  /\ UNCHANGED <<master, anchor, roots, deployed, outside, built, count>>

Step ==
  \/ Start \/ Update \/ Build \/ CommitGroup \/ Restore \/ WriteHeartbeat
  \/ Push \/ Race \/ VerifyPush \/ WriteAnchor \/ PushDeploy \/ Finish

-----------------------------------------------------------------------------
(* The environment.                                                        *)

(* TimeoutStartSec or a stop (`terminated`), or a power loss.              *)
Kill ==
  /\ bot.pc # "idle"
  /\ End("killed")
  /\ Fault
  /\ UNCHANGED <<master, store, outside, built>>

Pushed(h, p) ==
  Append(h, [ signer |-> p.signer, merge |-> p.merge,
              tree |-> Last(h).tree \cup {p.change}, beat |-> Last(h).beat ])

(* Somebody else pushes; where the forge may rewrite, onto any older state.*)
OthersPush ==
  /\ count.pushes < MaxPushes
  /\ count' = [count EXCEPT !.pushes = @ + 1]
  /\ \E p \in Pushes, n \in 1..Len(master) :
       /\ n = Len(master) \/ Rewrites
       /\ p.change \notin master[n].tree
       /\ master' = Pushed(SubSeq(master, 1, n), p)
  /\ UNCHANGED <<store, outside, bot, built>>

UpstreamMoves ==
  /\ \E g \in Group \ upstream : upstream' = upstream \cup {g}
  /\ UNCHANGED <<master, store, now, bot, built, count>>

Tick ==
  /\ now < MaxTime
  /\ now' = now + 1
  /\ UNCHANGED <<master, store, upstream, bot, built, count>>

Next == Step \/ Kill \/ OthersPush \/ UpstreamMoves \/ Tick

Spec == Init /\ [][Next]_vars

(* rolling-flake-update.timer is Persistent and TimeoutStartSec ends a run *)
(* that hangs, so nights follow each other and each one comes to an end.   *)
FairSpec == Spec /\ WF_vars(Step)

-----------------------------------------------------------------------------
(* Safety.                                                                 *)

(* The push of a run reaches master.                                       *)
Lands == bot.pc = "push" /\ bot' # bot /\ master' # master

(* The base anchor is always on master while master is append-only: a push *)
(* whose answer was lost, raced or was refused never moves the anchor to a *)
(* commit the next night could not descend from (verify_remote_push before *)
(* write_base_anchor).                                                     *)
AnchorOnMaster == ~Rewrites => IsPrefix(anchor, master)

(* "A red group is reverted and skipped; green groups still land": nothing *)
(* of a group that failed on its own reaches master that night, through    *)
(* whichever transaction, hold or rebase; and a night is not called green  *)
(* when it held a group back.                                              *)
RedGroupStaysOut ==
  [][ Lands => /\ bot.red \cap (Last(master').tree \ Last(master).tree) = {}
               /\ Last(master').beat.green => bot.red = {} ]_vars

(* What lands is a tree that was built for every host, when no other push  *)
(* came in between: neither a hold added after a failure nor the leftovers *)
(* of a rolled back transaction get in unbuilt.                            *)
LandsWhatItBuilt ==
  [][ Lands /\ ~bot.raced
        => Last(master').tree \in built \cup {Last(master).tree} ]_vars

(* Every landing raises the heartbeat epoch, though the clock may stand    *)
(* still between two runs: hosts refuse a heartbeat that goes backward.    *)
HeartbeatAdvances ==
  [][ Lands => Last(master').beat.epoch > Last(master).beat.epoch ]_vars

(* The bot is a link in the chain of signatures: whatever the forge serves *)
(* before and during the night, a push only leaves commits on master that  *)
(* verify_commit accepts, as far back as the base anchor.                  *)
PushesOnlySigned ==
  [][ Lands => \A c \in Beyond(master', anchor) : Verifies(c) ]_vars

(* "A bad input still only holds back its own group": a group whose update *)
(* builds with whatever else lands is on master once enough nights have    *)
(* passed that one of them was free of faults.                             *)
Harmless ==
  {g \in Group : \A t \in Green \cup Seed : t \cup {g} \in Green}
GreenGroupsLand ==
  \A g \in Harmless :
    g \in upstream /\ count.runs = 0 ~> g \in Last(master).tree

-----------------------------------------------------------------------------
(* What docs and comments of the repository say, and the code does not do. *)

(* "remote did not advance": the run that says so has not pushed.          *)
UnadvancedMeansNotPushed == bot.exit = "unadvanced" => ~bot.landed

(* "Runs after the Forgejo push so the activated rev is already on the     *)
(* remote": what push-deploy activates is the tree of a commit on master.  *)
DeployedIsOnMaster ==
  deployed # None => \E i \in 1..Len(master) : master[i].tree = deployed
=============================================================================
