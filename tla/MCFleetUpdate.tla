---------------------------- MODULE MCFleetUpdate ----------------------------
(***************************************************************************)
(* Instances of FleetUpdate for TLC.  History A, for the trust questions:  *)
(*                                                                         *)
(*       ,-- c4 ---------.             c1, c4, c7  signed by Human         *)
(*     c1 -- c2 -- c3 --- c5           c2          by Bot, lists NewKey    *)
(*             \                       c3          by NewKey               *)
(*              `-- c6 -- c7           c5          clean Forgejo merge     *)
(*                                     c6          by ForgejoMerge, though *)
(*                                                 it is not a merge       *)
(***************************************************************************)
EXTENDS FleetUpdate, TLC

CONSTANTS c1, c2, c3, c4, c5, c6, c7, Human, NewKey

MCKey == {Human, Bot, ForgejoMerge, NewKey}
OldKeys == {Human, Bot, ForgejoMerge}

Plain(parents, signer, listed) ==
  [ parents |-> parents, signer |-> signer, committer |-> "other",
    tree |-> "own", listed |-> listed, heartbeat |-> None ]

Merge(parents, listed) ==
  [ Plain(parents, ForgejoMerge, listed) EXCEPT
      !.committer = "forgejo", !.tree = "merge" ]

Beat(c, by, epoch, green) ==
  [c EXCEPT !.heartbeat = [by |-> by, epoch |-> epoch, green |-> green]]

AllA ==
  c1 :> Plain({}, Human, OldKeys) @@
  c2 :> Plain({c1}, Bot, MCKey) @@
  c3 :> Plain({c2}, NewKey, MCKey) @@
  c4 :> Plain({c1}, Human, OldKeys) @@
  c5 :> Merge({c3, c4}, MCKey) @@
  c6 :> Plain({c2}, ForgejoMerge, MCKey) @@
  c7 :> Plain({c6}, Human, MCKey)

ReachAllA ==
  c1 :> {c1} @@
  c2 :> {c1, c2} @@
  c3 :> {c1, c2, c3} @@
  c4 :> {c1, c4} @@
  c5 :> {c1, c2, c3, c4, c5} @@
  c6 :> {c1, c2, c6} @@
  c7 :> {c1, c2, c6, c7}

HistoryA == [c \in Commit |-> AllA[c]]
ReachA == [c \in Commit |-> ReachAllA[c]]

(* History B, for freshness: c1 -- c2 -- c3 -- c4 with c5, c6 and c7 on    *)
(* top of c4.  The bot's heartbeats are green at epochs 1 (c2) and 3 (c4), *)
(* a partial failure at 2 (c3), and back at 1 in c7; c5 carries c4's on,   *)
(* and in c6 a human wrote one.                                            *)
HistoryB ==
  [ c \in Commit |->
     CASE c = c1 -> Plain({}, Human, MCKey)
       [] c = c2 -> Beat(Plain({c1}, Bot, MCKey), c2, 1, TRUE)
       [] c = c3 -> Beat(Plain({c2}, Bot, MCKey), c3, 2, FALSE)
       [] c = c4 -> Beat(Plain({c3}, Bot, MCKey), c4, 3, TRUE)
       [] c = c5 -> Beat(Plain({c4}, Human, MCKey), c4, 3, TRUE)
       [] c = c6 -> Beat(Plain({c4}, Human, MCKey), c6, 4, TRUE)
       [] c = c7 -> Beat(Plain({c4}, Bot, MCKey), c7, 1, TRUE) ]
ReachB ==
  [ c \in Commit |->
     CASE c = c1 -> {c1}
       [] c = c2 -> {c1, c2}
       [] c = c3 -> {c1, c2, c3}
       [] c = c4 -> {c1, c2, c3, c4}
       [] OTHER -> {c1, c2, c3, c4, c} ]

-----------------------------------------------------------------------------
(* Command lines, and what the forges may do.                              *)

Nightly ==
  [ rev |-> None, acceptNewRoot |-> None, branch |-> Master,
    allowNonMaster |-> FALSE, dryRun |-> FALSE ]
Pinned(c) == [Nightly EXCEPT !.rev = c]
Reroot(c) == [Nightly EXCEPT !.acceptNewRoot = c]
DryRun == [Nightly EXCEPT !.dryRun = TRUE]

NightlyOnly == {Nightly}
WithReroot == {Nightly, Reroot(c4)}
WithDryRun == {Nightly, DryRun}
BreakGlass == {Nightly, [Pinned(c4) EXCEPT !.allowNonMaster = TRUE],
               [Nightly EXCEPT !.branch = "scratch", !.allowNonMaster = TRUE]}

Forgejo == <<"forgejo">>
ForgejoAndMirror == <<"forgejo", "github">>

(* A hostile forge: any commit, in any order. *)
AnyMove == Origin \X (Commit \cup {None}) \X Commit

(* An honest forge: the branch is protected and only moves forward. *)
ForwardOnly == {m \in AnyMove : m[2] # None /\ IsAncestor(m[2], m[3])}
=============================================================================
