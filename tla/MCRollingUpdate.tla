--------------------------- MODULE MCRollingUpdate ---------------------------
(***************************************************************************)
(* Instances of RollingUpdate for TLC: two or three groups stand for the   *)
(* seven.  "core" needs a package hold to build, "rest" never builds and   *)
(* "mongodb" builds with everything but the change that clashes with it.   *)
(***************************************************************************)
EXTENDS RollingUpdate

MCGroups == <<"mongodb", "core", "rest">>
CoreFirst == <<"core", "mongodb">>
TwoGroups == <<"mongodb", "core">>

Everything == Group \cup {Held} \cup Change

Builds(t) ==
  /\ "core" \in t => Held \in t
  /\ "rest" \notin t
  /\ ~({"mongodb", "clash"} \subseteq t)
MCGreen == {t \in SUBSET Everything : Builds(t)}

Fresh == {{}}
MaybeHeld == {{}, {Held}}

By(signer, merge, change) ==
  [signer |-> signer, merge |-> merge, change |-> change]

(* A contributor, the merge button of the forge, and who may do neither.   *)
Signed == {By("human", FALSE, "clash"), By(ForgejoMerge, TRUE, "merge")}
OneFix == {By("human", FALSE, "fix")}
Hostile ==
  {By("human", FALSE, "fix"), By("nobody", FALSE, "unsigned"),
   By(ForgejoMerge, FALSE, "notamerge")}
=============================================================================
