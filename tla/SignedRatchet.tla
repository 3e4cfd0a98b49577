---------------------------- MODULE SignedRatchet ----------------------------
(***************************************************************************)
(* What the deploy path promises of a host, without clones, origins, files *)
(* or phases: the host stands on one commit, its anchor, and trusts the    *)
(* keys that commit's closure lists.  It moves only to a descendant all of *)
(* whose new commits verify under the keys it trusts at that moment, or to *)
(* a descendant of a root the operator names and those keys admit.         *)
(***************************************************************************)
EXTENDS SignedHistory

CONSTANTS Installed, MayReRoot   \* MayReRoot: does the operator ever?

VARIABLES anchor, trusted

state == <<anchor, trusted>>

Init == anchor \in Installed /\ trusted = Object[anchor].listed

StandOn(c) == anchor' = c /\ trusted' = Object[c].listed

(* An ordinary deploy *)
Advance ==
  \E c \in Commit :
    /\ IsAncestor(anchor, c)
    /\ RangeVerifies(anchor, c, trusted)
    /\ StandOn(c)

(* A deploy with --accept-new-root *)
ReRoot ==
  /\ MayReRoot
  /\ \E root, c \in Commit :
       /\ MayBeRoot(root, trusted)
       /\ IsAncestor(root, c)
       /\ RangeVerifies(root, c, trusted)
       /\ StandOn(c)

Next == Advance \/ ReRoot

Spec == Init /\ [][Next]_state
=============================================================================
