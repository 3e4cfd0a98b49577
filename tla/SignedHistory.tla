---------------------------- MODULE SignedHistory ----------------------------
(***************************************************************************)
(* The git history that the deploy path reasons about, and the signature   *)
(* policy it applies to one commit.  A commit is a model value; what the   *)
(* scripts ask git about it is a record in Object, and the ancestry that   *)
(* `git merge-base --is-ancestor` and `git rev-list` compute is Reach.     *)
(*                                                                         *)
(* The same policy is written twice in the repository, in fleet-update.sh  *)
(* (on every host) and in rolling_flake_update.sh (on the bot).            *)
(***************************************************************************)
EXTENDS Naturals, FiniteSets

CONSTANTS
  Commit,        \* the commits that can exist in any repository
  None,          \* no commit: an absent ref, file or configurationRevision
  Key,           \* signing principals, those of hosts.nix and strangers
  ForgejoMerge,  \* FORGEJO_MERGE_PRINCIPAL, the merge-only forge signer
  Bot,           \* BOT_PRINCIPAL, the rolling-flake-update signer
  Object,        \* Object[c]: what git stores in and about commit c
  Reach          \* Reach[c]: c and every commit reachable from it

(***************************************************************************)
(* fleet/freshness.json as a commit carries it: the commit that last       *)
(* touched the file, its epoch (0: malformed) and whether it is green.     *)
(***************************************************************************)
Heartbeat == [by : Commit, epoch : Nat, green : BOOLEAN]

CommitObject ==
  [ parents   : SUBSET Commit,
    signer    : Key \cup {None},       \* None: unsigned or bad signature
    committer : {"forgejo", "other"},  \* is it "Forgejo Merge <...>"
    tree      : {"merge", "own"},      \* equal to merge-tree of the parents?
    listed    : SUBSET Key,            \* allowed_signers of its closure
    heartbeat : Heartbeat \cup {None} ]

ASSUME HistoryAssumption ==
  /\ None \notin Commit \cup Key \cup Heartbeat
  /\ {ForgejoMerge, Bot} \subseteq Key
  /\ Object \in [Commit -> CommitObject]
  /\ Reach \in [Commit -> SUBSET Commit]
  /\ \A c \in Commit :
       Reach[c] = {c} \cup UNION {Reach[p] : p \in Object[c].parents}
  /\ \A c \in Commit : \A d \in Reach[c] : Reach[d] \subseteq Reach[c]
  /\ \A c \in Commit :
       Object[c].heartbeat # None => Object[c].heartbeat.by \in Reach[c]

-----------------------------------------------------------------------------
(* `git merge-base --is-ancestor c d` *)
IsAncestor(c, d) == c \in Reach[d]

(* `git rev-list base..target` *)
CommitRange(base, target) == Reach[target] \ Reach[base]

(* verify_forgejo_merge_policy: the forge key signs clean merges only. *)
ForgejoMergePolicy(c) ==
  Object[c].signer = ForgejoMerge =>
    /\ Cardinality(Object[c].parents) = 2
    /\ Object[c].committer = "forgejo"
    /\ Object[c].tree = "merge"

(* verify_commit against an allowed_signers file that lists keys *)
Verifies(c, keys) ==
  /\ Object[c].signer \in keys
  /\ ForgejoMergePolicy(c)

(* A faulty verify_commit_range, which looks at the tip only.              *)
TipVerifies(base, target, keys) == Verifies(target, keys)

(* verify_commit_range *)
RangeVerifies(base, target, keys) ==
  \A c \in CommitRange(base, target) : Verifies(c, keys)

(* verify_non_forgejo_commit: what may become a trust root *)
MayBeRoot(c, keys) ==
  /\ Verifies(c, keys)
  /\ Object[c].signer # ForgejoMerge

(* What a clone or a fetch of tip c brings into the local object store *)
Objects(c) == Reach[c]
=============================================================================
