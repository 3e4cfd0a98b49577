------------------------------ MODULE Sublists ------------------------------
(***************************************************************************)
(* What Python writes as [x for x in seq if ...], and awk as a condition   *)
(* before { print }: the elements at some of a sequence's places, in their *)
(* order.  The place with n - 1 places before it comes n-th, which is said *)
(* without recursion, for the proofs.                                      *)
(***************************************************************************)
EXTENDS Naturals, Sequences, FiniteSets

Rank(places, i) == Cardinality({j \in places : j <= i})
Sorted(places) ==
  [n \in 1..Cardinality(places) |-> CHOOSE i \in places : Rank(places, i) = n]
Sublist(seq, places) ==
  LET order == Sorted(places) IN [n \in DOMAIN order |-> seq[order[n]]]
Keep(seq, test(_)) == Sublist(seq, {i \in DOMAIN seq : test(seq[i])})
=============================================================================
