----------------------------- MODULE MCMagazines -----------------------------
(* Two issues, each of any of the three modes: one whose full-issue link   *)
(* leads to an empty file and whose first article has no PDF, and one with *)
(* a file of the whole.                                                    *)
EXTENDS Magazines, TLC

CONSTANTS i1, i2

MCIndex == <<i1, i2>>
MCOwners ==
  { i1 :> "backfill" @@ i2 :> "backfill",
    i1 :> "current" @@ i2 :> "wvj",
    i1 :> "wvj" @@ i2 :> "current" }
MCOffer ==
  i1 :> [full |-> "empty", articles |-> <<"noform", "pdf">>] @@
  i2 :> [full |-> "file", articles |-> <<"pdf">>]
MCYear == i1 :> 2005 @@ i2 :> 2026
=============================================================================
