--------------------------- MODULE MCLiveRouting ---------------------------
(***************************************************************************)
(* Symmetry sets for the runs of LiveRouting that check safety only.       *)
(***************************************************************************)
EXTENDS LiveRouting, TLC

Symmetry == Permutations(Cats) \cup Permutations(Reqs)
=============================================================================
