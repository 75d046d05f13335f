--------------------------- MODULE MCAgenticTask ---------------------------
(***************************************************************************)
(* AgenticTask with two workers in processes of their own: one of them     *)
(* alone on the arena, or both in sandboxes of every mix of kinds.         *)
(***************************************************************************)
EXTENDS AgenticTask, TLC

CONSTANTS w1, w2, p1, p2

OwnProcess == (w1 :> p1) @@ (w2 :> p2)

Cast(a, b) == (w1 :> a) @@ (w2 :> b)
RunCasts == {Cast("arena", None), Cast("v1", None), Cast("judge", None)}
LaneCasts == {Cast("arena", None)}
=============================================================================
