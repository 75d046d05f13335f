----------------------------- MODULE MCRunPools -----------------------------
(***************************************************************************)
(* RunPools with two neighbouring rungs, of a simple and an unknown task.  *)
(***************************************************************************)
EXTENDS RunPools

TwoProfiles ==
    {[difficulty |-> "simple", small |-> FALSE], [difficulty |-> "unknown", small |-> TRUE]}
=============================================================================
