------------------------------ MODULE TaskGrade ------------------------------
(***************************************************************************)
(* How an agentic task is graded (internal/agentic: grading.go, arena.go,  *)
(* run.go). A grading pass reports pass or fail per test; a test a broken  *)
(* build kept from running is absent. A lane is the full suite the arena   *)
(* runs once more at the end, and is known by the failures its log names.  *)
(***************************************************************************)
EXTENDS Integers, FiniteSets

CONSTANTS
    HeldOut,  \* names of a task's held-out tests
    Others    \* the other tests of its package

Tests == HeldOut \cup Others
Passes == [Tests -> {"pass", "fail", "absent"}]

Scores == [ran : Nat, passed : Nat, regressions : Nat]

\* Without names to look for, the exit status is the only test.
CoarseScore(exit0) == [ran |-> 1, passed |-> IF exit0 THEN 1 ELSE 0, regressions |-> 0]

\* Held-out tests count in the final pass; the others only if they are among
\* those the baseline passed, and fail now.
ScoreFailToPass(baseline, final) ==
    [ran |-> Cardinality({t \in HeldOut : final[t] # "absent"}),
     passed |-> Cardinality({t \in HeldOut : final[t] = "pass"}),
     regressions |-> Cardinality({t \in baseline : final[t] = "fail"})]

\* The rule both kinds of task share; a bound that stopped the loop is no veto.
AllRanPassed(score) == score.ran > 0 /\ score.passed = score.ran

\* LaneResult: a lane that ended, by its status and the failures of its log.
LaneResults == {r \in [success : BOOLEAN, names : SUBSET Tests] : r.success => r.names = {}}

\* laneRegressions: named failures that are not held out.
LaneRegressions(result, heldOut) == result.names \ heldOut

PassedV1(score) == AllRanPassed(score) /\ score.regressions = 0
PassedArena(green, result, heldOut) == green /\ LaneRegressions(result, heldOut) = {}
=============================================================================
