------------------------------- MODULE Ladder -------------------------------
(***************************************************************************)
(* The difficulty ladder of one evaluation run (internal/evals/ladder.go): *)
(* tasks climb six rungs per track, and a track abandons a rung, and every *)
(* rung above it, when the results at that rung say the climb is futile.   *)
(* Pure operators on the state of one track; the runs that climb it are in *)
(* the modules that use this one.                                          *)
(***************************************************************************)
EXTENDS Integers

CONSTANTS
    StopMinN,                   \* results a rung needs before its rate counts
    FutilityConsecutiveFails,   \* failures in a row that end the climb
    StopWilsonUpper             \* least upper bound of a rate worth climbing, in percent

\* NewLadder replaces values that are not positive by its defaults.
ASSUME LadderAssumption ==
    /\ StopMinN \in Nat \ {0}
    /\ FutilityConsecutiveFails \in Nat \ {0}
    /\ StopWilsonUpper \in 1..100

Rungs == 1..6

\* Three bands of difficulty, each split by the size of the change.
Rung(difficulty, small) ==
    LET band == [simple |-> 1, unknown |-> 2, challenging |-> 3]
    IN  2 * band[difficulty] - (IF small THEN 1 ELSE 0)

Tallies == [n : Nat, passed : Nat, consecutiveFails : Nat]
TrackStates ==
    [rungs : [Rungs -> Tallies], abandonFrom : {0} \cup Rungs,
     abandonWhy : {"", "futility", "wilson_upper"}]

NewTrack ==
    [rungs |-> [r \in Rungs |-> [n |-> 0, passed |-> 0, consecutiveFails |-> 0]],
     abandonFrom |-> 0, abandonWhy |-> ""]

Allowed(ts, rung) == ts.abandonFrom = 0 \/ rung < ts.abandonFrom

\* wilsonBounds(passed, n, 1.96) has its upper bound below StopWilsonUpper:
\* the rate is below it, and by more than the interval allows. Squared and
\* multiplied out, 1.96^2 = 2401/625.
UpperBelowStop(passed, n) ==
    LET gap == StopWilsonUpper * n - 100 * passed
    IN  gap > 0 /\ 625 * gap * gap > 2401 * n * StopWilsonUpper * (100 - StopWilsonUpper)

Scored_KeepsFails(tally, passed) ==
    [n |-> tally.n + 1,
     passed |-> tally.passed + (IF passed THEN 1 ELSE 0),
     consecutiveFails |-> IF passed THEN tally.consecutiveFails ELSE tally.consecutiveFails + 1]

Scored(tally, passed) ==
    [n |-> tally.n + 1,
     passed |-> tally.passed + (IF passed THEN 1 ELSE 0),
     consecutiveFails |-> IF passed THEN 0 ELSE tally.consecutiveFails + 1]

\* Why a rung with this tally should be abandoned, if it should.
StopReason(tally) ==
    IF tally.consecutiveFails >= FutilityConsecutiveFails THEN "futility"
    ELSE IF tally.n >= StopMinN /\ UpperBelowStop(tally.passed, tally.n) THEN "wilson_upper"
    ELSE ""

Record(ts, rung, passed) ==
    LET tally == Scored(ts.rungs[rung], passed)
        counted == [ts EXCEPT !.rungs[rung] = tally]
        why == StopReason(tally)
    IN  IF Allowed(ts, rung) /\ why # ""
        THEN [counted EXCEPT !.abandonFrom = rung, !.abandonWhy = why]
        ELSE counted
=============================================================================
