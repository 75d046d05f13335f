---------------------------- MODULE EvalScoring ----------------------------
(***************************************************************************)
(* What is done with the library: `eval run` (internal/evals/run.go)       *)
(* replays every task against a backend, easy ones first per track, and    *)
(* `eval judge-fails` (judge_fails.go) asks a judge model about the        *)
(* results, while the library's own commands go on.                        *)
(***************************************************************************)
EXTENDS EvalLibrary, Ladder

CONSTANTS
    Tracks,      \* of the ladder, numbered in their order
    TrackOf,     \* of a commit's task
    SmallOf,     \* its request is below 8192 bytes
    CallTokens,  \* what one call to the backend costs
    TokenBudget, \* -max-tokens, 0 for no cap
    Graders,     \* judge-fails, as often as it is run at a time
    Unjudged     \* no verdict yet

ASSUME ScoringAssumption ==
    /\ Tracks \subseteq Nat
    /\ TrackOf \in [Commits -> Tracks]
    /\ SmallOf \in [Commits -> BOOLEAN]
    /\ {CallTokens, TokenBudget} \subseteq Nat
    /\ Unjudged \notin Nat

VARIABLES
    runs,       \* eval_runs: the totals of the summary, once it is written
    results,    \* eval_results
    evaluator, grader

scoring == <<runs, results, evaluator, grader>>
scoringVars == <<libraryVars, scoring>>

EvaluatorIdle ==
    [pc |-> Idle, rows |-> <<>>, left |-> {}, tallies |-> [t \in Tracks |-> NewTrack],
     spent |-> 0, over |-> FALSE, scored |-> 0, passed |-> 0]
GraderIdle == [pc |-> Idle, left |-> {}, shown |-> Unjudged]

ScoringInit ==
    /\ LibraryInit
    /\ runs = <<>>
    /\ results = <<>>
    /\ evaluator = EvaluatorIdle
    /\ grader = [g \in Graders |-> GraderIdle]

-----------------------------------------------------------------------------
(***************************************************************************)
(* eval run.                                                               *)
(***************************************************************************)
RungOf(row) ==
    Rung(row.difficulty, row.turnType = "single_file_edit" /\ SmallOf[row.commit])

TrackOfRow(row) == TrackOf[row.commit]

\* The task ScheduleTasks puts first: by track, then rung, then id.
Climbs(i) ==
    LET row == evaluator.rows[i]
    IN  \A j \in evaluator.left \ {i} :
          LET other == evaluator.rows[j]
          IN  \/ TrackOfRow(row) < TrackOfRow(other)
              \/ /\ TrackOfRow(row) = TrackOfRow(other)
                 /\ \/ RungOf(row) < RungOf(other)
                    \/ RungOf(row) = RungOf(other) /\ i < j

\* ActiveEvalTasks, then InsertEvalRun.
RunStart ==
    /\ evaluator.pc = Idle
    /\ tasks # <<>>
    /\ Started
    /\ evaluator' = [EvaluatorIdle EXCEPT !.pc = "score", !.rows = tasks, !.left = TaskIds]
    /\ runs' = Append(runs, [summary |-> FALSE, total |-> 0, passed |-> 0, tasks |-> Len(tasks)])
    /\ UNCHANGED <<library, writers, faults, results, grader>>

\* What became of the call and of verify.Verify: identical, close enough, too
\* far or in the band nobody has judged, and any error on the way.
Outcomes == {"exact", "close", "apart", "error"}

\* Mutant: the id of the run before.
ResultRow_PriorRun(i, outcome) ==
    [run |-> Len(runs) - 1, task |-> i,
     source |-> evaluator.rows[i].source, request |-> evaluator.rows[i].request,
     scored |-> TRUE, passed |-> outcome \in {"exact", "close"}, stage |-> outcome,
     error |-> outcome = "error", verdict |-> Unjudged]

ResultRow(i, outcome) ==
    [run |-> Len(runs), task |-> i,
     source |-> evaluator.rows[i].source, request |-> evaluator.rows[i].request,
     scored |-> TRUE, passed |-> outcome \in {"exact", "close"}, stage |-> outcome,
     error |-> outcome = "error", verdict |-> Unjudged]

SkippedRow(i) ==
    [ResultRow(i, "error") EXCEPT !.scored = FALSE]

MayScore(i) ==
    LET row == evaluator.rows[i]
    IN  ~evaluator.over /\ Allowed(evaluator.tallies[TrackOfRow(row)], RungOf(row))

RunScore ==
    /\ evaluator.pc = "score"
    /\ \E i \in evaluator.left, outcome \in Outcomes, tokens \in {0, CallTokens} :
          LET row == evaluator.rows[i]
              new == ResultRow(i, outcome)
          IN  /\ Climbs(i) /\ MayScore(i)
              /\ outcome # "error" => tokens = CallTokens   \* an error may come after the call
              /\ results' = Append(results, new)
              /\ evaluator' = [evaluator EXCEPT
                    !.left = @ \ {i},
                    !.tallies[TrackOfRow(row)] = Record(@, RungOf(row), new.passed),
                    !.spent = @ + tokens,
                    !.over = TokenBudget > 0 /\ evaluator.spent + tokens >= TokenBudget,
                    !.scored = @ + 1,
                    !.passed = IF new.passed THEN @ + 1 ELSE @]
    /\ UNCHANGED <<libraryVars, runs, grader>>

\* Mutant: a skipped task leaves no row.
RunSkip_Silently ==
    /\ evaluator.pc = "score"
    /\ \E i \in evaluator.left :
          /\ Climbs(i) /\ ~MayScore(i)
          /\ results' = results
          /\ evaluator' = [evaluator EXCEPT !.left = @ \ {i}]
    /\ UNCHANGED <<libraryVars, runs, grader>>

RunSkip ==
    /\ evaluator.pc = "score"
    /\ \E i \in evaluator.left :
          /\ Climbs(i) /\ ~MayScore(i)
          /\ results' = Append(results, SkippedRow(i))
          /\ evaluator' = [evaluator EXCEPT !.left = @ \ {i}]
    /\ UNCHANGED <<libraryVars, runs, grader>>

RunFinish ==
    /\ evaluator.pc = "score" /\ evaluator.left = {}
    /\ runs' = [runs EXCEPT ![Len(runs)].summary = TRUE, ![Len(runs)].total = evaluator.scored,
                            ![Len(runs)].passed = evaluator.passed]
    /\ evaluator' = EvaluatorIdle
    /\ UNCHANGED <<libraryVars, results, grader>>

\* A statement fails or the process is killed: no summary.
RunFails ==
    /\ evaluator.pc # Idle
    /\ Failed
    /\ evaluator' = EvaluatorIdle
    /\ UNCHANGED <<library, writers, commands, runs, results, grader>>

-----------------------------------------------------------------------------
(***************************************************************************)
(* eval judge-fails: the scored results that are no exact match, one       *)
(* synchronous call each. Nothing keeps two of them apart.                 *)
(***************************************************************************)

\* FailedUnjudgedEvalResults: whatever passed mechanically goes to the judge
\* as well, unless it is identical.
Ungraded(row) ==
    row.scored /\ ~row.error /\ row.verdict = Unjudged /\ row.stage # "exact"

GradeStart(g) ==
    /\ grader[g].pc = Idle
    /\ \E k \in DOMAIN results : Ungraded(results[k])
    /\ Started
    /\ grader' = [grader EXCEPT ![g] = [GraderIdle EXCEPT
          !.pc = "grade", !.left = {k \in DOMAIN results : Ungraded(results[k])}]]
    /\ UNCHANGED <<library, writers, faults, runs, results, evaluator>>

\* The prompt shows the brief the task has now.
GradeAsk(g) ==
    /\ grader[g].pc = "grade" /\ grader[g].left # {} /\ grader[g].shown = Unjudged
    /\ grader' = [grader EXCEPT ![g].shown = tasks[results[Min(grader[g].left)].task].brief]
    /\ UNCHANGED <<libraryVars, runs, results, evaluator>>

GradeApply(g) ==
    /\ grader[g].shown # Unjudged
    /\ \E equivalent \in BOOLEAN :
          results' = [results EXCEPT
              ![Min(grader[g].left)].passed = equivalent,
              ![Min(grader[g].left)].stage = "judge",
              ![Min(grader[g].left)].verdict = grader[g].shown]
    /\ grader' = [grader EXCEPT ![g].left = @ \ {Min(grader[g].left)}, ![g].shown = Unjudged]
    /\ UNCHANGED <<libraryVars, runs, evaluator>>

\* The call failed or its answer is no verdict: left for the next time.
GradeErrs(g) ==
    /\ grader[g].shown # Unjudged
    /\ Failed
    /\ grader' = [grader EXCEPT ![g].left = @ \ {Min(grader[g].left)}, ![g].shown = Unjudged]
    /\ UNCHANGED <<library, writers, commands, runs, results, evaluator>>

GradeEnd(g) ==
    /\ grader[g].pc = "grade" /\ grader[g].left = {}
    /\ grader' = [grader EXCEPT ![g] = GraderIdle]
    /\ UNCHANGED <<libraryVars, runs, results, evaluator>>

GradeFails(g) ==
    /\ grader[g].pc # Idle
    /\ Failed
    /\ grader' = [grader EXCEPT ![g] = GraderIdle]
    /\ UNCHANGED <<library, writers, commands, runs, results, evaluator>>

-----------------------------------------------------------------------------
RunNext == RunStart \/ RunScore \/ RunSkip \/ RunFinish \/ RunFails
GradeNext(g) ==
    GradeStart(g) \/ GradeAsk(g) \/ GradeApply(g) \/ GradeErrs(g) \/ GradeEnd(g) \/ GradeFails(g)

ScoringNext ==
    \/ LibraryNext /\ UNCHANGED scoring
    \/ RunNext
    \/ \E g \in Graders : GradeNext(g)
=============================================================================
