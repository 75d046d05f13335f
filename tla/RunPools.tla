------------------------------ MODULE RunPools ------------------------------
(***************************************************************************)
(* One `splitter eval-agentic` run (internal/agentic: run.go, parallel.go).*)
(* Tasks with a test command share the arena checkout and run one at a     *)
(* time (runSerialPool); the others run in worktrees of their own, up to   *)
(* Parallelism at once (runConcurrentPool). Both pools ask one runState    *)
(* whether a task may run and tell it how the task went, under its mutex:  *)
(* dispatch and complete are atomic, everything else interleaves. Without  *)
(* -arena every task is in the serial pool.                                *)
(***************************************************************************)
EXTENDS Ladder, Sequences, FiniteSets

CONSTANTS
    NTasks,       \* scheduled tasks, after -limit
    Tracks,       \* ladder tracks, ordered
    Profiles,     \* what Rung looks at: difficulty and size
    Parallelism,  \* [evals].parallel_judge_tasks
    MaxTokens,    \* -max-tokens, 0 for no cap
    Costs,        \* tokens a task may use
    MaxFaults,    \* bound: statements SQLite may fail
    None          \* no task

Tasks == 1..NTasks

ASSUME PoolsAssumption ==
    /\ NTasks \in Nat
    /\ Parallelism \in Nat \ {0}
    /\ MaxTokens \in Nat
    /\ MaxFaults \in Nat
    /\ Costs \subseteq Nat
    /\ Tracks \subseteq Int
    /\ Profiles \subseteq [difficulty : {"simple", "unknown", "challenging"}, small : BOOLEAN]
    /\ None \notin Tasks

VARIABLES
    task,            \* ScheduleTasks: each task's track, rung and pool
    ladder,          \* runState.ladder, per track
    tokens,          \* tokensIn + tokensOut
    budgetExceeded,
    totals,          \* RunSummary: TasksScored, TasksPassed, TasksSkipped
    results,         \* eval_results rows, in insertion order
    ready,           \* eval_tasks.agentic_ready
    arenaTodo,       \* tasks the serial pool has not looked at
    arenaTask,       \* the task it runs
    arenaFailed,     \* it returned an error
    judgeTodo,       \* tasks the concurrent pool has not looked at
    dispatcher,      \* its loop: next task, slot held, with an error, ended
    sem,             \* slots taken
    worker,          \* its goroutines
    errs,            \* errors in its channel
    run,             \* Run: driving the pools, returned an error, summary written
    faults           \* statements that have failed

book == <<ladder, tokens, budgetExceeded, totals, results, ready>>
arena == <<arenaTodo, arenaTask, arenaFailed>>
judge == <<judgeTodo, dispatcher, sem, worker, errs>>
vars == <<task, book, arena, judge, run, faults>>

\* Results of runOne: a sandbox that cannot be made costs nothing and says the
\* task is not ready; any other failure is a failed attempt.
Outcomes ==
    [passed : BOOLEAN, ready : {TRUE}, cost : Costs]
    \cup {[passed |-> FALSE, ready |-> FALSE, cost |-> 0]}

ScheduledTasks == [track : Tracks, rung : Rungs, tested : BOOLEAN]

\* ScheduleTasks sorts by track, rung and id; a task's number is its place.
Climbs(schedule) ==
    \A t, u \in Tasks : t < u =>
        \/ schedule[t].track < schedule[u].track
        \/ schedule[t].track = schedule[u].track /\ schedule[t].rung <= schedule[u].rung

Scheduled(track, profile, tested) ==
    [track |-> track, rung |-> Rung(profile.difficulty, profile.small), tested |-> tested]

Init ==
    /\ \E track \in [Tasks -> Tracks], profile \in [Tasks -> Profiles], tested \in [Tasks -> BOOLEAN] :
            task = [t \in Tasks |-> Scheduled(track[t], profile[t], tested[t])]
    /\ Climbs(task)
    /\ ladder = [k \in Tracks |-> NewTrack]
    /\ tokens = 0
    /\ budgetExceeded = FALSE
    /\ totals = [scored |-> 0, passed |-> 0, skipped |-> 0]
    /\ results = <<>>
    /\ ready = [t \in Tasks |-> FALSE]
    /\ arenaTodo = {t \in Tasks : task[t].tested}
    /\ arenaTask = None
    /\ arenaFailed = FALSE
    /\ judgeTodo = {t \in Tasks : ~task[t].tested}
    /\ dispatcher = "next"
    /\ sem = 0
    /\ worker = [t \in Tasks |-> "idle"]
    /\ errs = 0
    /\ run = "pools"
    /\ faults = 0

-----------------------------------------------------------------------------
(***************************************************************************)
(* runState.                                                               *)
(***************************************************************************)
StatementFails == faults < MaxFaults /\ faults' = faults + 1

MayRun_IgnoresBudget(t) == Allowed(ladder[task[t].track], task[t].rung)

MayRun(t) == ~budgetExceeded /\ Allowed(ladder[task[t].track], task[t].rung)

\* dispatch lets the task run, and writes nothing.
DispatchRuns(t) == MayRun(t) /\ UNCHANGED <<book, faults>>

\* dispatch refuses the task and writes its only row.
DispatchSkips(t) ==
    /\ ~MayRun(t)
    /\ results' = Append(results, [task |-> t, outcome |-> "skipped"])
    /\ totals' = [totals EXCEPT !.skipped = @ + 1]
    /\ UNCHANGED <<ladder, tokens, budgetExceeded, ready, faults>>

DispatchFails(t) == ~MayRun(t) /\ StatementFails /\ UNCHANGED book

Complete_CountsFirst(t, o) ==
    \/ /\ ladder' = [ladder EXCEPT ![task[t].track] = Record(@, task[t].rung, o.passed)]
       /\ StatementFails
       /\ UNCHANGED <<tokens, budgetExceeded, totals, results, ready>>
    \/ /\ ready' = [ready EXCEPT ![t] = o.ready]
       /\ results' = Append(results, [task |-> t, outcome |-> IF o.passed THEN "passed" ELSE "failed"])
       /\ tokens' = tokens + o.cost
       /\ ladder' = [ladder EXCEPT ![task[t].track] = Record(@, task[t].rung, o.passed)]
       /\ totals' = [totals EXCEPT !.scored = @ + 1, !.passed = @ + (IF o.passed THEN 1 ELSE 0)]
       /\ budgetExceeded' = (budgetExceeded \/ (MaxTokens > 0 /\ tokens' >= MaxTokens))
       /\ UNCHANGED faults

\* complete: both statements succeed, and the run's accounts follow the row.
Complete(t, o) ==
    /\ ready' = [ready EXCEPT ![t] = o.ready]
    /\ results' = Append(results, [task |-> t, outcome |-> IF o.passed THEN "passed" ELSE "failed"])
    /\ tokens' = tokens + o.cost
    /\ ladder' = [ladder EXCEPT ![task[t].track] = Record(@, task[t].rung, o.passed)]
    /\ totals' = [totals EXCEPT !.scored = @ + 1, !.passed = @ + (IF o.passed THEN 1 ELSE 0)]
    /\ budgetExceeded' = (budgetExceeded \/ (MaxTokens > 0 /\ tokens' >= MaxTokens))
    /\ UNCHANGED faults

\* One of the two fails: neither row nor accounts know of the attempt.
CompleteFails(t, o) ==
    /\ StatementFails
    /\ ready' \in {ready, [ready EXCEPT ![t] = o.ready]}
    /\ UNCHANGED <<ladder, tokens, budgetExceeded, totals, results>>

FirstOf(t, todo) == t \in todo /\ \A u \in todo : t <= u

-----------------------------------------------------------------------------
(***************************************************************************)
(* runSerialPool: one task at a time, until one of its writes fails.       *)
(***************************************************************************)
SerialDispatch(t) ==
    /\ FirstOf(t, arenaTodo)
    /\ arenaTask = None
    /\ ~arenaFailed
    /\ arenaTodo' = arenaTodo \ {t}
    /\ \/ DispatchRuns(t) /\ arenaTask' = t /\ UNCHANGED arenaFailed
       \/ DispatchSkips(t) /\ UNCHANGED <<arenaTask, arenaFailed>>
       \/ DispatchFails(t) /\ arenaFailed' = TRUE /\ UNCHANGED arenaTask
    /\ UNCHANGED <<task, judge, run>>

SerialComplete(t) ==
    /\ arenaTask = t
    /\ arenaTask' = None
    /\ \E o \in Outcomes :
        \/ Complete(t, o) /\ UNCHANGED arenaFailed
        \/ CompleteFails(t, o) /\ arenaFailed' = TRUE
    /\ UNCHANGED <<task, arenaTodo, judge, run>>

ArenaEnded == arenaTask = None /\ (arenaFailed \/ arenaTodo = {})

-----------------------------------------------------------------------------
(***************************************************************************)
(* runConcurrentPool: the loop takes a slot, dispatches, and starts a      *)
(* goroutine that keeps the slot until its task is recorded, or until its  *)
(* error is in the channel, which has room for one per task of the pool.   *)
(* The deferred release of a slot is one step with what precedes it: only  *)
(* the loop looks at the slots, and it may be as slow as it likes.         *)
(***************************************************************************)
ErrsCap == Cardinality({t \in Tasks : ~task[t].tested})

AcquireSlot ==
    /\ dispatcher = "next"
    /\ judgeTodo # {}
    /\ sem < Parallelism
    /\ sem' = sem + 1
    /\ dispatcher' = "holding"
    /\ UNCHANGED <<task, book, arena, judgeTodo, worker, errs, run, faults>>

JudgeDispatch_KeepsSlot(t) ==
    /\ dispatcher = "holding"
    /\ FirstOf(t, judgeTodo)
    /\ judgeTodo' = judgeTodo \ {t}
    /\ \/ DispatchRuns(t) /\ dispatcher' = "next" /\ worker' = [worker EXCEPT ![t] = "running"] /\ UNCHANGED sem
       \/ DispatchSkips(t) /\ dispatcher' = "next" /\ UNCHANGED <<sem, worker>>
       \/ DispatchFails(t) /\ dispatcher' = "failed" /\ sem' = sem - 1 /\ UNCHANGED worker
    /\ UNCHANGED <<task, arena, errs, run>>

JudgeDispatch(t) ==
    /\ dispatcher = "holding"
    /\ FirstOf(t, judgeTodo)
    /\ judgeTodo' = judgeTodo \ {t}
    /\ \/ DispatchRuns(t) /\ dispatcher' = "next" /\ worker' = [worker EXCEPT ![t] = "running"] /\ UNCHANGED sem
       \/ DispatchSkips(t) /\ dispatcher' = "next" /\ sem' = sem - 1 /\ UNCHANGED worker
       \/ DispatchFails(t) /\ dispatcher' = "failed" /\ sem' = sem - 1 /\ UNCHANGED worker
    /\ UNCHANGED <<task, arena, errs, run>>

\* The loop breaks: its error goes to the channel and no task follows.
DispatcherReports ==
    /\ dispatcher = "failed"
    /\ errs < ErrsCap
    /\ errs' = errs + 1
    /\ dispatcher' = "ended"
    /\ UNCHANGED <<task, book, arena, judgeTodo, sem, worker, run, faults>>

WorkerComplete(t) ==
    /\ worker[t] = "running"
    /\ \E o \in Outcomes :
        \/ Complete(t, o) /\ worker' = [worker EXCEPT ![t] = "idle"] /\ sem' = sem - 1
        \/ CompleteFails(t, o) /\ worker' = [worker EXCEPT ![t] = "failed"] /\ UNCHANGED sem
    /\ UNCHANGED <<task, arena, judgeTodo, dispatcher, errs, run>>

WorkerReports(t) ==
    /\ worker[t] = "failed"
    /\ errs < ErrsCap
    /\ errs' = errs + 1
    /\ worker' = [worker EXCEPT ![t] = "idle"]
    /\ sem' = sem - 1
    /\ UNCHANGED <<task, book, arena, judgeTodo, dispatcher, run, faults>>

\* The loop is over and wg.Wait returns.
JudgeEnded ==
    /\ dispatcher = "ended" \/ (dispatcher = "next" /\ judgeTodo = {})
    /\ \A t \in Tasks : worker[t] = "idle"

-----------------------------------------------------------------------------
(***************************************************************************)
(* Run waits for both pools; an error of either, or of the summary's own   *)
(* statement, leaves the eval_runs row without a summary.                  *)
(***************************************************************************)

Finish ==
    /\ run = "pools"
    /\ ArenaEnded /\ JudgeEnded
    /\ IF arenaFailed \/ errs > 0
       THEN run' = "failed" /\ UNCHANGED faults
       ELSE \/ run' = "summarised" /\ UNCHANGED faults
            \/ run' = "failed" /\ StatementFails
    /\ UNCHANGED <<task, book, arena, judge>>

Next ==
    \/ \E t \in Tasks : \/ SerialDispatch(t)
                        \/ SerialComplete(t)
                        \/ JudgeDispatch(t)
                        \/ WorkerComplete(t)
                        \/ WorkerReports(t)
    \/ AcquireSlot
    \/ DispatcherReports
    \/ Finish

Spec == Init /\ [][Next]_vars
FairSpec == Spec /\ WF_vars(Next)

-----------------------------------------------------------------------------
(***************************************************************************)
(* Properties.                                                             *)
(***************************************************************************)
Rows == [task : Tasks, outcome : {"skipped", "passed", "failed"}]

TypeOK ==
    /\ task \in [Tasks -> ScheduledTasks]
    /\ ladder \in [Tracks -> TrackStates]
    /\ tokens \in Nat /\ budgetExceeded \in BOOLEAN
    /\ totals \in [scored : Nat, passed : Nat, skipped : Nat]
    /\ results \in Seq(Rows)
    /\ ready \in [Tasks -> BOOLEAN]
    /\ arenaTodo \subseteq Tasks /\ arenaTask \in Tasks \cup {None} /\ arenaFailed \in BOOLEAN
    /\ judgeTodo \subseteq Tasks
    /\ dispatcher \in {"next", "holding", "failed", "ended"}
    /\ sem \in 0..Parallelism
    /\ worker \in [Tasks -> {"idle", "running", "failed"}]
    /\ errs \in Nat
    /\ run \in {"pools", "failed", "summarised"}
    /\ faults \in 0..MaxFaults

\* The rows that scored a task of this track and rung among the first n.
RowsAt(k, r, n) ==
    {i \in 1..n : /\ results[i].outcome # "skipped"
                  /\ task[results[i].task].track = k
                  /\ task[results[i].task].rung = r}

Passes(rows) == {i \in rows : results[i].outcome = "passed"}

\* SAFETY: whatever was written and whatever failed, the ladder and the totals
\* that become the run's summary are those of the rows in eval_results, and a
\* task that passed is marked ready (complete).
AccountsMatchRows ==
    LET all == DOMAIN results
        skipped == {i \in all : results[i].outcome = "skipped"}
    IN  /\ \A k \in Tracks, r \in Rungs :
              LET rows == RowsAt(k, r, Len(results))
              IN  /\ ladder[k].rungs[r].n = Cardinality(rows)
                  /\ ladder[k].rungs[r].passed = Cardinality(Passes(rows))
        /\ totals = [scored |-> Cardinality(all \ skipped), passed |-> Cardinality(Passes(all)),
                     skipped |-> Cardinality(skipped)]
        /\ \A i \in Passes(all) : ready[results[i].task]

\* SAFETY: "every task is recorded exactly once regardless of which pool ran
\* it or in what order": no task has two rows, and a run that wrote its summary
\* has a row of every task, although a failed write ends only its own pool.
RecordedOnce ==
    /\ \A i, j \in DOMAIN results : results[i].task = results[j].task => i = j
    /\ run = "summarised" => \A t \in Tasks : \E i \in DOMAIN results : results[i].task = t

\* SAFETY: a task is skipped only when the budget was spent or its track had
\* abandoned its rung or a lower one, and neither is ever taken back, although
\* tasks under way are recorded after that.
SkippedForAReason ==
    \A i \in DOMAIN results : results[i].outcome = "skipped" =>
        budgetExceeded \/ ~Allowed(ladder[task[results[i].task].track], task[results[i].task].rung)

\* SAFETY: a track that abandoned a rung had, after one of its results, the
\* evidence its reason names; results that arrive later from tasks under way
\* may weaken it, and do not count (Ladder.Record).
AbandonedOnEvidence ==
    \A k \in Tracks : ladder[k].abandonFrom # 0 => \E n \in DOMAIN results :
        LET rows == RowsAt(k, ladder[k].abandonFrom, n)
        IN  IF ladder[k].abandonWhy = "futility"
            THEN \E m \in 0..n : LET last == rows \ RowsAt(k, ladder[k].abandonFrom, m)
                                 IN  Cardinality(last) = FutilityConsecutiveFails /\ Passes(last) = {}
            ELSE /\ Cardinality(rows) >= StopMinN
                 /\ UpperBelowStop(Cardinality(Passes(rows)), Cardinality(rows))

\* SAFETY: what was skipped and what was abandoned rests on the rows.
LadderRests == SkippedForAReason /\ AbandonedOnEvidence

\* SAFETY: one row per task, and accounts that are those of the rows.
RowsComplete == RecordedOnce /\ AccountsMatchRows

\* SAFETY: the run's tokens exceed -max-tokens by no more than the tasks under
\* way in both pools, the one that reached the cap among them, may use.
SpendBounded ==
    MaxTokens > 0 => \A most \in Costs :
        (\A c \in Costs : c <= most) => tokens < MaxTokens + (Parallelism + 1) * most

\* LIVENESS: the run ends: no slot is lost, no goroutine waits for room in the
\* channel of errors, and both pools are waited for. That each task ends is
\* assumed (FairSpec): one that hangs in its lane keeps the run waiting
\* (AgenticTask's LaneHangs).
RunEnds == <>(run # "pools")
=============================================================================
