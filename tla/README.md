# Splitter: TLA+ specifications and proofs

Splitter is a proxy between Claude Code and the Anthropic API, an offline
pipeline that measures whether a cheaper model would have done as well, and a
router that acts on the measurement. This directory models its control: which
process may do what, in which order, and what can happen between two steps.

## 1. Inventory

One process is long-lived (`splitter proxy`); every other command is a
short-lived process started by a timer or by hand. They share one SQLite file
(rollback journal, `busy_timeout` 5 s, **no multi-statement transactions**: each
`db.Exec` commits by itself), one git repository and `/tmp`.

| Component | State it keeps | Operations | Interacts through |
|---|---|---|---|
| `internal/router/live.go`, `internal/proxy/route.go` live routing | snapshot of `router_state` (atomic pointer), `broken`, `pending` (mutex), ordinal; rows of `router_state`, `router_decisions` | `RefreshSnapshot`, `Lookup`, `DisableCategory`, `TripBreaker`, `TakePending`, `RecordServedLocally`, `ShouldShadow`, `ServeLocal`, `DispatchShadow`; `routeDecision` composes them | many handler goroutines, the 60 s refresher, `router update` in another process, proxy restart |
| `internal/router/update.go`, `family.go`, `wilson.go` | `router_state` rows | `Update` (two queries of evidence, one upsert per group) | the hourly unit, bootstrap and people start it; the proxy disables the same rows |
| `internal/proxy` forwarding, capture, logger | per-request buffers, a 64-slot channel, drop counter, `calls` rows | `ServeHTTP`, `handleCaptured`, `plainForward`, `enqueue`, `process`, `Close` | handler goroutines, one logger goroutine, shutdown |
| `internal/anthropic` SSE | none | `AssembleSSE`, `SynthesizeSSE` | the logger assembles what the relay captured; the proxy synthesises local answers |
| `internal/feature` | `features` rows | `Run` (one upsert per call), `ClassifyTurnType`, `HasErrorFollowup`, `RequestOnly` | reads `calls` while the proxy adds to them; the harvest reads `features` |
| `internal/replay`, `internal/verify` | `replays`, `verifications`, `judge_items` rows; worktrees in `/tmp` and in the repository's worktree list | `Run`, `sendReplay`, `runCascade`, `Verify`, `Sweep` | SQLite, git, linters |
| `internal/judge` | `judge_batches`, `judge_items`, `verifications` rows | `Submit`, `Poll`, `applyVerdict` | Anthropic batch API |
| `internal/evals` | `eval_tasks`, `eval_runs`, `eval_results` rows; the ladder | `Harvest`, `SeedHistory`, `Run`, `Ladder.Record/Allowed`, `ReverseBriefsSubmit/Poll`, `RefreshRequests`, `JudgeFails`, `bootstrap` | each command a process that reads rows first and writes them one by one; git, backends, the batch API |
| `internal/agentic` | run state under one mutex (ladder, tokens, tallies), sandboxes, the shared arena checkout, a parked `.git` | `runSerialPool`, `runConcurrentPool`, `dispatch`, `complete`, `RunLoop`, arena create/teardown/heal | goroutine pools, git, docker |
| `internal/backend` | none | `Complete` with retry ladder, `ToOpenAI`, `FromOpenAI` | HTTP |
| `internal/store` | the SQLite file | `Open`, `Migrate`, queries | every command |
| `internal/config`, `cmd/splitter`, reports | none | flag and TOML parsing, printing | glue |

### What is hard here

* **Live routing.** A request reads the breaker, the snapshot and the pending
  turn at different moments and acts on them after a backend call that may take
  minutes. The snapshot is replaced wholesale by two writers that do not
  coordinate (`RefreshSnapshot`, `DisableCategory`), and the row behind it by a
  third process (`router update`).
* **Shutdown.** The logger's channel is closed after a `Shutdown` that gives up
  after five seconds, while a streaming response may run for minutes.
* **Pipeline crashes.** A replay, a verification and a judge item are three
  separate commits; so are a submitted batch, its row and its items.
* **Two pools, one budget.** The agentic run charges tokens after a task has
  finished, from two pools, against one cap and one ladder.
* **Rows written back whole.** The commands of the evaluation library and
  `featurise` read rows, work for minutes, and write every column back, while
  other commands do the same.
* **Streams.** A message is rebuilt from events that may break off anywhere; the
  record must say whether it is whole.
* **Repository state.** Worktrees, a parked `.git` and the shared arena checkout
  outlive a killed process.

## 2. Plan

| # | Module | Component | Abstract specification / composition | State |
|---|---|---|---|---|
| 1 | `LiveRouting`, `LiveRoutingProofs` | live routing | implements `RoutedAnswers` | done |
| 2 | `CaptureLog`, `CaptureLogProofs` | proxy handlers, logger channel, shutdown | | done |
| 3 | `VerifyCascade`, `JudgePipeline`, `JudgePipelineProofs` | exact match, edits, similarity and thresholds; replay commit order, submit, poll | `JudgePipeline` extends the pure part | done |
| 4 | `Ladder`, `RunPools`, `RunPoolsProofs` | ladder, agentic pools | `RunPools` extends `Ladder` | done |
| 5 | `TaskGrade`, `AgenticTask`, `AgenticTaskProofs` | arena lease and teardown, sandboxes, parked `.git`, tool loop, grading, lane | `AgenticTask` extends `TaskGrade`; one repository, many sittings, kills | done |
| 6 | `RouterStatistics`, `RouterUpdate`, `RouterUpdateProofs` | families, divergence, Wilson bound; `router update` | `RouterUpdate` extends the pure part | done |
| 7 | `MessageStream`, `LocalAnswer`, `CaptureLogProofs` | assembler and synthesiser; backend retries, relay and log of one request | `LocalAnswer` extends the pure part; assembling what was synthesised gives the message back | done |
| 8 | `Turns`, `Featurise`, `FeaturiseProofs` | turn types and the followup test; `featurise` and the harvest | `Featurise` extends the pure part | done |
| 9 | `SeedCommit`, `EvalLibrary`, `EvalScoring`, `Bootstrap`, `BootstrapProofs` | seeding, briefs, refresh; runs and grades; `bootstrap` | each extends the one before; `Bootstrap` composes them with `Ladder` | done |

What the plan has left is in sections 6 (proofs) and 8 (what is not modelled).

## 3. How the modules correspond to the code

A step is what one goroutine or process does between two points at which
another can act: one critical section, one load or store of an atomic pointer,
one SQL statement, one channel operation, one call to another service. A
handler that is several steps has a program counter; the map in `PROJECT.json`
gives the lines of every definition.

### LiveRouting and RoutedAnswers

State: `db` is the table `router_state`, `snap` the proxy's copy of it, `broken`
and `pending` the two maps under `LiveRouter.mu`, `decisions` the audit table.
`fetched`, `copied` and `verdict` are the rows that the refresher, an
escalating handler and `router update` hold between their read and their write.
A *category* stands for one (category, families) pair; what a request says is
reduced to its category and to whether `HasErrorFollowup` reports an error.

| Code | Action |
|---|---|
| `TakePending`, the heuristic | `TakePending` |
| `checkEscalation` | `TripBreaker`, `Disabled` / `DisableRouterState`, `LoadSnapshot`, `StoreSnapshot`, `LogEscalated` |
| `routeDecision` | `SessionBroken`, `Lookup`, `ShouldShadow`, `LogShadow` |
| `serveLocally` | `ServeLocal`, `LogLocal`, `RecordServedLocally`, `WriteLocalResponse` |
| forwarding, `DispatchShadow` | `Upstream`, `DispatchShadow` |
| `RefreshSnapshot` | `RefreshRead`, `RefreshStore` |
| `router update` | `UpdateRead`, `UpsertRouterState`, `UpdateAborted` |
| restart of the process | `Restart` |

`RoutedAnswers` is what a client may rely on: every request gets one answer,
from the frontier or, when its session had not tripped as it arrived, from the
local model. `LiveRouting` implements it under `ImplementsRoutedAnswers`.

### CaptureLog

`phase` is where `runProxy` is, `pc` where each handler is; `queue`, `closed`,
`dropped` are the channel, `current`, `drained`, `calls` the logger. A body is
a number of units relayed in chunks of one or two, so that a chunk can cross the
cap of the capture buffer. `Panic` may hit a handler in routing, before anything is written, and
at the end of the capture, after everything is; a send on the closed channel is
a panic too. Fairness never asks for a panic.

### VerifyCascade and JudgePipeline

`VerifyCascade` is `Verify` as a function of the two answers to a call: an answer is
a sequence of blocks, a file and a text are sequences of words. `FileEdits` are the
calls of an answer that edit files, `ApplyFileEdits` takes them through the files of
the commit, one `FileEdited` after the other, `ApplyTextEdits` the edits of one call,
and `Worktree` is where an answer ends up. `Replace` is one scan from the left
(`Scanned`): what was replaced is not looked at again, and an empty `old_string`
occurs before every word and at the end, as in Go's `strings.Replace`.
`MeanSimilarity` compares the files of both sides, by the table of
`TokenLevenshtein` or by what difft answers (an external function, which need
not answer, and whose total may come from one of the two files), and `Agree` puts
the fraction between the two thresholds. What a linter or a test command finds is
free, so `Verify` is a set of rows, and `Judgements`, which `RunCascade` writes, are
those of the exchanges of an instance.

The cascade has no state of its own, so what it promises is said of the functions,
over `Texts`, `Messages` and `Compared`: `DistanceIsLeast`, `FailuresLeaveNoTrace` and
`SidesCountAlike`. The last one has two conditions, which the code has too: the
thresholds are those of the language of the first file touched, the frontier's first
(`verify.go`), so sides that begin with files of different languages may be judged
differently when swapped, a file of no language such as a Makefile included; and
difft must count two files alike from either side (`DifftIsFair`).

`replay`, `verification`, `item` and `rows` are the four tables, `api` the
batches at the API. A runner is the hourly unit or a person: it starts `replay`,
`judge submit` or `judge poll`, each a sequence of statements, and `Abort` ends
a command between any two of them. A call is its own replay, verification and
item, because one backend and model are modelled. The four outcome columns have
their two encodings (`Shape`): an array of lint entries and an object for tests.

### Ladder and RunPools

`Ladder` is the pure part: tallies, the two stop conditions (the Wilson bound
as an integer inequality, `UpperBelowStop`), `Record` and `Allowed`. `RunPools`
is one agentic run: the schedule, `runState` under its mutex (`Complete`,
`DispatchRuns`, `DispatchSkips` are atomic), the serial arena loop and the
judge loop with its slots, workers, and channel of errors. A failing statement
is a choice; `complete` is two statements, so it may stop after the first.

### TaskGrade and AgenticTask

`TaskGrade` is the pure part: a pass reports pass, fail or nothing per test, and
the scores, the coarse score and the two pass rules are `ScoreFailToPass`,
`CoarseScore`, `PassedV1` and `PassedArena`. `AgenticTask` is the life of tasks
in sittings. A worker has a kind: `v1` (`runOneTask`), `judge`
(`runOneJudgeTask`) or `arena` (`runOneArenaTask`). `pc` is where its task is,
`job` what it counts, `boxes` the directories under `/tmp` with their entry in
the worktree list, their `.git` and their age, `arena` the shared checkout (on
its branch or not, its commit, and its changes, each with the worker that made
it). A file that git ignores is not a change: neither heal nor teardown sees it.

| Code | Action |
|---|---|
| `NewArenaSandbox`, `healArena` | `CheckStatus`, `HealReset`, `HealClean`, `RecordHead`, `CheckoutTask`, `LeaseFails` |
| `NewSandbox`, `PrepDependencies` | `CreateSandbox`, `CreateFails`, `Prep` |
| `prepareHeldOutContext` | `ApplyHeldOut` |
| `runTestsWithParking`, `RunGrading` | `StartTests`, then `GradeBaseline`, `RunTestsTool` or `GradeFinal` |
| `RunLoop`, `ToolExecutor.Execute` | `StopLoop`, `CallBackend`, `FileTool`, `RunTestsTool` |
| `judgeGradedOutcome` | `GradeDiff` |
| `LaneRunner.Run` | `StartLane`, `PollLane`; a request that is never answered: `LaneHangs`; the lane itself: `LaneEnds` |
| `Sandbox.Teardown` | `RemoveSandbox`, `PruneSandbox` |
| `ArenaSandbox.Teardown` | `ResetHome`, `CleanHome`, `Reattach`, `TeardownFails` |
| a sitting, with `Sweep` at its start | `StartSitting`, `SweepBox`, `SweepEnds`, `StartTask`, `EndSitting` |
| SIGKILL of a sitting; time | `Kill`, `Tick` |

### RouterStatistics and RouterUpdate

`RouterStatistics` is the pure part: `Family` drops the version tokens of a model
id, `Diverged` are the versions far below their family, `CategoryStats` is one
row of `router_state`, with the Wilson bound as an integer inequality.
`RouterUpdate` has the evidence (`decided` verifications, `results` of
evaluations and their grades), the table, and the updaters, each a process:
`UpdateStart` and `UpdateResults` are the two queries, `UpdateWrite` one upsert,
`UpdateFails` an error or a kill. The proxy's `Disable` is one UPDATE.

### MessageStream and LocalAnswer

`MessageStream` is the pure part. A message is its blocks, each a type and
pieces; `AssembleSSE` hands a stream to `HandleEvent` event by event (`FedAll`) and
closes what is open (`FinalizeOpen`), `SynthesizeSSE` is the stream of a message,
`FromOpenAI` what becomes of a backend's answer. `LocalAnswer` is one request:
`call` is `Complete` with its attempt and the time gone of its deadline, `plan` what
the frontier has still to send, `body` what the client got of it, `captured` what the
proxy kept, `Log` what the logger makes of that. Time passes in the waits and calls; a call that
hangs is ended by the deadline (`CallTimesOut`).

### Turns and Featurise

`Turns` is the pure part: what a call (`ClassifyTurnType`, `Subsystem`) and a
request alone (`RequestOnly`) tell, and the followup test. `Featurise` has the
tables `calls`, `features` and `tasks`; the client repeats its transcript,
retries, or starts again after a compaction (`Turn`). `Replies` says what a turn may
leave in `calls`: an answer, what arrived of one before it broke off (a tool call
that is cut has no input, `CutBlock`), an error of the API, which is stored as any
reply is and decodes to no content, a body that does not decode, or an empty one,
which is stored as NULL. A featuriser reads the ids of calls that have a reply
(`FeaturiseStart`), then reads and upserts call after call, and passes over one
that does not decode, again in every run (`FeaturisePasses`). The harvest runs
query after query (`HarvestStart`, `HarvestNext`) and inserts row after row.

### SeedCommit, EvalLibrary, EvalScoring and Bootstrap

`SeedCommit` is the pure part: what one commit comes to (`SeedOutcome`, `Nature`,
`Difficulty`, `Holdout`). `EvalLibrary` has `eval_tasks` and its writers: the
seeder, the submitters and the pollers of reverse briefs, and the refresher, each
with the rows it read and has still to write. The text of a brief is the number
of the batch that wrote it. `EvalScoring` adds runs, results and the graders.
`Bootstrap` is the command that runs seed, submit, poll and evaluate one after the
other, next to the same commands run by hand (`ByHand`).

| Code | Action |
|---|---|
| `SeedHistory` | `SeedStart`, `SeedCommitStep`, `SeedEnd` |
| `ReverseBriefsSubmit` | `SubmitStart`, `SubmitBatch`, `SubmitAnswerLost`, `SubmitMark` |
| `ReverseBriefsPoll` | `PollStart`, `PollGet`, `PollApply`, `PollNextBatch` |
| `RefreshRequests` | `RefreshStart`, `RefreshRequest`, `RefreshHoldout`, `RefreshSkips` |
| `evals.Run` | `RunStart`, `RunScore`, `RunSkip`, `RunFinish` |
| `JudgeFails` | `GradeStart`, `GradeAsk`, `GradeApply`, `GradeErrs` |
| `runBootstrap` | `BootSeeds` to `BootEnds` |

## 4. Runs

| Run | Module, bounds | What it asks |
|---|---|---|
| `live_safety` | 3 requests, 2 sessions of which 1 waits for its answers, 1 category, 2 failing statements, 1 update, 1 restart | `ServedSafely`: no local answer for a request that arrived after its session tripped (`BreakerHolds`), only a category `router update` has qualified (`OnlyQualifiedServed`), and an audit trail that agrees with the answers (`AuditMatchesAnswers`). `EscalationsStick`: a waiting client's local turn is checked (`LocalTurnAwaitsCheck`), at most one escalation per local turn (`EscalationsBacked`), the row disabled until the next update (`EscalationDisables`). `SessionStaysFrontier`: for a client that waits, the breaker that is read early is enough. |
| `live_progress` | 2 requests of 1 session, fairness | `DriftRecorded`, `SnapshotConverges`, `ImplementsRoutedAnswers`. |
| `capture_log` | 3 requests, channel of 1, cap 1, bodies of up to 2, fairness | `AnsweredAsCaptured`: one answer and one upstream request whatever panics, the capture is a prefix. `RecordsKept`: every record is a row, in flight, counted as dropped or lost, and an orderly exit drains. `AnsweredWithoutLogger`, `SignalEndsProcess`. |
| `judge` | 1 runner, 2 calls, 4 exchanges (one for each way to leave the cascade), 1 failure, 3 batches that may expire, fairness; texts of up to 3 of 2 words; two edits in a call or two calls on two files, an empty `old_string`; two or three files written in any order, one of them of no language | `VerdictsRest`: a verdict rests on the stages before it (`StagesBuildUp`) and on the rule (`DecisionFollowsRule`). `ResultsApplied`, `DecisionIsFinal`. `CascadeMeasures`: the distance is the least over all ways to line two texts up, a call that fails leaves no trace in the files, and the decision does not depend on which side is the frontier's, where both begin with the same language. `QueuedIsJudged`: a crash delays a queued item and does not lose it, unless its batch expires. |
| `pools` | 4 tasks on 2 rungs, 2 workers, cap 1, cost 0 or 2, 1 failing statement, fairness | `RowsComplete` (`RecordedOnce`, `AccountsMatchRows`), `LadderRests` (`SkippedForAReason`, `AbandonedOnEvidence`), `SpendBounded`, `RunEnds`. |
| `agentic_task` | one worker of any kind, one task per sitting and any number of sittings, a second process that sweeps, 1 kill, 1 failing git command, fairness | `ArenaKept`: an arena task works on its own commit and its own changes, after any kill or failed teardown (`LeaseIsClean`), and the branch stays (`BranchStays`). `ArenaComesHome`, `LiveSandboxIntact`: no sweep takes a running task's sandbox. `TaskEnds`: a task returns, is killed or waits for the status API for ever, and a lane that never ends cannot hold it otherwise. `LeftoversSwept`: a killed task's sandbox goes, unless every process hangs. |
| `agentic_lane` | violation | `PassedLaneGreen`, which `DESIGN.md:811` promises: a lane that fails and names no test counts as no regression. |
| `local_answer` | one request; answers and streams of up to three blocks of four types; 8 retries and a deadline of 80 quarter-minutes, `Retry-After` of none, 1 or 50; capture cap 13, 2 events of no effect; fairness | `StreamSaysWhatWasMeant`: a synthesised stream, assembled, is the backend's message. `CutIsFlagged`: a stream logged without an error is whole. `RetriesBounded`: a balance error is not waited out, and throttling is waited out within the deadline of the call. `RequestEnds`. |
| `featurise` | 1 session of 2 turns with retries and every kind of reply, 2 featurise processes, 1 failure or kill, a harvest, fairness of featurise | `FollowupStands`: a known followup is what the next call says. `LabelsEarned`: a task is labelled for it. `FollowupsSettle`. `TypeOK`: no row for a reply that does not decode. |
| `followup` | violation | `FlaggedForTrouble`: `BRIEF.md:61` says that the flag means that "the next call in the same session contains an error message or retry of the same edit", and `DESIGN.md:565` and `eval_store.go:477` harvest by it where "the frontier itself struggled". An edit that works and is never tried again is flagged too, by its own repetition in the transcript of the next request. `DESIGN.md:329-332` words the test as the code computes it ("its request contains [...] an edit-family tool_use targeting the same file"); read as the code reads it, whatever edited a file is a retry of itself. |
| `router_update` | 2 updaters, 2 verifications of two versions, 1 evaluation result, 1 escalation, 1 failure, fairness of updates | `AgreementEarned`: no row counts agreement that was never there. `StatisticsConverge`: the rows end up as those of all the evidence, and the key of a row is one of its evidence. |
| `library` | 3 commits of which 2 are documentation, 4 commands, 2 batches, 1 failure or kill | `SeedingHolds`: one task per commit, the share of documentation. `BriefsHonest`: a text belongs to the task it was written for, and a row says so. `SummaryOfRows`. `WrittenOnce`: rewritten briefs are never lost while submissions do not overlap, nor grades while gradings do not. |

The properties named first in a row that list others are conjunctions of them.

**Why the bounds are enough.** Every race in live routing is between two
handlers, or between one handler and one writer of the snapshot; the third
request is the one that arrives afterwards and shows the effect. One update and
one restart can each fall between any two steps. Liveness is checked with two
requests, as three with fairness take longer than a run may; the races that could
leave the snapshot wrong have two parties. In `CaptureLog` a channel of one is
full after one record, with a third request still to come. In `JudgePipeline` the
failure can hit a submission, its marks or a poll, and the third batch is the one
submitted after it; the theorems cover any number of failures and runners. In
`RunPools` four tasks of two rungs let a rung be abandoned while two workers and
the arena task are under way, and leave one to be skipped; three consecutive
failures and two scored tasks keep the two stop conditions apart. In `AgenticTask`
the next sitting's task is the one that meets what a killed or failed one left.
Two turns, one tool call per answer, a budget of one token and calls that cost
zero or one reach both bounds of the loop. The phases may take 1, 1, 1 and 2 units
and a sweep takes what is 5 old, so a task may be as old as it can get when the
other process sweeps. That process runs no task: tasks in sandboxes meet only in
each other's sweeps and prunes, and arena tasks are serial. Two sandbox names are
never exhausted. In `LocalAnswer` the retry limits are the real ones in units of
the first wait, so which of them ends the ladder is the code's own answer; a
message of three blocks has every boundary between events: within a block, between
blocks, before and after the stop, and the cap cuts the longer streams at any of
them. In `Featurise` two turns are a call with a successor and one without, read by
one process before the second arrives and by the other after, and a retry adds a
call that repeats the first. An answer is one block: it arrives, is cut, or is
replaced by an error. In `RouterUpdate` two
updates are the ones that can overwrite each other. In `Bootstrap` any four of
seven commands overlap; where one submits at a time, a brief can be lost only
between two writers of its row and the batch one of them waits for.

**Symmetry** is used in safety runs only, and only over sets whose members no
definition tells apart. **Deadlock** is not checked where the system may stop:
every command ends, and every bound is reached.

## 5. Fairness

* `LiveRouting`: a handler that has started goes on (weak fairness per request),
  because goroutines are scheduled, a local backend call has a 20-minute timeout
  (`backend/client.go`), a shadow replay five minutes and an SQL statement a busy
  timeout. The upstream response ends: the forwarding client has no timeout of
  its own, so this is an assumption about the environment. The refresher ticks
  for the life of the process. Clients, updates and restarts are not fair.
* `CaptureLog`: handlers go on (same assumption), and `Stop` does, whose two waits
  carry timeouts. The **logger is not fair**: SQLite may hang, and the claims are
  that neither an answer nor the exit waits for it.
* `JudgePipeline`: a started command goes on (weak), a batch ends (weak, the API's
  24 hours), and each command is started again and again (strong, as a command
  can start only while its runner is idle): the hourly timer. Failures are
  finitely many.
* `RunPools`: weak fairness of `Next`: some goroutine that can go on does. That a
  task ends is a premise of `RunEnds`: its turns, tokens and time are bounded, but
  one that hangs in its lane (`LaneHangs`, next item) holds the run.
* `AgenticTask`: a worker goes on with its task (weak). A backend call has a timeout
  (`backend/client.go`) and so has a test command, which is assumed to end with its
  shell; git commands are assumed to end. A request to the status API of the lane
  has none: `LaneHangs` may take it at any time, no fairness asks for it, and
  `TaskEnds` names it as an end. A sitting goes on (weak), and another follows: no
  unit in `systemd/` runs `eval agentic`, so this is an assumption about the
  operator, as for `featurise`. Time passes (strong, as a task at its limit stops
  the clock until it goes on). The **lane is not fair**: it may never end, and the
  deadline between two polls ends the task.

* `LocalAnswer`: the request goes on (weak): the backend's timeout is 20 minutes
  and the frontier's stream ends (the same assumption as above).
* `Featurise`: featurise is run again and again, and not with `-refresh` only.
  Nothing in the repository schedules it, although `README.md:58` reads as if
  something did: this is an assumption about the operator.
* `RouterUpdate`: the hourly unit runs the update (weak). Evidence, grades,
  escalations and failures are free, and finitely many.
* `Bootstrap` has no liveness: people start its commands.

## 6. What is proved

TLAPS checks these for every value of the constants that satisfies the named
assumptions of the modules (finite sets where a cardinality is taken, a history
that is a finite sequence of commits; nothing is assumed about how many requests,
calls, tasks, commits or failures there are). Every safety property that a passing
run checks is the statement of a theorem.

Where a run checks a conjunction, a last theorem of each module puts it together
(`ServingIsSafe`, `EscalationsHold`, `AnswersAreCaptured`, `RecordsAreKept`,
`VerdictsStand`, `MeasuresHold`, `RowsAreComplete`, `LadderIsRight`, `ArenaIsKept`).

* **LiveRoutingProofs.** `Typing`; `Breaker`; `Qualified`; `Audit`;
  `EscalationsDisable`; `EscalationsAreBacked`; with waiting clients
  `LocalTurnsAreChecked` and `TrippedSessionStaysFrontier`; and
  `RefinesRoutedAnswers`, the safety part of the refinement. `TypeOK` is not inductive, as a handler uses what it holds:
  `LocalsMatchPoint` adds what each holds at each point. `OnlyQualifiedServed`
  needs `QualifiedInv`, which says the same of every copy of the table, those in
  handlers' and processes' hands included. `TurnInv` counts: of a waiting client
  at most one request is open, and an unchecked local turn is pending or in the
  hand of the open request. `ChargeInv` weighs, per session and category, the
  escalations logged or under way, the local turns logged and not yet pending,
  and the pending one against the local turns logged: taking the turn moves one
  unit, so two requests cannot charge it twice. It needs the requests to be
  finitely many (`ReqsAssumption`), for their cardinalities.
* **CaptureLogProofs.** `Typing`, `Once`, `Prefix`, `Drains`, `Accounting`. The last
  one is about cardinalities: `FlightInv` says that each relayed request is in
  exactly one place, so moving it from one to the next keeps the sum.

  The module also holds what is proved of the streams, as the number of proof
  modules is kept small. `SynthesisIsAssembled`: for every message, of any number of
  blocks and pieces, assembling its synthesised stream, and the frontier's, gives
  the message back and no error. `BlockRead` reads one block from any assembler
  that has read the blocks before it, `BlocksRead` goes on from block to block,
  `WholeIsAssembled` adds the envelope. `StreamsSayWhatWasMeant` follows, as what
  `FromOpenAI` makes of any completion is a whole message (`CompletionIsWhole`).
  `CutsAreFlagged` is for every place at which a stream breaks off, every number of
  pings, unknown events and torn ends, and every cap. `StreamInv` says that, while
  the stream is under way, what the client got and what is left of it make the
  message (`Underway`), that nothing but the end sets `stopped`, and that at the end
  the assembler has the message or can tell that it has not (`Told`); `Kept` says
  that the capture is the body, or shorter. `RetriesAreBounded` rests on `CallInv`,
  for every cap, deadline and `Retry-After`.
* **JudgePipelineProofs.** `Typing`, `Rule`, `BuildUp`, for any number of runners at
  once and whatever the cascade is asked (`JudgementTypes`: only its second stage
  leaves a pair undecided). `Core` strengthens the types by what rows and links denote (`Settled`) and
  what a command knows of the row in its hand (`InHand`); one lemma per
  statement, and `Stages` adds that a replay is verified by its owner only.
  `ResultsAreApplied` and `DecisionsStand` are for one runner (`OneRunner`), as the
  runs are: two submissions that overlap may send an item twice and take the later
  answer, and a poll may complete a batch whose items are still being marked.
  `Ordered` says what one command at a time buys: an item that waits is in no
  batch, what the judge decided is what the batch of the item's row says, and the
  lines in hand are all that a batch has left.

  Three theorems are about the cascade, for any texts, answers, edits, files and
  thresholds, and `MeasuresHold` puts them together. `DistancesAreLeast`:
  the table holds, at every cell, the least cost of lining up the two beginnings
  (`BestAt`); the last pair of an alignment, or its absence, is one of the three
  neighbours (`LastWords`), and each neighbour's best extends to one of the cell
  (`OneMorePair`, `OneMoreWord`). `FailedCallsLeaveNoTrace`: a call changes its file
  by all of its edits or none (`AllOrNothing`, `CallFailsWhole`), so going through
  the calls with and without those that fail leaves the same files (`NoTrace`).
  `NeitherSideIsPreferred`: the table of the texts swapped is the transposed one
  (`DistanceBothWays`, cell by cell), and the mean and the thresholds do not change
  (`MeanBothWays`, `LanguageBothWays`). The attempt to prove an earlier form of it,
  whose condition left out files of no language, failed at `LanguageBothWays`, and
  TLC found the counterexample: a Makefile on one side, and on the other a file of a
  language with thresholds of its own. They assume of the constants what decoding
  and reading give: a commit is files of words (`CommitAssumption`), and so are
  texts and the blocks of an answer (`TextsAssumption`, `MessagesAssumption`); a
  linter or a test command that runs finds something (`OutcomesAssumption`).
* **RunPoolsProofs.** `Typing`, `EveryTaskRecorded`, `SkipsRest`, `Overshoot`,
  `AccountsAreRows`, `AbandonedForAReason`. `Slots` equates the slots in use with the goroutines that
  hold one, which bounds them; `Placed` puts each task in exactly one place;
  `Budgeted` weighs tokens already charged and tasks under way together, which
  is what `SpendBounded` needs to be inductive; `Accounts` ties the ladder and
  the totals to the rows. `AbandonedRightly` says of each rung that its run of
  failures ends its rows and is too short for futility while the rung is allowed,
  so the row that abandons it is the evidence, and later rows leave it there.

* **AgenticTaskProofs.** `Typing`; `LoopsStayBounded`; `SandboxesIntact`,
  `LeasesStartClean`, `BranchKept`, `ComesHome`, for any number of workers,
  processes, commits, kills and failing commands. `SandboxesIntact` rests on
  `TimeAssumption`, that the timeouts of a task add up to less than the sweep
  age: `SandboxInv` says that a task's sandbox is its own, no older than its
  limit, and in no sweep's list. `LeasesStartClean` and `BranchKept` hold with one
  worker in the arena (`OneArena`): `ArenaInv` says what each phase of the lease
  has cleaned, that of a task whose lane request hangs included, `ByKind` that only the arena's worker is ever in those phases.
  `ComesHome` adds what a lease has recorded of the arena and how far its teardown
  has got (`HomeInv`), up to the first kill or failing command: at `reattach` the
  arena is detached, clean and at the commit of the lease, so that taking the
  branch again brings it home.

* **FeaturiseProofs.** `Typing`, `KnownFollowupsStand`, `LabelsAreEarned`, for any
  sessions and featurise processes. Calls are only ever added at the end, so the
  next call of a session, once there, stays the next one (`NewCallKeeps`); the
  invariant carries what each process read between its query and its upsert. Each has
  calls with a reply in its list, and a row in its hand only of one that decodes.
* **RouterUpdateProofs.** `Typing`, `AgreementIsEarned`. Agreement that is there is
  never taken back, and a group counts at most one agreement per piece of
  evidence: `IInv` says so of the table and of what every updater has read and
  has still to write. Verifications and tasks are assumed finite.
* **BootstrapProofs.** `Typing`, `Seeding`, `Briefs`, `Summaries`, `Written`, for
  any history, number of submitters, pollers, graders, commands, batches and failures. A step of
  bootstrap is a step of the command it runs (`BootStepsAreSteps`), so one lemma
  per statement of a command serves both. None of the properties is inductive, as
  each command writes what it read earlier; `IInv` says what is still true of that
  when it is written. The seeder's list has a commit once, and if the library has
  it, it is among those the seeder knows; its own documentation and that of all
  others each keep the share, so their sums do (`SharesAdd`). A row that is not
  done bears no text, and one that is done the text of the batch it is marked with
  (`RowSound`). `Briefs` and the types hold for any number of submitters and graders.
  `Written` is under the premises of its property: where only one submits
  (`OneSubmitter`), what it has left was never submitted, and a row that a poll read
  stays marked with its batch, so another poll that was first has written the same
  text; where only one grades (`OneGrader`), what it has left has no verdict. An evaluator has written one row for each task it has been through,
  and its counts are theirs (`Tallied`); they stay those of a finished run until a
  judge changes a row, for results are never removed.

**Induction over data.** The induction rules of the library take the step as an
operator, which none of the provers can instantiate. `NatSetInduction` says the same
of a set, a set of numbers with 0 and with every successor being all of them, from
the library's rule that a well-founded set has a minimal element; what is to be
shown for all numbers is then membership of a set. That a recursive function exists
cannot be an operator's lemma either, so each recursion of the cascade and of the
assembler has its own (`RowExists`, `FilingExists`, `FeedingExists` and so on), which
builds it up to every length.

**Only model-checked**, and why: all liveness, which is fairness and ENABLED
(`DriftRecorded`, `SnapshotConverges`, `AnsweredWithoutLogger`, `SignalEndsProcess`,
`QueuedIsJudged`, `RunEnds`, `TaskEnds`, `LeftoversSwept`, `RequestEnds`,
`FollowupsSettle`, `StatisticsConverge`), and the fairness part of the refinement
`ImplementsRoutedAnswers`. These are out of this prover's reach.

## 7. Differences between code and text met on the way

The two `violation` runs are findings. Others were seen while modelling; the
models follow the code in each.

*Routing and its statistics*

* A request whose local answer is being computed when another request of its
  session trips the breaker is still answered locally (`route.go:52` reads once).
* A refresh that read before a disable and stores after it enables the category
  again until the next tick (`live.go:126`), although the comment at `live.go:163`
  says the next lookup sees it disabled.
* `router update` enables the row of a category whose agreement is high enough,
  also when an escalation has just disabled it (`update.go:170`): the upsert
  replaces `disabled_reason`, which `DESIGN.md:432` makes a condition.
* Overlapping updates can write older statistics over newer ones, until the
  next tick.
* The live lookup uses the predicted type and the subsystem last touched, while a
  captured call without an edit is featurised with the subsystem `''`: sessions
  that have edited something never match its rows.
* Evidence from seeded history has `human` as its frontier side
  (`router_store.go:213`) and a row of its own, so live evidence never firms it up
  or disproves it, as `README.md:65` says; nor does a live lookup find that row.
* Escalations are never harvested: `LogDecision` is given no call id
  (`route.go:77`, `115`, `138`), which the query of `DESIGN.md:565` joins on.
* A version at exactly ten points below its family diverges or not by the rounding
  of floats; the model compares integers.

*Proxy, streams and backends*

* A handler that outlives the five seconds of `Shutdown` sends on a closed channel
  (`cmd_proxy.go:111`, `proxy.go:114`): it panics after its answer.
* A non-SSE body that breaks off is logged as complete (`forward.go:147`), and a
  torn `message_stop` counts as the stop.
* The assembler keeps a block of an unknown type and drops its deltas; what
  `types.go:40` promises of such blocks holds of whole messages only.
* A 200 without choices becomes an empty `end_turn` answer.
* The ladder of retries waits 15·2^k seconds up to 300 s: seven waits are 1065 s
  and the eighth passes the deadline of 1200 s, so the ninth attempt that
  `maxRetries` allows is made only where `Retry-After` shortens the waits.
* `AnthropicClient` has no balance check; only the OpenAI-shaped client has.

*Replay, judge and evaluation*

* The lint columns are stored as an array and `poll.go:146` reads them as an
  object (`DESIGN.md:392`): `testsVerdict` never knows what lint said.
* Bootstrap evaluates tasks whose request is still the commit message while their
  briefs are out, and its report calls them reverse-engineered
  (`cmd_bootstrap.go:109`). It never runs `judge-fails`.
* A file whose edit failed "correctly reflects disagreement", says the comment at
  `editapply.go:150`. When the edits of both sides fail on a file, as they may where
  the session had changed it without a commit, it is the same on both sides:
  their similarity is 1 and the answers agree, whatever they were.
* Disagreements keep the difficulty of their first harvest.
* Nothing in the repository schedules `featurise`, although `README.md:58` reads so.
* A second runner that polls between the batch row and its marks
  (`submit.go:50`) completes a batch whose items are not linked yet, and loses
  the verdicts. The hourly unit alone cannot do that.
* `judge poll` stops at the first batch whose GET fails (`poll.go:41`).
* A crash between a replay row and its verification leaves the replay unverified
  for ever, as the row excludes its call from the next selection.

* A call that the API refused (429, 529) is stored with its error as the response
  (`capture.go:109`, `logger.go:128`): featurised, it is a turn `other`, and it is
  harvested as challenging, with an error as its reference, when the transcript the
  retry repeats holds a failed tool. One whose body does not decode is tried and logged by every
  run of `featurise` (`featurise.go:39`).
* Two submissions of reverse briefs that overlap, as bootstrap's and one by hand may,
  send the same rows; the later mark puts the commit's message back over a brief the
  first one's answer has rewritten (`reverse_briefs.go:87-92`), until its own batch
  is polled. Two `judge-fails` ask for the same rows and the later verdict replaces
  the first, without a condition (`judge_fails.go:41`, `110`). `WrittenOnce` has both
  as premises, and TLC violates it without them.

*Agentic runs*

* A lane's timeout does not end the task in all cases: the comment at `arena.go:445`
  says that "a timeout returns LaneResult{TimedOut: true} rather than an error", but
  the deadline is looked at between two polls (`arena.go:475`), and a poll has neither
  a timeout of its own nor a context that ends (`arena.go:605`,
  `cmd_eval_agentic.go:59`). A status API that accepts and never answers holds the
  task, and with it the arena and the run (`LaneHangs`).

* The futility rule counts consecutive failures after passes as well
  (`ladder.go:183`), although its comment says "zero-pass failures".
* `runConcurrentPool` does not stop at a worker's error: its comment
  (`parallel.go:153`) says it does, the loop never reads the channel.
* `-max-tokens`, a "hard cap" in `DESIGN.md`, may be exceeded by every task under
  way; `SpendBounded` says by how much.
* A timeout of a test command kills its shell; what the shell started can live
  on. That phases end in time is therefore an assumption (`TimeAssumption`), which
  the configured defaults meet with a margin: 45 minutes of a `v1` task and 30 of
  a judged one, against a sweep age of 60.
* A sitting that is killed leaves the arena detached. The next one records that
  as its original state (`arena.go:251`) and never returns to the branch.
* Nothing keeps two sittings from using the arena at once; `OneArena` assumes it.
* A lane already running when a task asks for one (`409`) is waited for and
  graded as the task's own.
* Ignored files survive heal and teardown (`git clean -fd`), although the comment
  at `arena.go:198` says "everything uncommitted".
* A bound that stops the loop does not veto the grade: `DESIGN.md:751` and the
  comment at `loop.go:85` can be read otherwise.
* `parkGit` looks for `.git` where the tests run, so for a task in a subsystem
  nothing is parked.
* `git worktree prune` of one process drops the registration of a sandbox whose
  `.git` another has parked. Its teardown then removes the directory alone.
* A held-out test need not fail at the baseline, nor need every one of them run,
  for a task to pass.

## 8. What is not modelled

`PROJECT.json` lists every component with its status. Left out:

* text without shared state: prompts, briefs as text, the text of reports,
  configuration, HTTP encodings. That includes `ToOpenAI`, `evals list`, `report` and `add`, `computeRegressions`,
  `recordScorecard`, the drift report and `import-history`, which reads transcripts
  and inserts a row for each;
* the worktree pairs of the verify cascade, which have the life of a sandbox
  without a parked `.git` and the same sweep, and cheat detection, patterns over
  what tools were given: `RouterUpdate` has results with and without its flag;
* more than one seeder, evaluator and refresher at a time. Their commands are
  interactive, and `EvalLibrary` has the races of different commands. Submitters and
  graders are as many as one likes: the run has one of each and any number of
  commands by each, the theorems have any number, and `WrittenOnce` says which part
  of it needs one;
* `ResolveArenaConfig`, the text of a lane's log and the commands of
  `PrepDependencies`, each one outcome.
