---------------------------- MODULE AgenticTask ----------------------------
(***************************************************************************)
(* The life of agentic tasks (internal/agentic: run.go, arena.go,          *)
(* sandbox.go, loop.go, parallel.go) in the sittings that run them: what   *)
(* one task does to the shared arena checkout or to a worktree of its own, *)
(* and what it leaves when its process is killed. A worker is a goroutine  *)
(* that runs one task after another:                                       *)
(*   "v1"     runOneTask: a sandbox, tests on this machine, .git parked    *)
(*   "judge"  runOneJudgeTask: a sandbox, no tests, a verdict on the diff  *)
(*   "arena"  runOneArenaTask: the arena, tests and a lane in containers   *)
(* Every git command is a step, and so is every call to a backend, to the  *)
(* lane or to the tests; a kill falls between any two.                     *)
(***************************************************************************)
EXTENDS TaskGrade

CONSTANTS
    Processes,      \* that run sittings, one after another
    Workers,
    ProcessOf,      \* the process of a worker
    Casts,          \* which kind a worker may be, or None
    NBoxes,         \* bound: sandbox names, enough never to run out
    Commits, Tip,   \* of the repository; the commit of the arena's branch
    MaxTurns, MaxTaskTokens, Costs,  \* [evals]; tokens a call may use
    MaxCalls,       \* bound: tool calls in one answer
    TasksPerSitting,
    PrepLimit, GradeLimit, LoopLimit, JudgeLimit,  \* how long a phase may take
    SweepAge,       \* sandboxSweepAge, in the same unit
    MaxKills, MaxFaults,  \* bounds: killed processes, git commands that fail
    None

Boxes == 1..NBoxes
Kinds == {"v1", "judge", "arena"}
Dirt == {"tracked", "untracked"}

ASSUME TaskAssumption ==
    /\ ProcessOf \in [Workers -> Processes]
    /\ Casts \subseteq [Workers -> Kinds \cup {None}]
    /\ Tip \in Commits
    /\ Costs \subseteq Nat
    /\ {NBoxes, MaxTurns, MaxTaskTokens, MaxCalls, TasksPerSitting, MaxKills, MaxFaults} \subseteq Nat
    /\ {PrepLimit, GradeLimit, LoopLimit, JudgeLimit, SweepAge} \subseteq Nat
    /\ None \notin Boxes /\ None \notin Workers /\ None \notin Kinds

\* What gradingTimeout, prepTimeout, wall_clock_minutes and the timeout of a
\* backend call add up to is less than sandboxSweepAge.
ASSUME TimeAssumption ==
    /\ PrepLimit + GradeLimit + LoopLimit + GradeLimit < SweepAge
    /\ LoopLimit + JudgeLimit < SweepAge

VARIABLES
    kind,     \* each worker's kind
    proc,     \* each process: down, sweeping, up
    stale,    \* boxes its Sweep has still to remove
    todo,     \* tasks of the sitting a worker has not begun
    pc,       \* where a worker is
    job,      \* the task it runs
    testing,  \* its test command is running
    outcome,  \* what its task is about to return
    boxes,    \* directories under /tmp and the repository's worktree list
    box,      \* a worker's Sandbox
    arena,    \* the arena checkout
    tip,      \* the commit of its branch
    home,     \* where it was first
    lease,    \* originalBranch and originalSHA of an ArenaSandbox
    lane,     \* the status API is running it
    kills, faults

sitting == <<kind, proc, stale, todo>>
sandboxes == <<boxes, box>>
checkout == <<arena, tip, home, lease>>
vars == <<sitting, pc, job, testing, outcome, sandboxes, checkout, lane, kills, faults>>

NoBox == [dir |-> FALSE, reg |-> FALSE, git |-> TRUE, age |-> 0]
NoJob == [commit |-> Tip, rooted |-> TRUE, named |-> FALSE, turns |-> 0, tokens |-> 0, calls |-> 0,
          baseline |-> {}, green |-> FALSE]
NoLease == [branch |-> FALSE, sha |-> Tip]

Init ==
    /\ kind \in Casts
    /\ proc = [p \in Processes |-> "down"]
    /\ stale = [p \in Processes |-> {}]
    /\ todo = [w \in Workers |-> 0]
    /\ pc = [w \in Workers |-> "idle"]
    /\ job = [w \in Workers |-> NoJob]
    /\ testing = [w \in Workers |-> FALSE]
    /\ outcome = [w \in Workers |-> None]
    /\ boxes = [b \in Boxes |-> NoBox]
    /\ box = [w \in Workers |-> None]
    /\ \E branch \in BOOLEAN, c \in Commits :
          /\ branch => c = Tip
          /\ (\A w \in Workers : kind[w] # "arena") => branch   \* of no concern then
          /\ arena = [branch |-> branch, head |-> c, dirt |-> {}]
    /\ home = arena
    /\ tip = Tip
    /\ lease = [w \in Workers |-> NoLease]
    /\ lane = FALSE
    /\ kills = 0
    /\ faults = 0

-----------------------------------------------------------------------------
(***************************************************************************)
(* Sandboxes: a directory, its entry in the worktree list, its .git, and   *)
(* the age of its modification time.                                       *)
(***************************************************************************)
Unused(b) ==
    /\ boxes[b] = NoBox
    /\ \A w \in Workers : box[w] # b
    /\ \A p \in Processes : b \notin stale[p]

\* Mutant: RemoveAll only where git recognised the worktree.
Removed_NeedsGit(b) ==
    IF boxes[b].git THEN [boxes EXCEPT ![b] = NoBox] ELSE boxes

\* git worktree remove --force needs a .git to recognise; the directory goes
\* in any case.
Removed(b) ==
    [boxes EXCEPT ![b] = [NoBox EXCEPT !.reg = boxes[b].reg /\ ~boxes[b].git]]

\* git worktree prune drops the entries whose .git is not where they say.
Pruned == [b \in Boxes |-> [boxes[b] EXCEPT !.reg = @ /\ boxes[b].dir /\ boxes[b].git]]

GitFails == faults < MaxFaults /\ faults' = faults + 1

-----------------------------------------------------------------------------
(***************************************************************************)
(* Sittings.                                                               *)
(***************************************************************************)
WorkersOf(p) == {w \in Workers : ProcessOf[w] = p}

\* Mutant: every sandbox found is taken for a leftover.
StartSitting_SweepsAll(p) ==
    /\ proc[p] = "down"
    /\ proc' = [proc EXCEPT ![p] = "sweeping"]
    /\ stale' = [stale EXCEPT ![p] = {b \in Boxes : boxes[b].dir}]
    /\ UNCHANGED <<kind, todo, pc, job, testing, outcome, sandboxes, checkout, lane, kills, faults>>

\* Run fixes the cutoff and reads the temporary directory. (A sitting with no
\* task and nothing to sweep would change nothing.)
StartSitting(p) ==
    /\ proc[p] = "down"
    /\ (\E w \in WorkersOf(p) : kind[w] # None) \/ (\E b \in Boxes : boxes[b].dir)
    /\ proc' = [proc EXCEPT ![p] = "sweeping"]
    /\ stale' = [stale EXCEPT ![p] = {b \in Boxes : boxes[b].dir /\ boxes[b].age >= SweepAge}]
    /\ UNCHANGED <<kind, todo, pc, job, testing, outcome, sandboxes, checkout, lane, kills, faults>>

SweepBox(p, b) ==
    /\ b \in stale[p]
    /\ boxes' = Removed(b)
    /\ stale' = [stale EXCEPT ![p] = @ \ {b}]
    /\ UNCHANGED <<kind, proc, todo, pc, job, testing, outcome, box, checkout, lane, kills, faults>>

SweepEnds(p) ==
    /\ proc[p] = "sweeping"
    /\ stale[p] = {}
    /\ boxes' = Pruned
    /\ proc' = [proc EXCEPT ![p] = "up"]
    /\ todo' = [w \in Workers |-> IF w \in WorkersOf(p) /\ kind[w] # None THEN TasksPerSitting ELSE todo[w]]
    /\ UNCHANGED <<kind, stale, pc, job, testing, outcome, box, checkout, lane, kills, faults>>

EndSitting(p) ==
    /\ proc[p] = "up"
    /\ \A w \in WorkersOf(p) : pc[w] = "idle" /\ todo[w] = 0
    /\ proc' = [proc EXCEPT ![p] = "down"]
    /\ UNCHANGED <<kind, stale, todo, pc, job, testing, outcome, sandboxes, checkout, lane, kills, faults>>

\* What a lease changed in the arena and did not clean up is there for the
\* next one.
LeftBy(ws) == {<<IF d[1] \in ws THEN None ELSE d[1], d[2]>> : d \in arena.dirt}

\* SIGKILL: no deferred call runs.
Kill(p) ==
    /\ proc[p] # "down"
    /\ kills < MaxKills
    /\ kills' = kills + 1
    /\ proc' = [proc EXCEPT ![p] = "down"]
    /\ stale' = [stale EXCEPT ![p] = {}]
    /\ LET dead == WorkersOf(p)
           reset(f, v) == [w \in Workers |-> IF w \in dead THEN v ELSE f[w]]
       IN  /\ todo' = reset(todo, 0)
           /\ pc' = reset(pc, "idle")
           /\ job' = reset(job, NoJob)
           /\ testing' = reset(testing, FALSE)
           /\ outcome' = reset(outcome, None)
           /\ box' = reset(box, None)
           /\ lease' = reset(lease, NoLease)
           /\ arena' = [arena EXCEPT !.dirt = LeftBy(dead)]
    /\ UNCHANGED <<kind, boxes, tip, home, lane, faults>>

-----------------------------------------------------------------------------
(***************************************************************************)
(* Time passes for every directory. No task outlasts the timeouts of its   *)
(* phases; one of them, a wall clock, may end a loop early.                *)
(***************************************************************************)
TaskLimit(w) == IF kind[w] = "v1" THEN PrepLimit + GradeLimit + LoopLimit + GradeLimit
                                  ELSE LoopLimit + JudgeLimit

\* A task up to its teardown.
Needs(w) == box[w] # None /\ pc[w] # "teardown"

Tick ==
    /\ \E b \in Boxes : boxes[b].dir /\ boxes[b].age < SweepAge
    /\ \A w \in Workers : Needs(w) => boxes[box[w]].age < TaskLimit(w)
    /\ boxes' = [b \in Boxes |-> IF boxes[b].dir /\ boxes[b].age < SweepAge
                                 THEN [boxes[b] EXCEPT !.age = @ + 1] ELSE boxes[b]]
    /\ UNCHANGED <<sitting, pc, job, testing, outcome, box, checkout, lane, kills, faults>>

-----------------------------------------------------------------------------
(***************************************************************************)
(* From one step of a task to the next.                                    *)
(***************************************************************************)
Goto(w, phase) == pc' = [pc EXCEPT ![w] = phase]

Failed == [passed |-> FALSE, lane |-> None]

\* A return: the outcome is known, and the deferred Teardown is next.
Return(w, result) ==
    /\ outcome' = [outcome EXCEPT ![w] = result]
    /\ job' = [job EXCEPT ![w] = NoJob]
    /\ Goto(w, IF kind[w] = "arena" THEN "reset" ELSE "teardown")

\* The task is over: what it left in the arena is nobody's from now on.
Over(w) ==
    /\ Goto(w, "idle")
    /\ job' = [job EXCEPT ![w] = NoJob]
    /\ outcome' = [outcome EXCEPT ![w] = None]
    /\ lease' = [lease EXCEPT ![w] = NoLease]

StartTask(w) ==
    /\ proc[ProcessOf[w]] = "up"
    /\ pc[w] = "idle"
    /\ todo[w] > 0
    /\ todo' = [todo EXCEPT ![w] = @ - 1]
    /\ \E c \in Commits, rooted, named \in BOOLEAN :
          /\ kind[w] # "arena" => c = Tip   \* any commit will do in a worktree of one's own
          /\ kind[w] # "v1" => rooted
          /\ kind[w] = "judge" => ~named
          /\ job' = [job EXCEPT ![w] = [NoJob EXCEPT !.commit = c, !.rooted = rooted, !.named = named]]
    /\ Goto(w, IF kind[w] = "arena" THEN "status" ELSE "create")
    /\ UNCHANGED <<kind, proc, stale, testing, outcome, sandboxes, checkout, lane, kills, faults>>

-----------------------------------------------------------------------------
(***************************************************************************)
(* NewArenaSandbox: a failing command gives the lease up as it stands.     *)
(***************************************************************************)
Dirty == arena.dirt # {}
Without(sort) == [arena EXCEPT !.dirt = {d \in @ : d[2] # sort}]

CheckStatus(w) ==
    /\ pc[w] = "status"
    /\ Goto(w, IF Dirty THEN "heal" ELSE "record")
    /\ UNCHANGED <<sitting, job, testing, outcome, sandboxes, checkout, lane, kills, faults>>

\* healArena: git reset --hard, then git clean -fd.
HealReset(w) ==
    /\ pc[w] = "heal"
    /\ arena' = Without("tracked")
    /\ Goto(w, "healclean")
    /\ UNCHANGED <<sitting, job, testing, outcome, sandboxes, tip, home, lease, lane, kills, faults>>

\* Mutant: heal is git reset --hard alone.
HealClean_Skipped(w) ==
    /\ pc[w] = "healclean"
    /\ Goto(w, "record")
    /\ UNCHANGED <<sitting, job, testing, outcome, sandboxes, checkout, lane, kills, faults>>

HealClean(w) ==
    /\ pc[w] = "healclean"
    /\ arena' = Without("untracked")
    /\ Goto(w, "record")
    /\ UNCHANGED <<sitting, job, testing, outcome, sandboxes, tip, home, lease, lane, kills, faults>>

RecordHead(w) ==
    /\ pc[w] = "record"
    /\ lease' = [lease EXCEPT ![w] = [branch |-> arena.branch, sha |-> arena.head]]
    /\ Goto(w, "checkout")
    /\ UNCHANGED <<sitting, job, testing, outcome, sandboxes, arena, tip, home, lane, kills, faults>>

CheckoutTask(w) ==
    /\ pc[w] = "checkout"
    /\ arena' = [arena EXCEPT !.branch = FALSE, !.head = job[w].commit]
    /\ Goto(w, "held")
    /\ UNCHANGED <<sitting, job, testing, outcome, sandboxes, tip, home, lease, lane, kills, faults>>

LeaseFails(w) ==
    /\ pc[w] \in {"status", "heal", "healclean", "record", "checkout"}
    /\ GitFails
    /\ Over(w)
    /\ UNCHANGED <<sitting, testing, sandboxes, arena, tip, home, lane, kills>>

-----------------------------------------------------------------------------
(***************************************************************************)
(* NewSandbox and PrepDependencies. A name is random: the first unused one *)
(* stands for it.                                                          *)
(***************************************************************************)
CreateSandbox(w) ==
    /\ pc[w] = "create"
    /\ \E b \in Boxes :
          /\ Unused(b)
          /\ \A c \in Boxes : Unused(c) => b <= c
          /\ boxes' = [boxes EXCEPT ![b] = [NoBox EXCEPT !.dir = TRUE, !.reg = TRUE]]
          /\ box' = [box EXCEPT ![w] = b]
    /\ Goto(w, IF kind[w] = "v1" THEN "prep" ELSE "held")
    /\ UNCHANGED <<sitting, job, testing, outcome, checkout, lane, kills, faults>>

CreateFails(w) ==
    /\ pc[w] = "create"
    /\ Over(w)
    /\ UNCHANGED <<sitting, testing, sandboxes, arena, tip, home, lane, kills, faults>>

Prep(w) ==
    /\ pc[w] = "prep"
    /\ \/ Goto(w, "held") /\ UNCHANGED <<job, outcome>>
       \/ Return(w, Failed)
    /\ UNCHANGED <<sitting, testing, boxes, box, checkout, lane, kills, faults>>

-----------------------------------------------------------------------------
(***************************************************************************)
(* The task proper, in whichever directory it has.                         *)
(***************************************************************************)
\* Changes a worker makes; those in a sandbox go with it.
Writes(w, sorts) ==
    arena' = IF kind[w] = "arena" THEN [arena EXCEPT !.dirt = @ \cup ({w} \X sorts)] ELSE arena

\* prepareHeldOutContext changes test files and adds new ones, or finds that
\* one does not apply.
ApplyHeldOut(w) ==
    /\ pc[w] = "held"
    /\ \E sorts \in SUBSET {"tracked", "untracked"} : Writes(w, sorts)
    /\ \/ Goto(w, IF kind[w] = "judge" THEN "loop" ELSE "baseline") /\ UNCHANGED <<job, outcome>>
       \/ Return(w, Failed)
    /\ UNCHANGED <<sitting, testing, boxes, box, tip, home, lease, lane, kills, faults>>

\* parkGit looks for .git in the directory the tests run in: the root of the
\* sandbox only for a task without a subsystem. The arena's is never parked.
Parks(w) == kind[w] = "v1" /\ job[w].rooted /\ box[w] # None /\ boxes[box[w]].dir

StartTests(w) ==
    /\ pc[w] \in {"baseline", "tools", "final"}
    /\ kind[w] # "judge"
    /\ ~testing[w]
    /\ testing' = [testing EXCEPT ![w] = TRUE]
    /\ boxes' = IF Parks(w) THEN [boxes EXCEPT ![box[w]].git = FALSE] ELSE boxes
    /\ UNCHANGED <<sitting, pc, job, outcome, box, checkout, lane, kills, faults>>

\* The command has ended, leaving files of its own; .git is put back.
TestsEnd(w) ==
    /\ testing[w]
    /\ testing' = [testing EXCEPT ![w] = FALSE]
    /\ boxes' = IF Parks(w) THEN [boxes EXCEPT ![box[w]].git = TRUE] ELSE boxes
    /\ \E sorts \in SUBSET {"untracked"} : Writes(w, sorts)

\* RunGrading before the loop: which of the other tests pass.
GradeBaseline(w) ==
    /\ pc[w] = "baseline"
    /\ TestsEnd(w)
    /\ \/ /\ \E passing \in SUBSET Others :
                job' = [job EXCEPT ![w].baseline = IF job[w].named THEN passing ELSE {}]
          /\ Goto(w, "loop")
          /\ UNCHANGED outcome
       \/ Return(w, Failed)
    /\ UNCHANGED <<sitting, box, tip, home, lease, lane, kills, faults>>

\* Bounds of RunLoop, checked before every call.
BoundReached(w) ==
    \/ job[w].turns >= MaxTurns
    \/ MaxTaskTokens > 0 /\ job[w].tokens >= MaxTaskTokens

AfterLoop(w) == IF kind[w] = "judge" THEN "judge" ELSE "final"

\* A bound, or the wall clock.
StopLoop(w) ==
    /\ pc[w] = "loop"
    /\ Goto(w, AfterLoop(w))
    /\ UNCHANGED <<sitting, job, testing, outcome, boxes, box, checkout, lane, kills, faults>>

CallBackend(w) ==
    /\ pc[w] = "loop"
    /\ ~BoundReached(w)
    /\ \E cost \in Costs, calls \in 0..MaxCalls, turn \in {0, 1} :
          /\ turn = 0 => calls = 0   \* an error
          /\ job' = [job EXCEPT ![w].tokens = @ + cost, ![w].turns = @ + turn, ![w].calls = calls]
          /\ IF calls = 0 THEN Goto(w, AfterLoop(w)) ELSE Goto(w, "tools")
    /\ UNCHANGED <<sitting, testing, outcome, boxes, box, checkout, lane, kills, faults>>

AfterCall(w) ==
    /\ job' = [job EXCEPT ![w].calls = @ - 1]
    /\ Goto(w, IF job[w].calls = 1 THEN "loop" ELSE "tools")

\* A file tool; run_tests, where there are no tests, refuses.
FileTool(w) ==
    /\ pc[w] = "tools"
    /\ ~testing[w]
    /\ \E sorts \in SUBSET Dirt : Cardinality(sorts) <= 1 /\ Writes(w, sorts)
    /\ AfterCall(w)
    /\ UNCHANGED <<sitting, testing, outcome, boxes, box, tip, home, lease, lane, kills, faults>>

RunTestsTool(w) ==
    /\ pc[w] = "tools"
    /\ TestsEnd(w)
    /\ AfterCall(w)
    /\ UNCHANGED <<sitting, outcome, box, tip, home, lease, lane, kills, faults>>

FinalScores(w) ==
    IF job[w].named THEN {ScoreFailToPass(job[w].baseline, final) : final \in Passes}
                    ELSE {CoarseScore(exit0) : exit0 \in BOOLEAN}

GradeFinal(w) ==
    /\ pc[w] = "final"
    /\ TestsEnd(w)
    /\ \/ \E score \in FinalScores(w) :
            IF kind[w] = "v1"
            THEN Return(w, [passed |-> PassedV1(score), lane |-> None])
            ELSE /\ job' = [job EXCEPT ![w].green = AllRanPassed(score)]
                 /\ Goto(w, "lane")
                 /\ UNCHANGED outcome
       \/ Return(w, Failed)
    /\ UNCHANGED <<sitting, box, tip, home, lease, lane, kills, faults>>

\* judgeGradedOutcome: the diff needs a working tree git knows; then a verdict.
HasGit(b) == boxes[b].dir /\ boxes[b].reg /\ boxes[b].git

GradeDiff(w) ==
    /\ pc[w] = "judge"
    /\ \E agree \in BOOLEAN : Return(w, [passed |-> agree /\ HasGit(box[w]), lane |-> None])
    /\ UNCHANGED <<sitting, testing, boxes, box, checkout, lane, kills, faults>>

-----------------------------------------------------------------------------
(***************************************************************************)
(* LaneRunner. A lane already running, a leftover or another sitting's, is *)
(* waited for as if it were ours. A task without a lane has no tests that  *)
(* could pass.                                                             *)
(***************************************************************************)
StartLane(w) ==
    /\ pc[w] = "lane"
    /\ \/ /\ lane' = TRUE
          /\ Goto(w, "poll")
          /\ UNCHANGED <<job, outcome>>
       \/ Return(w, Failed) /\ UNCHANGED lane
    /\ UNCHANGED <<sitting, testing, boxes, box, checkout, kills, faults>>

LaneEnds ==
    /\ lane
    /\ lane' = FALSE
    /\ UNCHANGED <<sitting, pc, job, testing, outcome, sandboxes, checkout, kills, faults>>

\* A request to the status API, the start of the lane or a poll, that is never
\* answered: the client has no timeout, nor has the context, and the deadline
\* is looked at between two polls. Only a kill ends this task.
LaneHangs(w) ==
    /\ pc[w] \in {"lane", "poll"}
    /\ Goto(w, "hung")
    /\ IF pc[w] = "lane" THEN lane' \in {lane, TRUE} ELSE UNCHANGED lane
    /\ UNCHANGED <<sitting, job, testing, outcome, sandboxes, checkout, kills, faults>>

\* Mutant: no deadline.
PollLane_WaitsForever(w) ==
    /\ pc[w] = "poll"
    /\ ~lane
    /\ \E result \in LaneResults :
          Return(w, [passed |-> PassedArena(job[w].green, result, IF job[w].named THEN HeldOut ELSE {}),
                     lane |-> result])
    /\ UNCHANGED <<sitting, testing, boxes, box, checkout, lane, kills, faults>>

\* A terminal status, or an error or a timeout that fails the task.
PollLane(w) ==
    /\ pc[w] = "poll"
    /\ \/ /\ ~lane
          /\ \E result \in LaneResults :
                Return(w, [passed |-> PassedArena(job[w].green, result, IF job[w].named THEN HeldOut ELSE {}),
                           lane |-> result])
       \/ Return(w, Failed)
    /\ UNCHANGED <<sitting, testing, boxes, box, checkout, lane, kills, faults>>

-----------------------------------------------------------------------------
(***************************************************************************)
(* Teardown. The arena's is three commands, and what a failure skips is    *)
(* nobody's concern: the error is dropped.                                 *)
(***************************************************************************)
RemoveSandbox(w) ==
    /\ pc[w] = "teardown"
    /\ boxes' = Removed(box[w])
    /\ box' = [box EXCEPT ![w] = None]
    /\ Goto(w, "prune")
    /\ UNCHANGED <<sitting, job, testing, outcome, checkout, lane, kills, faults>>

PruneSandbox(w) ==
    /\ pc[w] = "prune"
    /\ boxes' = Pruned
    /\ Over(w)
    /\ UNCHANGED <<sitting, testing, box, arena, tip, home, lane, kills, faults>>

\* git reset --hard takes along the branch HEAD is on, if it is on one.
ResetHome(w) ==
    /\ pc[w] = "reset"
    /\ arena' = [Without("tracked") EXCEPT !.head = lease[w].sha]
    /\ tip' = IF arena.branch THEN lease[w].sha ELSE tip
    /\ Goto(w, "clean")
    /\ UNCHANGED <<sitting, job, testing, outcome, sandboxes, home, lease, lane, kills, faults>>

CleanHome(w) ==
    /\ pc[w] = "clean"
    /\ arena' = Without("untracked")
    /\ Goto(w, "reattach")
    /\ UNCHANGED <<sitting, job, testing, outcome, sandboxes, tip, home, lease, lane, kills, faults>>

\* Mutant: the branch is not checked out again.
Reattach_Skipped(w) ==
    /\ pc[w] = "reattach"
    /\ arena' = [arena EXCEPT !.dirt = LeftBy({w})]
    /\ Over(w)
    /\ UNCHANGED <<sitting, testing, sandboxes, tip, home, lane, kills, faults>>

Reattach(w) ==
    /\ pc[w] = "reattach"
    /\ LET on == IF lease[w].branch THEN [arena EXCEPT !.branch = TRUE, !.head = tip] ELSE arena
       IN  arena' = [on EXCEPT !.dirt = LeftBy({w})]
    /\ Over(w)
    /\ UNCHANGED <<sitting, testing, sandboxes, tip, home, lane, kills, faults>>

TeardownFails(w) ==
    /\ pc[w] \in {"reset", "clean", "reattach"}
    /\ GitFails
    /\ arena' = [arena EXCEPT !.dirt = LeftBy({w})]
    /\ Over(w)
    /\ UNCHANGED <<sitting, testing, sandboxes, tip, home, lane, kills>>

-----------------------------------------------------------------------------
Lease(w) ==
    CheckStatus(w) \/ HealReset(w) \/ HealClean(w) \/ RecordHead(w) \/ CheckoutTask(w) \/ LeaseFails(w)
Sandbox(w) == CreateSandbox(w) \/ CreateFails(w) \/ Prep(w)
Grade(w) ==
    \/ ApplyHeldOut(w) \/ StartTests(w) \/ GradeBaseline(w) \/ GradeFinal(w) \/ GradeDiff(w)
    \/ StartLane(w) \/ PollLane(w)
Loop(w) == StopLoop(w) \/ CallBackend(w) \/ FileTool(w) \/ RunTestsTool(w)
Teardown(w) ==
    \/ RemoveSandbox(w) \/ PruneSandbox(w)
    \/ ResetHome(w) \/ CleanHome(w) \/ Reattach(w) \/ TeardownFails(w)

TaskStep(w) == Lease(w) \/ Sandbox(w) \/ Grade(w) \/ Loop(w) \/ Teardown(w)
SittingStep(p) == StartSitting(p) \/ (\E b \in Boxes : SweepBox(p, b)) \/ SweepEnds(p) \/ EndSitting(p)

Next ==
    \/ \E w \in Workers : StartTask(w) \/ TaskStep(w) \/ LaneHangs(w)
    \/ \E p \in Processes : SittingStep(p) \/ Kill(p)
    \/ Tick
    \/ LaneEnds

Spec == Init /\ [][Next]_vars

\* A worker goes on with its task: calls to a backend and test commands have a
\* timeout, git commands are assumed to end, and a request to the status API is
\* answered unless it hangs (LaneHangs, which no fairness asks for). A sitting
\* sweeps, gives its workers their tasks and ends; that another follows is
\* assumed of whoever runs eval-agentic, which no unit starts. Time does not
\* stop.
FairSpec ==
    /\ Spec
    /\ \A w \in Workers : WF_vars(StartTask(w) \/ TaskStep(w))
    /\ \A p \in Processes : WF_vars(SittingStep(p))
    /\ SF_vars(Tick)

-----------------------------------------------------------------------------
(***************************************************************************)
(* Properties.                                                             *)
(***************************************************************************)
Phases ==
    {"idle", "status", "heal", "healclean", "record", "checkout", "create", "prep", "held", "baseline",
     "loop", "tools", "final", "judge", "lane", "poll", "hung",
     "teardown", "prune", "reset", "clean", "reattach"}
Jobs == [commit : Commits, rooted : BOOLEAN, named : BOOLEAN, turns : Nat, tokens : Nat, calls : Nat,
         baseline : SUBSET Others, green : BOOLEAN]
Outcomes == [passed : BOOLEAN, lane : LaneResults \cup {None}] \cup {None}
BoxStates == [dir : BOOLEAN, reg : BOOLEAN, git : BOOLEAN, age : 0..SweepAge]
Checkouts == [branch : BOOLEAN, head : Commits, dirt : SUBSET ((Workers \cup {None}) \X Dirt)]

SittingTypes ==
    /\ kind \in Casts
    /\ proc \in [Processes -> {"down", "sweeping", "up"}]
    /\ stale \in [Processes -> SUBSET Boxes]
    /\ todo \in [Workers -> 0..TasksPerSitting]
TaskTypes ==
    /\ pc \in [Workers -> Phases]
    /\ job \in [Workers -> Jobs]
    /\ testing \in [Workers -> BOOLEAN]
    /\ outcome \in [Workers -> Outcomes]
SandboxTypes ==
    /\ boxes \in [Boxes -> BoxStates]
    /\ box \in [Workers -> Boxes \cup {None}]
CheckoutTypes ==
    /\ arena \in Checkouts /\ home \in Checkouts /\ tip \in Commits
    /\ lease \in [Workers -> [branch : BOOLEAN, sha : Commits]]
TypeOK ==
    /\ SittingTypes /\ TaskTypes /\ SandboxTypes /\ CheckoutTypes
    /\ lane \in BOOLEAN /\ kills \in 0..MaxKills /\ faults \in 0..MaxFaults

\* The arena pool is serial, and one sitting at a time uses the arena.
OneArena == \A v, w \in Workers : kind[v] = "arena" /\ kind[w] = "arena" => v = w

Leased == {"held", "baseline", "loop", "tools", "final", "lane", "poll", "hung"}

\* SAFETY: "a killed sitting cannot poison the next one" (arena.go:200): from
\* the held-out tests to the lane a task works on its own commit and its own
\* changes, whatever was killed and whichever command of whichever teardown
\* failed before.
LeaseIsClean ==
    OneArena => \A w \in Workers : kind[w] = "arena" /\ pc[w] \in Leased =>
        /\ ~arena.branch
        /\ arena.head = job[w].commit
        /\ \A d \in arena.dirt : d[1] = w

\* SAFETY: no task, no kill and no failed command moves the branch of the
\* arena (Teardown's git reset --hard would, with HEAD still on it).
BranchStays == OneArena => tip = Tip

\* SAFETY: whatever was killed or failed before, a lease starts clean and the
\* branch stays.
ArenaKept == LeaseIsClean /\ BranchStays

\* SAFETY: without kills and failing commands the arena is, between leases,
\* where it was first: on its branch, or detached where it was, and clean.
ArenaComesHome ==
    OneArena /\ kills = 0 /\ faults = 0
        /\ (\A w \in Workers : kind[w] = "arena" => pc[w] \notin Leased \cup {"reset", "clean", "reattach"})
    => /\ arena.branch = home.branch
       /\ arena.head = home.head
       /\ ~Dirty

\* SAFETY: a sweep removes by age and a prune by what it finds on the disk, in
\* a process that knows nothing of the others; neither takes from a task under
\* way its directory, nor from a judged one the git its diff needs.
LiveSandboxIntact ==
    \A w \in Workers : Needs(w) =>
        /\ boxes[box[w]].dir
        /\ kind[w] = "judge" => HasGit(box[w])

\* SAFETY: what RunPools assumes of a task's cost: a loop takes MaxTurns turns
\* at most, and overruns MaxTaskTokens by one call at most, failed ones included.
LoopBounded ==
    \A w \in Workers :
        /\ job[w].turns <= MaxTurns
        /\ MaxTaskTokens > 0 => \A most \in Costs :
              (\A c \in Costs : c <= most) => job[w].tokens < MaxTaskTokens + most

\* LIVENESS: a task that was started returns, or its process is killed, or a
\* request to the status API is never answered. A lane that never ends does
\* not hold the task as long as its polls are answered: that much, and no more,
\* the deadline of LaneRunner.Run gives.
TaskEnds == \A w \in Workers : pc[w] # "idle" ~> pc[w] \in {"idle", "hung"}

\* No sitting of this process ends by itself.
Hung(p) == \E w \in WorkersOf(p) : pc[w] = "hung"

\* LIVENESS: a sandbox whose process was killed is removed by a later sitting,
\* as long as someone starts sittings and not every process hangs.
LeftoversSwept ==
    \A b \in Boxes : (boxes[b].dir /\ \A w \in Workers : box[w] # b)
                      ~> (~boxes[b].dir \/ \A p \in Processes : Hung(p))

\* DESIGN.md:811: "Held-out tests must go fail to pass, with no new failures in
\* the lane". A task that passed waited for a lane that succeeded, or that
\* failed in held-out tests only.
PassedLaneGreen ==
    \A w \in Workers : kind[w] = "arena" /\ outcome[w] # None =>
        (outcome[w].passed => LET seen == outcome[w].lane
                              IN  seen.success \/ (seen.names # {} /\ seen.names \subseteq HeldOut))
=============================================================================
