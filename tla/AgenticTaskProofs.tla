------------------------- MODULE AgenticTaskProofs -------------------------
(***************************************************************************)
(* What the steps of agentic tasks and sittings keep: bounded loops,       *)
(* sandboxes that no sweep and no prune takes from a task, a lease of the  *)
(* arena that starts clean whatever came before.                           *)
(***************************************************************************)
EXTENDS AgenticTask, TLAPS

USE DEF vars, sitting, sandboxes, checkout

-----------------------------------------------------------------------------
(***************************************************************************)
(* Types. A worker among its tool calls has one left, which keeps the      *)
(* count a natural number.                                                 *)
(***************************************************************************)
\* A worker among its tool calls has a call left.
CallsLeft == \A w \in Workers : pc[w] = "tools" => job[w].calls > 0
TypeInv == TypeOK /\ CallsLeft

\* The bounds are natural numbers.
LEMMA Bounds ==
    SweepAge \in Nat /\ MaxKills \in Nat /\ MaxFaults \in Nat /\ TasksPerSitting \in Nat
BY TaskAssumption

\* A name no sandbox has is a box.
LEMMA NoBoxTyped == NoBox \in BoxStates
BY Bounds DEF NoBox, BoxStates

\* Removing a worktree (sandbox.go, Teardown and Sweep) leaves boxes.
LEMMA RemovedTyped ==
    ASSUME SandboxTypes, NEW b PROVE Removed(b) \in [Boxes -> BoxStates]
<1> DEFINE known == boxes[b].reg /\ ~boxes[b].git
<1>1. known \in BOOLEAN
  OBVIOUS
<1>2. ASSUME NEW reg \in BOOLEAN PROVE [NoBox EXCEPT !.reg = reg] \in BoxStates
  BY NoBoxTyped DEF BoxStates
<1>3. Removed(b) = [boxes EXCEPT ![b] = [NoBox EXCEPT !.reg = known]]
  BY DEF Removed
<1> HIDE DEF known
<1> QED BY <1>1, <1>2, <1>3 DEF SandboxTypes

\* git worktree prune leaves boxes.
LEMMA PrunedTyped == SandboxTypes => Pruned \in [Boxes -> BoxStates]
<1> SUFFICES ASSUME SandboxTypes, NEW b \in Boxes
             PROVE  [boxes[b] EXCEPT !.reg = @ /\ boxes[b].dir /\ boxes[b].git] \in BoxStates
  BY DEF Pruned
<1> DEFINE known == boxes[b].reg /\ boxes[b].dir /\ boxes[b].git
<1>1. known \in BOOLEAN
  OBVIOUS
<1>2. ASSUME NEW reg \in BOOLEAN PROVE [boxes[b] EXCEPT !.reg = reg] \in BoxStates
  <2>1. boxes[b] \in BoxStates
    BY DEF SandboxTypes
  <2> QED BY <2>1 DEF BoxStates
<1>3. [boxes[b] EXCEPT !.reg = @ /\ boxes[b].dir /\ boxes[b].git] = [boxes[b] EXCEPT !.reg = known]
  OBVIOUS
<1> HIDE DEF known
<1> QED BY <1>1, <1>2, <1>3

\* Parking .git or putting it back (sandbox.go, parkGit) leaves boxes.
LEMMA ParkedTyped ==
    ASSUME SandboxTypes, NEW b, NEW git \in BOOLEAN
    PROVE  [boxes EXCEPT ![b].git = git] \in [Boxes -> BoxStates]
<1>1. ASSUME b \in Boxes PROVE [boxes[b] EXCEPT !.git = git] \in BoxStates
  <2>1. boxes[b] \in BoxStates
    BY <1>1 DEF SandboxTypes
  <2> QED BY <2>1 DEF BoxStates
<1> QED BY <1>1 DEF SandboxTypes

\* An idle worker's job is a job.
LEMMA NoJobTyped == NoJob \in Jobs
BY TaskAssumption DEF NoJob, Jobs

\* A task that starts has a job.
LEMMA NewJobTyped ==
    ASSUME NEW c \in Commits, NEW rooted \in BOOLEAN, NEW named \in BOOLEAN
    PROVE  [NoJob EXCEPT !.commit = c, !.rooted = rooted, !.named = named] \in Jobs
BY NoJobTyped DEF NoJob, Jobs

\* What a job counts is a natural number.
LEMMA JobFields ==
    ASSUME TaskTypes, NEW w \in Workers
    PROVE  /\ job[w].commit \in Commits
           /\ job[w].tokens \in Nat /\ job[w].turns \in Nat /\ job[w].calls \in Nat
BY DEF TaskTypes, Jobs

\* An answer of the backend (loop.go, RunLoop) leaves jobs.
LEMMA CountedTyped ==
    ASSUME TaskTypes, NEW w \in Workers, NEW tokens \in Nat, NEW turns \in Nat, NEW calls \in Nat
    PROVE  [job EXCEPT ![w].tokens = tokens, ![w].turns = turns, ![w].calls = calls] \in [Workers -> Jobs]
<1>1. [job[w] EXCEPT !.tokens = tokens, !.turns = turns, !.calls = calls] \in Jobs
  BY DEF TaskTypes, Jobs
<1> QED BY <1>1 DEF TaskTypes

\* A tool call that is done (loop.go, RunLoop) leaves jobs.
LEMMA CallTyped ==
    ASSUME TaskTypes, NEW w \in Workers, job[w].calls > 0
    PROVE  [job EXCEPT ![w].calls = @ - 1] \in [Workers -> Jobs]
<1>1. [job[w] EXCEPT !.calls = @ - 1] \in Jobs
  BY JobFields DEF TaskTypes, Jobs
<1> QED BY <1>1 DEF TaskTypes

\* A graded task has an outcome.
LEMMA OutcomeTyped ==
    ASSUME NEW passed \in BOOLEAN, NEW seen \in LaneResults \cup {None}
    PROVE  [passed |-> passed, lane |-> seen] \in Outcomes
BY DEF Outcomes

\* A task that fails has an outcome.
LEMMA FailedTyped == Failed \in Outcomes
BY DEF Failed, Outcomes

\* The lease of no one is a lease.
LEMMA NoLeaseTyped == NoLease \in [branch : BOOLEAN, sha : Commits]
BY TaskAssumption DEF NoLease

\* Disowned changes are changes.
LEMMA LeftByTyped ==
    ASSUME arena \in Checkouts, NEW ws \in SUBSET Workers
    PROVE  [arena EXCEPT !.dirt = LeftBy(ws)] \in Checkouts
BY DEF LeftBy, Checkouts

\* A request that is never answered moves nothing but the worker (and may have
\* started the lane).
LEMMA HangMoves ==
    ASSUME TypeInv, NEW w \in Workers, LaneHangs(w)
    PROVE  /\ pc[w] \in {"lane", "poll"} /\ pc'[w] = "hung"
           /\ pc' \in [Workers -> Phases]
           /\ \A v \in Workers \ {w} : pc'[v] = pc[v]
           /\ UNCHANGED <<kind, proc, stale, todo, job, testing, outcome, boxes, box>>
           /\ UNCHANGED <<arena, tip, home, lease, kills, faults>>
           /\ lane' \in BOOLEAN
BY DEF LaneHangs, Goto, Phases, TypeInv, TypeOK, TaskTypes, sitting, sandboxes, checkout

\* Each step of Next keeps the types, a worker among tool calls having one left.
LEMMA ActionTyped == TypeInv /\ [Next]_vars => TypeOK'
<1> USE TaskAssumption DEF Boxes
<1>1. ASSUME TypeInv, NEW p \in Processes, StartSitting(p) PROVE TypeOK'
  <2>1. proc' \in [Processes -> {"down", "sweeping", "up"}]
    BY <1>1 DEF StartSitting, TypeInv, TypeOK, SittingTypes
  <2>2. stale' \in [Processes -> SUBSET Boxes]
    BY <1>1 DEF StartSitting, TypeInv, TypeOK, SittingTypes
  <2> QED BY <1>1, <2>1, <2>2
             DEF StartSitting, TypeInv, TypeOK, SittingTypes, TaskTypes, SandboxTypes,
                 CheckoutTypes
<1>2. ASSUME TypeInv, NEW p \in Processes, NEW b \in Boxes, SweepBox(p, b) PROVE TypeOK'
  <2>1. boxes' \in [Boxes -> BoxStates]
    BY <1>2, RemovedTyped DEF SweepBox, TypeInv, TypeOK, SandboxTypes
  <2>2. stale' \in [Processes -> SUBSET Boxes]
    BY <1>2 DEF SweepBox, TypeInv, TypeOK, SittingTypes
  <2> QED BY <1>2, <2>1, <2>2
             DEF SweepBox, TypeInv, TypeOK, SittingTypes, TaskTypes, SandboxTypes, CheckoutTypes
<1>3. ASSUME TypeInv, NEW p \in Processes, SweepEnds(p) PROVE TypeOK'
  <2>1. boxes' \in [Boxes -> BoxStates]
    BY <1>3, PrunedTyped DEF SweepEnds, TypeInv, TypeOK, SandboxTypes
  <2>2. proc' \in [Processes -> {"down", "sweeping", "up"}]
    BY <1>3 DEF SweepEnds, TypeInv, TypeOK, SittingTypes
  <2>3. todo' \in [Workers -> 0..TasksPerSitting]
    BY <1>3 DEF SweepEnds, WorkersOf, TypeInv, TypeOK, SittingTypes
  <2> QED BY <1>3, <2>1, <2>2, <2>3
             DEF SweepEnds, TypeInv, TypeOK, SittingTypes, TaskTypes, SandboxTypes, CheckoutTypes
<1>4. ASSUME TypeInv, NEW p \in Processes, EndSitting(p) PROVE TypeOK'
  <2>1. proc' \in [Processes -> {"down", "sweeping", "up"}]
    BY <1>4 DEF EndSitting, TypeInv, TypeOK, SittingTypes
  <2> QED BY <1>4, <2>1
             DEF EndSitting, TypeInv, TypeOK, SittingTypes, TaskTypes, SandboxTypes, CheckoutTypes
<1>5. ASSUME TypeInv, NEW p \in Processes, Kill(p) PROVE TypeOK'
  <2>1. SittingTypes'
    BY <1>5, Bounds DEF Kill, WorkersOf, TypeInv, TypeOK, SittingTypes
  <2>2. TaskTypes'
    BY <1>5, NoJobTyped DEF Kill, WorkersOf, TypeInv, TypeOK, TaskTypes, Phases, Outcomes
  <2>3. SandboxTypes'
    BY <1>5 DEF Kill, WorkersOf, TypeInv, TypeOK, SandboxTypes
  <2>4. arena' \in Checkouts
    <3>1. arena \in Checkouts /\ WorkersOf(p) \in SUBSET Workers
      BY <1>5 DEF TypeInv, TypeOK, CheckoutTypes, WorkersOf
    <3>2. arena' = [arena EXCEPT !.dirt = LeftBy(WorkersOf(p))]
      BY <1>5 DEF Kill
    <3> QED BY <3>1, <3>2, LeftByTyped
  <2>5. CheckoutTypes'
    BY <1>5, <2>4, NoLeaseTyped DEF Kill, WorkersOf, TypeInv, TypeOK, CheckoutTypes
  <2>6. kills' \in 0..MaxKills
    BY <1>5, Bounds DEF Kill, TypeInv, TypeOK
  <2> QED BY <1>5, <2>1, <2>2, <2>3, <2>5, <2>6 DEF Kill, TypeInv, TypeOK
<1>6. ASSUME TypeInv, Tick PROVE TypeOK'
  <2>1. ASSUME NEW b \in Boxes, boxes[b].age < SweepAge PROVE [boxes[b] EXCEPT !.age = @ + 1] \in BoxStates
    <3>1. boxes[b] \in BoxStates
      BY <1>6 DEF TypeInv, TypeOK, SandboxTypes
    <3> QED BY <2>1, <3>1, Bounds DEF BoxStates
  <2>2. boxes' \in [Boxes -> BoxStates]
    BY <1>6, <2>1 DEF Tick, TypeInv, TypeOK, SandboxTypes
  <2> QED BY <1>6, <2>2
             DEF Tick, TypeInv, TypeOK, SittingTypes, TaskTypes, SandboxTypes, CheckoutTypes
<1>7. ASSUME TypeInv, LaneEnds PROVE TypeOK'
  <2> QED BY <1>7
             DEF LaneEnds, TypeInv, TypeOK, SittingTypes, TaskTypes, SandboxTypes, CheckoutTypes
<1>8. ASSUME TypeInv, NEW w \in Workers, StartTask(w) PROVE TypeOK'
  <2>1. todo' \in [Workers -> 0..TasksPerSitting]
    BY <1>8 DEF StartTask, TypeInv, TypeOK, SittingTypes
  <2>2. job' \in [Workers -> Jobs]
    <3>1. PICK c \in Commits, rooted, named \in BOOLEAN :
             job' = [job EXCEPT ![w] = [NoJob EXCEPT !.commit = c, !.rooted = rooted, !.named = named]]
      BY <1>8 DEF StartTask
    <3>2. [NoJob EXCEPT !.commit = c, !.rooted = rooted, !.named = named] \in Jobs
      BY NewJobTyped
    <3> QED BY <1>8, <3>1, <3>2 DEF TypeInv, TypeOK, TaskTypes
  <2>3. pc' \in [Workers -> Phases]
    BY <1>8 DEF StartTask, Goto, Phases, TypeInv, TypeOK, TaskTypes
  <2> QED BY <1>8, <2>1, <2>2, <2>3
             DEF StartTask, TypeInv, TypeOK, SittingTypes, TaskTypes, SandboxTypes, CheckoutTypes
<1>9. ASSUME TypeInv, NEW w \in Workers, CheckStatus(w) PROVE TypeOK'
  <2>1. pc' \in [Workers -> Phases]
    BY <1>9 DEF CheckStatus, Goto, Phases, TypeInv, TypeOK, TaskTypes
  <2> QED BY <1>9, <2>1
             DEF CheckStatus, TypeInv, TypeOK, SittingTypes, TaskTypes, SandboxTypes,
                 CheckoutTypes
<1>10. ASSUME TypeInv, NEW w \in Workers, HealReset(w) PROVE TypeOK'
  <2>1. arena' \in Checkouts
    BY <1>10 DEF HealReset, Without, Checkouts, TypeInv, TypeOK, CheckoutTypes
  <2>2. pc' \in [Workers -> Phases]
    BY <1>10 DEF HealReset, Goto, Phases, TypeInv, TypeOK, TaskTypes
  <2> QED BY <1>10, <2>1, <2>2
             DEF HealReset, TypeInv, TypeOK, SittingTypes, TaskTypes, SandboxTypes, CheckoutTypes
<1>11. ASSUME TypeInv, NEW w \in Workers, HealClean(w) PROVE TypeOK'
  <2>1. arena' \in Checkouts
    BY <1>11 DEF HealClean, Without, Checkouts, TypeInv, TypeOK, CheckoutTypes
  <2>2. pc' \in [Workers -> Phases]
    BY <1>11 DEF HealClean, Goto, Phases, TypeInv, TypeOK, TaskTypes
  <2> QED BY <1>11, <2>1, <2>2
             DEF HealClean, TypeInv, TypeOK, SittingTypes, TaskTypes, SandboxTypes, CheckoutTypes
<1>12. ASSUME TypeInv, NEW w \in Workers, RecordHead(w) PROVE TypeOK'
  <2>1. lease' \in [Workers -> [branch : BOOLEAN, sha : Commits]]
    BY <1>12 DEF RecordHead, Checkouts, TypeInv, TypeOK, CheckoutTypes
  <2>2. pc' \in [Workers -> Phases]
    BY <1>12 DEF RecordHead, Goto, Phases, TypeInv, TypeOK, TaskTypes
  <2> QED BY <1>12, <2>1, <2>2
             DEF RecordHead, TypeInv, TypeOK, SittingTypes, TaskTypes, SandboxTypes, CheckoutTypes
<1>13. ASSUME TypeInv, NEW w \in Workers, CheckoutTask(w) PROVE TypeOK'
  <2>1. arena' \in Checkouts
    BY <1>13, JobFields DEF CheckoutTask, Checkouts, TaskTypes, TypeInv, TypeOK, CheckoutTypes
  <2>2. pc' \in [Workers -> Phases]
    BY <1>13 DEF CheckoutTask, Goto, Phases, TypeInv, TypeOK, TaskTypes
  <2> QED BY <1>13, <2>1, <2>2
             DEF CheckoutTask, TypeInv, TypeOK, SittingTypes, TaskTypes, SandboxTypes,
                 CheckoutTypes
<1>14. ASSUME TypeInv, NEW w \in Workers, LeaseFails(w) PROVE TypeOK'
  <2>1. pc' \in [Workers -> Phases]
    BY <1>14 DEF LeaseFails, Over, Goto, Phases, TypeInv, TypeOK, TaskTypes
  <2>2. job' \in [Workers -> Jobs]
    BY <1>14, NoJobTyped DEF LeaseFails, GitFails, Over, Goto, TypeInv, TypeOK, TaskTypes
  <2>3. outcome' \in [Workers -> Outcomes]
    BY <1>14 DEF LeaseFails, Over, Outcomes, TypeInv, TypeOK, TaskTypes
  <2>4. lease' \in [Workers -> [branch : BOOLEAN, sha : Commits]]
    BY <1>14, NoLeaseTyped DEF LeaseFails, GitFails, Over, Goto, TypeInv, TypeOK, CheckoutTypes
  <2> QED BY <1>14, <2>1, <2>2, <2>3, <2>4, Bounds
             DEF LeaseFails, GitFails, TypeInv, TypeOK, SittingTypes, TaskTypes, SandboxTypes,
                 CheckoutTypes
<1>15. ASSUME TypeInv, NEW w \in Workers, CreateSandbox(w) PROVE TypeOK'
  <2>1. boxes' \in [Boxes -> BoxStates]
    <3>1. PICK b \in Boxes : boxes' = [boxes EXCEPT ![b] = [NoBox EXCEPT !.dir = TRUE, !.reg = TRUE]]
      BY <1>15 DEF CreateSandbox
    <3>2. [NoBox EXCEPT !.dir = TRUE, !.reg = TRUE] \in BoxStates
      BY NoBoxTyped DEF BoxStates
    <3> QED BY <1>15, <3>1, <3>2 DEF TypeInv, TypeOK, SandboxTypes
  <2>2. box' \in [Workers -> Boxes \cup {None}]
    BY <1>15 DEF CreateSandbox, TypeInv, TypeOK, SandboxTypes
  <2>3. pc' \in [Workers -> Phases]
    BY <1>15 DEF CreateSandbox, Goto, Phases, TypeInv, TypeOK, TaskTypes
  <2> QED BY <1>15, <2>1, <2>2, <2>3
             DEF CreateSandbox, TypeInv, TypeOK, SittingTypes, TaskTypes, SandboxTypes,
                 CheckoutTypes
<1>16. ASSUME TypeInv, NEW w \in Workers, CreateFails(w) PROVE TypeOK'
  <2>1. pc' \in [Workers -> Phases]
    BY <1>16 DEF CreateFails, Over, Goto, Phases, TypeInv, TypeOK, TaskTypes
  <2>2. job' \in [Workers -> Jobs]
    BY <1>16, NoJobTyped DEF CreateFails, Over, TypeInv, TypeOK, TaskTypes
  <2>3. outcome' \in [Workers -> Outcomes]
    BY <1>16 DEF CreateFails, Over, Outcomes, TypeInv, TypeOK, TaskTypes
  <2>4. lease' \in [Workers -> [branch : BOOLEAN, sha : Commits]]
    BY <1>16, NoLeaseTyped DEF CreateFails, Over, TypeInv, TypeOK, CheckoutTypes
  <2> QED BY <1>16, <2>1, <2>2, <2>3, <2>4
             DEF CreateFails, TypeInv, TypeOK, SittingTypes, TaskTypes, SandboxTypes,
                 CheckoutTypes
<1>17. ASSUME TypeInv, NEW w \in Workers, Prep(w) PROVE TypeOK'
  <2>1. pc' \in [Workers -> Phases]
    BY <1>17 DEF Prep, Return, Goto, Phases, TypeInv, TypeOK, TaskTypes
  <2>2. job' \in [Workers -> Jobs]
    BY <1>17, NoJobTyped DEF Prep, Return, TypeInv, TypeOK, TaskTypes
  <2>3. outcome' \in [Workers -> Outcomes]
    BY <1>17, FailedTyped DEF Prep, Return, TypeInv, TypeOK, TaskTypes
  <2> QED BY <1>17, <2>1, <2>2, <2>3
             DEF Prep, TypeInv, TypeOK, SittingTypes, TaskTypes, SandboxTypes, CheckoutTypes
<1>18. ASSUME TypeInv, NEW w \in Workers, ApplyHeldOut(w) PROVE TypeOK'
  <2>1. arena' \in Checkouts
    BY <1>18 DEF ApplyHeldOut, Writes, Checkouts, Dirt, TypeInv, TypeOK, CheckoutTypes
  <2>2. pc' \in [Workers -> Phases]
    BY <1>18 DEF ApplyHeldOut, Return, Goto, Phases, TypeInv, TypeOK, TaskTypes
  <2>3. job' \in [Workers -> Jobs]
    BY <1>18, NoJobTyped DEF ApplyHeldOut, Return, TypeInv, TypeOK, TaskTypes
  <2>4. outcome' \in [Workers -> Outcomes]
    BY <1>18, FailedTyped DEF ApplyHeldOut, Return, TypeInv, TypeOK, TaskTypes
  <2> QED BY <1>18, <2>1, <2>2, <2>3, <2>4
             DEF ApplyHeldOut, TypeInv, TypeOK, SittingTypes, TaskTypes, SandboxTypes,
                 CheckoutTypes
<1>19. ASSUME TypeInv, NEW w \in Workers, StartTests(w) PROVE TypeOK'
  <2>1. testing' \in [Workers -> BOOLEAN]
    BY <1>19 DEF StartTests, TypeInv, TypeOK, TaskTypes
  <2>2. boxes' \in [Boxes -> BoxStates]
    BY <1>19, ParkedTyped DEF StartTests, TypeInv, TypeOK, SandboxTypes
  <2> QED BY <1>19, <2>1, <2>2
             DEF StartTests, TypeInv, TypeOK, SittingTypes, TaskTypes, SandboxTypes, CheckoutTypes
<1>20. ASSUME TypeInv, NEW w \in Workers, GradeBaseline(w) PROVE TypeOK'
  <2>1. testing' \in [Workers -> BOOLEAN]
    BY <1>20 DEF GradeBaseline, TestsEnd, TypeInv, TypeOK, TaskTypes
  <2>2. boxes' \in [Boxes -> BoxStates]
    BY <1>20, ParkedTyped DEF GradeBaseline, TestsEnd, TypeInv, TypeOK, SandboxTypes
  <2>3. arena' \in Checkouts
    BY <1>20 DEF GradeBaseline, TestsEnd, Writes, Checkouts, Dirt, TypeInv, TypeOK, CheckoutTypes
  <2>4. pc' \in [Workers -> Phases]
    BY <1>20 DEF GradeBaseline, Return, Goto, Phases, TypeInv, TypeOK, TaskTypes
  <2>5. job' \in [Workers -> Jobs]
    BY <1>20, NoJobTyped DEF GradeBaseline, Return, Jobs, TypeInv, TypeOK, TaskTypes
  <2>6. outcome' \in [Workers -> Outcomes]
    BY <1>20, FailedTyped DEF GradeBaseline, Return, TypeInv, TypeOK, TaskTypes
  <2> QED BY <1>20, <2>1, <2>2, <2>3, <2>4, <2>5, <2>6
             DEF GradeBaseline, TypeInv, TypeOK, SittingTypes, TaskTypes, SandboxTypes,
                 CheckoutTypes
<1>21. ASSUME TypeInv, NEW w \in Workers, StopLoop(w) PROVE TypeOK'
  <2>1. pc' \in [Workers -> Phases]
    BY <1>21 DEF StopLoop, Goto, AfterLoop, Phases, TypeInv, TypeOK, TaskTypes
  <2> QED BY <1>21, <2>1
             DEF StopLoop, TypeInv, TypeOK, SittingTypes, TaskTypes, SandboxTypes, CheckoutTypes
<1>22. ASSUME TypeInv, NEW w \in Workers, CallBackend(w) PROVE TypeOK'
  <2>1. pc' \in [Workers -> Phases]
    BY <1>22 DEF CallBackend, Goto, AfterLoop, Phases, TypeInv, TypeOK, TaskTypes
  <2>2. job' \in [Workers -> Jobs]
    <3>1. PICK cost \in Costs, calls \in 0..MaxCalls, turn \in {0, 1} :
             job' = [job EXCEPT ![w].tokens = @ + cost, ![w].turns = @ + turn, ![w].calls = calls]
      BY <1>22 DEF CallBackend
    <3>2. TaskTypes /\ cost \in Nat /\ calls \in Nat /\ turn \in Nat
      BY <1>22, MaxCalls \in Nat DEF TypeInv, TypeOK
    <3>3. job[w].tokens + cost \in Nat /\ job[w].turns + turn \in Nat
      BY <3>2, JobFields
    <3>4. [job EXCEPT ![w].tokens = job[w].tokens + cost, ![w].turns = job[w].turns + turn, ![w].calls = calls]
             \in [Workers -> Jobs]
      BY <3>2, <3>3, CountedTyped
    <3> QED BY <3>1, <3>2, <3>4 DEF TaskTypes
  <2> QED BY <1>22, <2>1, <2>2
             DEF CallBackend, TypeInv, TypeOK, SittingTypes, TaskTypes, SandboxTypes,
                 CheckoutTypes
<1>23. ASSUME TypeInv, NEW w \in Workers, FileTool(w) PROVE TypeOK'
  <2>1. arena' \in Checkouts
    BY <1>23 DEF FileTool, Writes, Checkouts, Dirt, TypeInv, TypeOK, CheckoutTypes
  <2>2. pc' \in [Workers -> Phases]
    BY <1>23 DEF FileTool, AfterCall, Goto, Phases, TypeInv, TypeOK, TaskTypes
  <2>3. job' \in [Workers -> Jobs]
    BY <1>23, JobFields, CallTyped DEF FileTool, AfterCall, CallsLeft, TypeInv, TypeOK, TaskTypes
  <2> QED BY <1>23, <2>1, <2>2, <2>3
             DEF FileTool, TypeInv, TypeOK, SittingTypes, TaskTypes, SandboxTypes, CheckoutTypes
<1>24. ASSUME TypeInv, NEW w \in Workers, RunTestsTool(w) PROVE TypeOK'
  <2>1. testing' \in [Workers -> BOOLEAN]
    BY <1>24 DEF RunTestsTool, TestsEnd, TypeInv, TypeOK, TaskTypes
  <2>2. boxes' \in [Boxes -> BoxStates]
    BY <1>24, ParkedTyped DEF RunTestsTool, TestsEnd, TypeInv, TypeOK, SandboxTypes
  <2>3. arena' \in Checkouts
    BY <1>24 DEF RunTestsTool, TestsEnd, Writes, Checkouts, Dirt, TypeInv, TypeOK, CheckoutTypes
  <2>4. pc' \in [Workers -> Phases]
    BY <1>24 DEF RunTestsTool, AfterCall, Goto, Phases, TypeInv, TypeOK, TaskTypes
  <2>5. job' \in [Workers -> Jobs]
    BY <1>24, JobFields, CallTyped
       DEF RunTestsTool, AfterCall, CallsLeft, TypeInv, TypeOK, TaskTypes
  <2> QED BY <1>24, <2>1, <2>2, <2>3, <2>4, <2>5
             DEF RunTestsTool, TypeInv, TypeOK, SittingTypes, TaskTypes, SandboxTypes,
                 CheckoutTypes
<1>25. ASSUME TypeInv, NEW w \in Workers, GradeFinal(w) PROVE TypeOK'
  <2>1. testing' \in [Workers -> BOOLEAN]
    BY <1>25 DEF GradeFinal, TestsEnd, TypeInv, TypeOK, TaskTypes
  <2>2. boxes' \in [Boxes -> BoxStates]
    BY <1>25, ParkedTyped DEF GradeFinal, TestsEnd, TypeInv, TypeOK, SandboxTypes
  <2>3. arena' \in Checkouts
    BY <1>25 DEF GradeFinal, TestsEnd, Writes, Checkouts, Dirt, TypeInv, TypeOK, CheckoutTypes
  <2>4. pc' \in [Workers -> Phases]
    BY <1>25 DEF GradeFinal, Return, Goto, Phases, TypeInv, TypeOK, TaskTypes
  <2>5. job' \in [Workers -> Jobs]
    <3>1. CASE job' = [job EXCEPT ![w] = NoJob]
      BY <3>1, <1>25, NoJobTyped DEF TypeInv, TypeOK, TaskTypes
    <3>2. ASSUME NEW score, job' = [job EXCEPT ![w].green = AllRanPassed(score)]
          PROVE  job' \in [Workers -> Jobs]
      <4>1. AllRanPassed(score) \in BOOLEAN
        BY DEF AllRanPassed
      <4>2. job[w] \in Jobs
        BY <1>25 DEF TypeInv, TypeOK, TaskTypes
      <4>3. [job[w] EXCEPT !.green = AllRanPassed(score)] \in Jobs
        BY <4>1, <4>2 DEF Jobs
      <4> QED BY <1>25, <3>2, <4>3 DEF TypeInv, TypeOK, TaskTypes
    <3> QED BY <1>25, <3>1, <3>2 DEF GradeFinal, Return
  <2>6. outcome' \in [Workers -> Outcomes]
    <3>1. ASSUME NEW score PROVE [passed |-> PassedV1(score), lane |-> None] \in Outcomes
      <4>1. PassedV1(score) \in BOOLEAN
        BY DEF PassedV1
      <4> QED BY <4>1, OutcomeTyped
    <3> QED BY <1>25, <3>1, FailedTyped DEF GradeFinal, Return, TypeInv, TypeOK, TaskTypes
  <2> QED BY <1>25, <2>1, <2>2, <2>3, <2>4, <2>5, <2>6
             DEF GradeFinal, TypeInv, TypeOK, SittingTypes, TaskTypes, SandboxTypes, CheckoutTypes
<1>26. ASSUME TypeInv, NEW w \in Workers, GradeDiff(w) PROVE TypeOK'
  <2>1. pc' \in [Workers -> Phases]
    BY <1>26 DEF GradeDiff, Return, Goto, Phases, TypeInv, TypeOK, TaskTypes
  <2>2. job' \in [Workers -> Jobs]
    BY <1>26, NoJobTyped DEF GradeDiff, Return, TypeInv, TypeOK, TaskTypes
  <2>3. outcome' \in [Workers -> Outcomes]
    BY <1>26 DEF GradeDiff, Return, HasGit, Outcomes, TypeInv, TypeOK, TaskTypes
  <2> QED BY <1>26, <2>1, <2>2, <2>3
             DEF GradeDiff, TypeInv, TypeOK, SittingTypes, TaskTypes, SandboxTypes, CheckoutTypes
<1>27. ASSUME TypeInv, NEW w \in Workers, StartLane(w) PROVE TypeOK'
  <2>1. pc' \in [Workers -> Phases]
    BY <1>27 DEF StartLane, Return, Goto, Phases, TypeInv, TypeOK, TaskTypes
  <2>2. job' \in [Workers -> Jobs]
    BY <1>27, NoJobTyped DEF StartLane, Return, TypeInv, TypeOK, TaskTypes
  <2>3. outcome' \in [Workers -> Outcomes]
    BY <1>27, FailedTyped DEF StartLane, Return, TypeInv, TypeOK, TaskTypes
  <2> QED BY <1>27, <2>1, <2>2, <2>3
             DEF StartLane, TypeInv, TypeOK, SittingTypes, TaskTypes, SandboxTypes, CheckoutTypes
<1>28. ASSUME TypeInv, NEW w \in Workers, PollLane(w) PROVE TypeOK'
  <2>1. pc' \in [Workers -> Phases]
    BY <1>28 DEF PollLane, Return, Goto, Phases, TypeInv, TypeOK, TaskTypes
  <2>2. job' \in [Workers -> Jobs]
    BY <1>28, NoJobTyped DEF PollLane, Return, TypeInv, TypeOK, TaskTypes
  <2>3. outcome' \in [Workers -> Outcomes]
    <3>1. ASSUME NEW result \in LaneResults, NEW names
          PROVE  [passed |-> PassedArena(job[w].green, result, names), lane |-> result] \in Outcomes
      <4>1. PassedArena(job[w].green, result, names) \in BOOLEAN
        BY DEF PassedArena
      <4> QED BY <4>1, OutcomeTyped
    <3> QED BY <1>28, <3>1, FailedTyped DEF PollLane, Return, TypeInv, TypeOK, TaskTypes
  <2> QED BY <1>28, <2>1, <2>2, <2>3
             DEF PollLane, TypeInv, TypeOK, SittingTypes, TaskTypes, SandboxTypes, CheckoutTypes
<1>29. ASSUME TypeInv, NEW w \in Workers, RemoveSandbox(w) PROVE TypeOK'
  <2>1. boxes' \in [Boxes -> BoxStates]
    BY <1>29, RemovedTyped DEF RemoveSandbox, TypeInv, TypeOK, SandboxTypes
  <2>2. box' \in [Workers -> Boxes \cup {None}]
    BY <1>29 DEF RemoveSandbox, TypeInv, TypeOK, SandboxTypes
  <2>3. pc' \in [Workers -> Phases]
    BY <1>29 DEF RemoveSandbox, Goto, Phases, TypeInv, TypeOK, TaskTypes
  <2> QED BY <1>29, <2>1, <2>2, <2>3
             DEF RemoveSandbox, TypeInv, TypeOK, SittingTypes, TaskTypes, SandboxTypes,
                 CheckoutTypes
<1>30. ASSUME TypeInv, NEW w \in Workers, PruneSandbox(w) PROVE TypeOK'
  <2>1. boxes' \in [Boxes -> BoxStates]
    BY <1>30, PrunedTyped DEF PruneSandbox, TypeInv, TypeOK, SandboxTypes
  <2>2. pc' \in [Workers -> Phases]
    BY <1>30 DEF PruneSandbox, Over, Goto, Phases, TypeInv, TypeOK, TaskTypes
  <2>3. job' \in [Workers -> Jobs]
    BY <1>30, NoJobTyped DEF PruneSandbox, Over, TypeInv, TypeOK, TaskTypes
  <2>4. outcome' \in [Workers -> Outcomes]
    BY <1>30 DEF PruneSandbox, Over, Outcomes, TypeInv, TypeOK, TaskTypes
  <2>5. lease' \in [Workers -> [branch : BOOLEAN, sha : Commits]]
    BY <1>30, NoLeaseTyped DEF PruneSandbox, Over, TypeInv, TypeOK, CheckoutTypes
  <2> QED BY <1>30, <2>1, <2>2, <2>3, <2>4, <2>5
             DEF PruneSandbox, TypeInv, TypeOK, SittingTypes, TaskTypes, SandboxTypes,
                 CheckoutTypes
<1>31. ASSUME TypeInv, NEW w \in Workers, ResetHome(w) PROVE TypeOK'
  <2>1. arena' \in Checkouts
    BY <1>31 DEF ResetHome, Without, Checkouts, TypeInv, TypeOK, CheckoutTypes
  <2>2. tip' \in Commits
    BY <1>31 DEF ResetHome, TypeInv, TypeOK, CheckoutTypes
  <2>3. pc' \in [Workers -> Phases]
    BY <1>31 DEF ResetHome, Goto, Phases, TypeInv, TypeOK, TaskTypes
  <2> QED BY <1>31, <2>1, <2>2, <2>3
             DEF ResetHome, TypeInv, TypeOK, SittingTypes, TaskTypes, SandboxTypes, CheckoutTypes
<1>32. ASSUME TypeInv, NEW w \in Workers, CleanHome(w) PROVE TypeOK'
  <2>1. arena' \in Checkouts
    BY <1>32 DEF CleanHome, Without, Checkouts, TypeInv, TypeOK, CheckoutTypes
  <2>2. pc' \in [Workers -> Phases]
    BY <1>32 DEF CleanHome, Goto, Phases, TypeInv, TypeOK, TaskTypes
  <2> QED BY <1>32, <2>1, <2>2
             DEF CleanHome, TypeInv, TypeOK, SittingTypes, TaskTypes, SandboxTypes, CheckoutTypes
<1>33. ASSUME TypeInv, NEW w \in Workers, Reattach(w) PROVE TypeOK'
  <2>1. arena' \in Checkouts
    BY <1>33, LeftByTyped DEF Reattach, Checkouts, TypeInv, TypeOK, CheckoutTypes
  <2>2. pc' \in [Workers -> Phases]
    BY <1>33 DEF Reattach, Over, Goto, Phases, TypeInv, TypeOK, TaskTypes
  <2>3. job' \in [Workers -> Jobs]
    BY <1>33, NoJobTyped DEF Reattach, Over, TypeInv, TypeOK, TaskTypes
  <2>4. outcome' \in [Workers -> Outcomes]
    BY <1>33 DEF Reattach, Over, Outcomes, TypeInv, TypeOK, TaskTypes
  <2>5. lease' \in [Workers -> [branch : BOOLEAN, sha : Commits]]
    BY <1>33, NoLeaseTyped DEF Reattach, Over, TypeInv, TypeOK, CheckoutTypes
  <2> QED BY <1>33, <2>1, <2>2, <2>3, <2>4, <2>5
             DEF Reattach, TypeInv, TypeOK, SittingTypes, TaskTypes, SandboxTypes, CheckoutTypes
<1>34. ASSUME TypeInv, NEW w \in Workers, TeardownFails(w) PROVE TypeOK'
  <2>1. arena' \in Checkouts
    BY <1>34, LeftByTyped DEF TeardownFails, TypeInv, TypeOK, CheckoutTypes
  <2>2. pc' \in [Workers -> Phases]
    BY <1>34 DEF TeardownFails, Over, Goto, Phases, TypeInv, TypeOK, TaskTypes
  <2>3. job' \in [Workers -> Jobs]
    BY <1>34, NoJobTyped DEF TeardownFails, GitFails, Over, Goto, TypeInv, TypeOK, TaskTypes
  <2>4. outcome' \in [Workers -> Outcomes]
    BY <1>34 DEF TeardownFails, Over, Outcomes, TypeInv, TypeOK, TaskTypes
  <2>5. lease' \in [Workers -> [branch : BOOLEAN, sha : Commits]]
    BY <1>34, NoLeaseTyped DEF TeardownFails, GitFails, Over, Goto, TypeInv, TypeOK, CheckoutTypes
  <2>6. faults' \in 0..MaxFaults
    BY <1>34, Bounds DEF TeardownFails, GitFails, TypeInv, TypeOK
  <2>7. SittingTypes' /\ SandboxTypes' /\ lane' \in BOOLEAN /\ kills' \in 0..MaxKills
    BY <1>34 DEF TeardownFails, TypeInv, TypeOK, SittingTypes, SandboxTypes
  <2>8. TaskTypes'
    BY <1>34, <2>2, <2>3, <2>4 DEF TeardownFails, TypeInv, TypeOK, TaskTypes
  <2>9. CheckoutTypes'
    BY <1>34, <2>1, <2>5 DEF TeardownFails, TypeInv, TypeOK, CheckoutTypes
  <2> QED BY <2>6, <2>7, <2>8, <2>9 DEF TypeOK
<1>35. ASSUME TypeInv, UNCHANGED vars PROVE TypeOK'
  BY <1>35 DEF TypeInv, TypeOK, SittingTypes, TaskTypes, SandboxTypes, CheckoutTypes
<1>36. ASSUME TypeInv, NEW w \in Workers, LaneHangs(w) PROVE TypeOK'
  BY <1>36, HangMoves DEF TypeInv, TypeOK, SittingTypes, TaskTypes, SandboxTypes, CheckoutTypes
<1> QED
  <2> SUFFICES ASSUME TypeInv, [Next]_vars PROVE TypeOK'
    OBVIOUS
  <2>1. ASSUME NEW w \in Workers, Lease(w) \/ Sandbox(w) PROVE TypeOK'
    BY <2>1, <1>9, <1>10, <1>11, <1>12, <1>13, <1>14, <1>15, <1>16, <1>17 DEF Lease, Sandbox
  <2>2. ASSUME NEW w \in Workers, Grade(w) \/ Loop(w) PROVE TypeOK'
    BY <2>2, <1>18, <1>19, <1>20, <1>21, <1>22, <1>23, <1>24, <1>25, <1>26, <1>27, <1>28
       DEF Grade, Loop
  <2>3. ASSUME NEW w \in Workers, Teardown(w) PROVE TypeOK'
    BY <2>3, <1>29, <1>30, <1>31, <1>32, <1>33, <1>34 DEF Teardown
  <2>4. ASSUME NEW w \in Workers, StartTask(w) \/ TaskStep(w) PROVE TypeOK'
    BY <2>1, <2>2, <2>3, <2>4, <1>8 DEF TaskStep
  <2>5. ASSUME NEW p \in Processes, SittingStep(p) \/ Kill(p) PROVE TypeOK'
    BY <2>5, <1>1, <1>2, <1>3, <1>4, <1>5 DEF SittingStep
  <2> QED BY <2>4, <2>5, <1>6, <1>7, <1>35, <1>36 DEF Next

\* A step of one worker's task leaves the other workers where they are.
LEMMA OneWorkerMoves ==
    ASSUME TypeOK, NEW w \in Workers, StartTask(w) \/ TaskStep(w)
    PROVE  \A v \in Workers \ {w} : pc'[v] = pc[v] /\ job'[v] = job[v]
<1> USE DEF Goto, Over, Return, TypeOK, TaskTypes
<1>1. CASE StartTask(w) BY <1>1 DEF StartTask
<1>2. CASE Lease(w)
  BY <1>2 DEF Lease, CheckStatus, HealReset, HealClean, RecordHead, CheckoutTask, LeaseFails
<1>3. CASE Sandbox(w) BY <1>3 DEF Sandbox, CreateSandbox, CreateFails, Prep
<1>4. CASE Grade(w)
  BY <1>4
     DEF Grade, ApplyHeldOut, StartTests, GradeBaseline, GradeFinal, GradeDiff, StartLane,
         PollLane
<1>5. CASE Loop(w) BY <1>5 DEF Loop, StopLoop, CallBackend, FileTool, RunTestsTool, AfterCall
<1>6. CASE Teardown(w)
  BY <1>6 DEF Teardown, RemoveSandbox, PruneSandbox, ResetHome, CleanHome, Reattach, TeardownFails
<1> QED BY <1>1, <1>2, <1>3, <1>4, <1>5, <1>6 DEF TaskStep

\* What an answer of the backend does to the job and where the loop goes.
LEMMA AnswerTyped ==
    ASSUME NEW w \in Workers, CallBackend(w)
    PROVE  \E cost \in Costs, calls \in 0..MaxCalls, turn \in {0, 1} :
              /\ job' = [job EXCEPT ![w].tokens = @ + cost, ![w].turns = @ + turn, ![w].calls = calls]
              /\ IF calls = 0 THEN Goto(w, AfterLoop(w)) ELSE Goto(w, "tools")
BY DEF CallBackend

\* RunLoop goes on to the next tool call only if there is one.
LEMMA CallsStayLeft == TypeInv /\ [Next]_vars => CallsLeft'
<1> SUFFICES ASSUME TypeInv, [Next]_vars PROVE CallsLeft'
  OBVIOUS
<1> USE DEF TypeInv, TypeOK, TaskTypes
<1>1. ASSUME NEW w \in Workers, StartTask(w) \/ TaskStep(w) PROVE CallsLeft'
  <2>1. pc'[w] = "tools" => job'[w].calls > 0
    <3> USE DEF Goto, Over, Return
    <3>1. CASE StartTask(w) BY <3>1 DEF StartTask
    <3>2. CASE Lease(w)
      BY <3>2 DEF Lease, CheckStatus, HealReset, HealClean, RecordHead, CheckoutTask, LeaseFails
    <3>3. CASE Sandbox(w) BY <3>3 DEF Sandbox, CreateSandbox, CreateFails, Prep
    <3>4. CASE Grade(w)
      BY <3>4 DEF Grade, ApplyHeldOut, StartTests, GradeBaseline, GradeFinal, GradeDiff, StartLane,
                  PollLane, CallsLeft
    <3>5. CASE StopLoop(w) BY <3>5 DEF StopLoop, AfterLoop
    <3>6. CASE CallBackend(w)
      <4>1. PICK cost \in Costs, calls \in 0..MaxCalls, turn \in {0, 1} :
               /\ job' = [job EXCEPT ![w].tokens = @ + cost, ![w].turns = @ + turn, ![w].calls = calls]
               /\ IF calls = 0 THEN Goto(w, AfterLoop(w)) ELSE Goto(w, "tools")
        BY <3>6, AnswerTyped
      <4>2. job[w] \in Jobs
               /\ job'[w] = [job[w] EXCEPT !.tokens = @ + cost, !.turns = @ + turn, !.calls = calls]
        BY <4>1
      <4>3. job'[w].calls = calls
        BY <4>2 DEF Jobs
      <4>4. calls = 0 => pc'[w] # "tools"
        BY <4>1 DEF AfterLoop
      <4>5. calls = 0 \/ calls > 0
        BY TaskAssumption
      <4> QED BY <4>3, <4>4, <4>5
    <3>7. CASE FileTool(w) \/ RunTestsTool(w)
      <4>1. AfterCall(w) /\ pc[w] = "tools"
        BY <3>7 DEF FileTool, RunTestsTool
      <4>2. job[w].calls \in Nat /\ job[w].calls > 0
        BY <4>1, JobFields DEF CallsLeft
      <4>3. pc'[w] = IF job[w].calls = 1 THEN "loop" ELSE "tools"
        BY <4>1 DEF AfterCall
      <4>4. job'[w].calls = job[w].calls - 1
        BY <4>1 DEF AfterCall, Jobs
      <4> QED BY <4>2, <4>3, <4>4
    <3>8. CASE Teardown(w)
      BY <3>8
         DEF Teardown, RemoveSandbox, PruneSandbox, ResetHome, CleanHome, Reattach, TeardownFails
    <3> QED BY <1>1, <3>1, <3>2, <3>3, <3>4, <3>5, <3>6, <3>7, <3>8 DEF TaskStep, Loop
  <2> QED BY <1>1, <2>1, OneWorkerMoves DEF CallsLeft
<1>2. ASSUME NEW p \in Processes, SittingStep(p) \/ Kill(p) PROVE CallsLeft'
  BY <1>2 DEF SittingStep, StartSitting, SweepBox, SweepEnds, EndSitting, Kill, CallsLeft
<1>3. CASE Tick \/ LaneEnds \/ UNCHANGED vars
  BY <1>3 DEF Tick, LaneEnds, CallsLeft
<1>4. ASSUME NEW w \in Workers, LaneHangs(w) PROVE CallsLeft'
  BY <1>4, HangMoves DEF CallsLeft
<1> QED BY <1>1, <1>2, <1>3, <1>4 DEF Next

\* The two together are inductive.
LEMMA TypeInvHolds == Spec => []TypeInv
<1>1. Init => TypeInv
  <2> SUFFICES ASSUME Init PROVE TypeInv
    OBVIOUS
  <2>1. SittingTypes /\ kills \in 0..MaxKills /\ faults \in 0..MaxFaults /\ lane \in BOOLEAN
    <3>1. \A n \in Nat : 0 \in 0..n
      OBVIOUS
    <3> QED BY <3>1, Bounds DEF Init, SittingTypes
  <2>2. TaskTypes
    BY NoJobTyped DEF Init, TaskTypes, Phases, Outcomes
  <2>3. SandboxTypes
    BY NoBoxTyped DEF Init, SandboxTypes
  <2>4. CheckoutTypes
    BY NoLeaseTyped, TaskAssumption DEF Init, CheckoutTypes, Checkouts
  <2> QED BY <2>1, <2>2, <2>3, <2>4 DEF Init, TypeInv, TypeOK, CallsLeft
<1>2. TypeInv /\ [Next]_vars => TypeInv'
  BY ActionTyped, CallsStayLeft DEF TypeInv
<1> QED BY <1>1, <1>2, PTL DEF Spec

\* Every variable keeps its type: counters of turns, tokens, calls, tasks,
\* kills and faults in their ranges, ages up to sandboxSweepAge, dirt that is
\* some worker's or nobody's (run.go, arena.go, sandbox.go).
THEOREM Typing == Spec => []TypeOK
<1>1. TypeInv => TypeOK
  BY DEF TypeInv
<1> QED BY <1>1, TypeInvHolds, PTL

-----------------------------------------------------------------------------
(***************************************************************************)
(* LoopBounded: each job for itself.                                       *)
(***************************************************************************)
Bounded(j) ==
    /\ j.turns <= MaxTurns
    /\ MaxTaskTokens > 0 => \A most \in Costs :
          (\A c \in Costs : c <= most) => j.tokens < MaxTaskTokens + most

\* A task that begins has used nothing (NoJob, StartTask).
LEMMA NewJobBounded ==
    ASSUME NEW j, j.turns = 0, j.tokens = 0 PROVE Bounded(j)
<1>1. \A most \in Costs : most \in Nat
  BY TaskAssumption
<1>2. MaxTurns \in Nat /\ MaxTaskTokens \in Nat
  BY TaskAssumption
<1> QED BY <1>1, <1>2 DEF Bounded

\* RunLoop checks the bounds before each call: one call fits under them.
LEMMA CallBounded ==
    ASSUME TypeInv, NEW w \in Workers, CallBackend(w) PROVE Bounded(job'[w])
<1>1. PICK cost \in Costs, calls \in 0..MaxCalls, turn \in {0, 1} :
         /\ job' = [job EXCEPT ![w].tokens = @ + cost, ![w].turns = @ + turn, ![w].calls = calls]
         /\ IF calls = 0 THEN Goto(w, AfterLoop(w)) ELSE Goto(w, "tools")
  BY AnswerTyped
<1>2. job[w] \in Jobs /\ job[w].turns \in Nat /\ job[w].tokens \in Nat
  BY JobFields DEF TypeInv, TypeOK, TaskTypes
<1>3. job'[w] = [job[w] EXCEPT !.tokens = @ + cost, !.turns = @ + turn, !.calls = calls]
  BY <1>1 DEF TypeInv, TypeOK, TaskTypes
<1>4. job'[w].turns = job[w].turns + turn /\ job'[w].tokens = job[w].tokens + cost
  BY <1>2, <1>3 DEF Jobs
<1>5. ~BoundReached(w)
  BY DEF CallBackend
<1>6. job[w].turns < MaxTurns /\ (MaxTaskTokens > 0 => job[w].tokens < MaxTaskTokens)
  BY <1>2, <1>5, TaskAssumption DEF BoundReached
<1>7. MaxTurns \in Nat /\ MaxTaskTokens \in Nat /\ \A most \in Costs : most \in Nat
  BY TaskAssumption
<1> QED BY <1>2, <1>4, <1>6, <1>7 DEF Bounded

\* No other step adds to a job's turns or tokens.
LEMMA OthersBounded ==
    ASSUME TypeInv, NEW w \in Workers, StartTask(w) \/ TaskStep(w), ~CallBackend(w)
    PROVE  \/ job'[w].turns = 0 /\ job'[w].tokens = 0
           \/ job'[w].turns = job[w].turns /\ job'[w].tokens = job[w].tokens
<1> USE DEF Goto, Over, Return, NoJob
<1>1. job \in [Workers -> Jobs] /\ job[w] \in Jobs
  BY DEF TypeInv, TypeOK, TaskTypes
<1>2. CASE StartTask(w) BY <1>1, <1>2 DEF StartTask
<1>3. CASE Lease(w)
  BY <1>1, <1>3 DEF Lease, CheckStatus, HealReset, HealClean, RecordHead, CheckoutTask, LeaseFails
<1>4. CASE Sandbox(w) BY <1>1, <1>4 DEF Sandbox, CreateSandbox, CreateFails, Prep
<1>5. CASE GradeBaseline(w) \/ GradeFinal(w)
  <2>1. CASE job' = [job EXCEPT ![w] = NoJob] BY <1>1, <2>1
  <2>2. ASSUME NEW new, job' = [job EXCEPT ![w].baseline = new] \/ job' = [job EXCEPT ![w].green = new]
        PROVE  job'[w].turns = job[w].turns /\ job'[w].tokens = job[w].tokens
    BY <1>1, <2>2 DEF Jobs
  <2> QED BY <1>5, <2>1, <2>2 DEF GradeBaseline, GradeFinal
<1>6. CASE ApplyHeldOut(w) \/ StartTests(w) \/ GradeDiff(w) \/ StartLane(w) \/ PollLane(w)
  BY <1>1, <1>6 DEF ApplyHeldOut, StartTests, GradeDiff, StartLane, PollLane
<1>7. CASE StopLoop(w) BY <1>7 DEF StopLoop
<1>8. CASE FileTool(w) \/ RunTestsTool(w)
  <2>1. job' = [job EXCEPT ![w].calls = @ - 1]
    BY <1>8 DEF FileTool, RunTestsTool, AfterCall
  <2> QED BY <1>1, <2>1 DEF Jobs
<1>9. CASE Teardown(w)
  BY <1>1, <1>9
     DEF Teardown, RemoveSandbox, PruneSandbox, ResetHome, CleanHome, Reattach, TeardownFails
<1> QED BY <1>2, <1>3, <1>4, <1>5, <1>6, <1>7, <1>8, <1>9 DEF TaskStep, Grade, Loop

\* A loop takes at most MaxTurns turns and exceeds its token budget by one
\* call at most, an answer that was an error included (loop.go, RunLoop).
THEOREM LoopsStayBounded == Spec => []LoopBounded
<1> DEFINE Inv == \A w \in Workers : Bounded(job[w])
<1>1. Init => Inv
  <2>1. Bounded(NoJob)
    BY NewJobBounded DEF NoJob
  <2> QED BY <2>1 DEF Init
<1>2. ASSUME Inv, TypeInv, [Next]_vars PROVE Inv'
  <2>1. ASSUME NEW w \in Workers, StartTask(w) \/ TaskStep(w) PROVE Inv'
    <3>1. Bounded(job'[w])
      <4>1. CASE CallBackend(w) BY <4>1, <1>2, CallBounded
      <4>2. CASE ~CallBackend(w)
        <5>1. CASE job'[w].turns = 0 /\ job'[w].tokens = 0 BY <5>1, NewJobBounded
        <5>2. CASE job'[w].turns = job[w].turns /\ job'[w].tokens = job[w].tokens
          BY <5>2, <1>2 DEF Bounded
        <5> QED BY <1>2, <2>1, <4>2, <5>1, <5>2, OthersBounded
      <4> QED BY <4>1, <4>2
    <3> QED BY <1>2, <2>1, <3>1, OneWorkerMoves DEF TypeInv
  <2>2. ASSUME NEW p \in Processes, SittingStep(p) \/ Kill(p) PROVE Inv'
    <3>1. Bounded(NoJob)
      BY NewJobBounded DEF NoJob
    <3>2. CASE Kill(p)
      BY <1>2, <3>1, <3>2 DEF Kill
    <3>3. CASE SittingStep(p)
      BY <1>2, <3>3 DEF SittingStep, StartSitting, SweepBox, SweepEnds, EndSitting
    <3> QED BY <2>2, <3>2, <3>3
  <2>3. CASE Tick \/ LaneEnds \/ UNCHANGED vars
    BY <1>2, <2>3 DEF Tick, LaneEnds
  <2>4. ASSUME NEW w \in Workers, LaneHangs(w) PROVE Inv'
    BY <1>2, <2>4, HangMoves
  <2> QED BY <1>2, <2>1, <2>2, <2>3, <2>4 DEF Next
<1>3. Inv => LoopBounded
  BY DEF Bounded, LoopBounded
<1> HIDE DEF Inv
<1> QED BY <1>1, <1>2, <1>3, TypeInvHolds, PTL DEF Spec

-----------------------------------------------------------------------------
(***************************************************************************)
(* LiveSandboxIntact: a task keeps its directory to itself, is younger     *)
(* than what a sweep looks for, and is in no sweep's list.                 *)
(***************************************************************************)
OwnBoxes == \A v, w \in Workers : box[v] # None /\ box[v] = box[w] => v = w

Sound(w) ==
    /\ boxes[box[w]].dir
    /\ boxes[box[w]].age <= TaskLimit(w)
    /\ \A p \in Processes : box[w] \notin stale[p]
    /\ kind[w] = "judge" => boxes[box[w]].reg /\ boxes[box[w]].git

SandboxInv == OwnBoxes /\ \A w \in Workers : Needs(w) => Sound(w)

\* The timeouts of a task's phases add up to less than sandboxSweepAge.
LEMMA LimitBelowSweep ==
    ASSUME NEW w \in Workers PROVE TaskLimit(w) \in Nat /\ TaskLimit(w) < SweepAge
BY TaskAssumption, TimeAssumption DEF TaskLimit

\* A box a worker holds is one of the boxes.
LEMMA HeldBox ==
    ASSUME TypeInv, NEW w \in Workers, box[w] # None
    PROVE  box[w] \in Boxes /\ boxes[box[w]] \in BoxStates
BY DEF TypeInv, TypeOK, SandboxTypes

\* A step that leaves boxes and lists alone, and lets a sandbox in teardown
\* stay there, keeps the invariant.
LEMMA SandboxFrame ==
    ASSUME SandboxInv, UNCHANGED <<kind, stale, boxes, box>>,
           \A w \in Workers : pc[w] = "teardown" => pc'[w] = "teardown"
    PROVE  SandboxInv'
BY DEF SandboxInv, OwnBoxes, Sound, Needs, TaskLimit

\* Steps that change nothing but git of a worker's own sandbox.
LEMMA ParkingFrame ==
    ASSUME TypeInv, SandboxInv, NEW w \in Workers, NEW git \in BOOLEAN,
           boxes' = IF Parks(w) THEN [boxes EXCEPT ![box[w]].git = git] ELSE boxes,
           UNCHANGED <<kind, stale, box>>,
           \A v \in Workers : pc[v] = "teardown" => pc'[v] = "teardown"
    PROVE  SandboxInv'
<1>1. CASE ~Parks(w)
  BY <1>1, SandboxFrame
<1>2. CASE Parks(w)
  <2>1. kind[w] = "v1" /\ box[w] # None
    BY <1>2 DEF Parks
  <2>2. ASSUME NEW v \in Workers, Needs(v)' PROVE Sound(v)'
    <3>1. Needs(v) /\ Sound(v)
      BY <2>2 DEF Needs, SandboxInv
    <3>2. box[v] # None
      BY <3>1 DEF Needs
    <3>3. CASE v = w
      <4>1. boxes'[box[v]] = [boxes[box[v]] EXCEPT !.git = git]
        BY <1>2, <3>2, <3>3, HeldBox DEF TypeInv, TypeOK, SandboxTypes
      <4>2. boxes'[box[v]].dir = boxes[box[v]].dir /\ boxes'[box[v]].age = boxes[box[v]].age
        BY <4>1, <3>2, HeldBox DEF BoxStates
      <4> QED BY <2>1, <3>1, <3>3, <4>2 DEF Sound, TaskLimit
    <3>4. CASE v # w
      <4>1. box[v] # box[w]
        BY <3>2, <3>4 DEF SandboxInv, OwnBoxes
      <4>2. boxes'[box[v]] = boxes[box[v]]
        BY <1>2, <4>1, <3>2, HeldBox DEF TypeInv, TypeOK, SandboxTypes
      <4> QED BY <3>1, <4>2 DEF Sound, TaskLimit
    <3> QED BY <3>3, <3>4
  <2> QED BY <2>2 DEF SandboxInv, OwnBoxes
<1> QED BY <1>1, <1>2

\* Removing a box that is nobody's leaves the tasks' sandboxes as they are.
LEMMA RemovalFrame ==
    ASSUME TypeInv, SandboxInv, NEW b, boxes' = Removed(b),
           \A w \in Workers : Needs(w)' => Needs(w) /\ box[w] # b /\ box'[w] = box[w],
           \A w \in Workers : box'[w] # None => box'[w] = box[w],
           \A p \in Processes : stale'[p] \subseteq stale[p],
           UNCHANGED kind
    PROVE  SandboxInv'
<1>1. ASSUME NEW w \in Workers, Needs(w)' PROVE Sound(w)'
  <2>1. Needs(w) /\ Sound(w) /\ box[w] # b /\ box'[w] = box[w] /\ box[w] # None
    BY <1>1 DEF SandboxInv, Needs
  <2>2. boxes'[box[w]] = boxes[box[w]]
    BY <2>1, HeldBox DEF Removed, TypeInv, TypeOK, SandboxTypes
  <2> QED BY <2>1, <2>2 DEF Sound, TaskLimit
<1> QED BY <1>1 DEF SandboxInv, OwnBoxes

\* A prune drops the registration of no judged task's sandbox, whose .git is
\* where it should be.
LEMMA PruneFrame ==
    ASSUME TypeInv, SandboxInv, boxes' = Pruned, UNCHANGED <<kind, stale, box>>,
           \A w \in Workers : pc[w] = "teardown" => pc'[w] = "teardown"
    PROVE  SandboxInv'
<1>1. ASSUME NEW w \in Workers, Needs(w)' PROVE Sound(w)'
  <2>1. Needs(w) /\ Sound(w) /\ box[w] # None
    BY <1>1 DEF SandboxInv, Needs
  <2>2. boxes[box[w]] \in BoxStates /\ box[w] \in Boxes
    BY <2>1, HeldBox
  <2>3. boxes'[box[w]] = [boxes[box[w]] EXCEPT !.reg = @ /\ boxes[box[w]].dir /\ boxes[box[w]].git]
    BY <2>2 DEF Pruned
  <2>4. /\ boxes'[box[w]].dir = boxes[box[w]].dir /\ boxes'[box[w]].age = boxes[box[w]].age
        /\ boxes'[box[w]].git = boxes[box[w]].git
    BY <2>2, <2>3 DEF BoxStates
  <2>5. boxes[box[w]].reg /\ boxes[box[w]].dir /\ boxes[box[w]].git => boxes'[box[w]].reg
    BY <2>2, <2>3 DEF BoxStates
  <2> QED BY <2>1, <2>4, <2>5 DEF Sound, TaskLimit
<1> QED BY <1>1 DEF SandboxInv, OwnBoxes

\* A new sandbox is young, and neither another task's nor in a sweep's list.
LEMMA CreateKeepsSandboxes ==
    ASSUME TypeInv, SandboxInv, NEW w \in Workers, CreateSandbox(w) PROVE SandboxInv'
<1>1. PICK b \in Boxes :
         /\ Unused(b)
         /\ boxes' = [boxes EXCEPT ![b] = [NoBox EXCEPT !.dir = TRUE, !.reg = TRUE]]
         /\ box' = [box EXCEPT ![w] = b]
  BY DEF CreateSandbox
<1>2. /\ pc' = [pc EXCEPT ![w] = IF kind[w] = "v1" THEN "prep" ELSE "held"]
      /\ kind' = kind /\ stale' = stale
  BY DEF CreateSandbox, Goto
<1>3. b # None /\ (\A v \in Workers : box[v] # b) /\ (\A p \in Processes : b \notin stale[p])
  BY <1>1, TaskAssumption DEF Unused
<1>4. /\ pc \in [Workers -> Phases] /\ box \in [Workers -> Boxes \cup {None}]
      /\ boxes \in [Boxes -> BoxStates]
  BY DEF TypeInv, TypeOK, TaskTypes, SandboxTypes
<1>5. OwnBoxes'
  BY <1>1, <1>3, <1>4 DEF SandboxInv, OwnBoxes
<1>6. Sound(w)'
  <2>1. boxes'[b] = [NoBox EXCEPT !.dir = TRUE, !.reg = TRUE] /\ box'[w] = b
    BY <1>1, <1>4
  <2>2. boxes'[b].dir /\ boxes'[b].reg /\ boxes'[b].git /\ boxes'[b].age = 0
    BY <2>1 DEF NoBox
  <2>3. 0 <= TaskLimit(w) /\ TaskLimit(w)' = TaskLimit(w)
    BY <1>2, LimitBelowSweep DEF TaskLimit
  <2> QED BY <1>2, <1>3, <2>1, <2>2, <2>3 DEF Sound
<1>7. ASSUME NEW v \in Workers \ {w}, Needs(v)' PROVE Sound(v)'
  <2>1. Needs(v) /\ box'[v] = box[v]
    BY <1>1, <1>2, <1>4, <1>7 DEF Needs
  <2>2. Sound(v) /\ box[v] # b
    BY <1>3, <2>1 DEF SandboxInv
  <2>3. boxes'[box[v]] = boxes[box[v]]
    BY <1>1, <1>4, <2>2
  <2> QED BY <1>2, <2>1, <2>2, <2>3 DEF Sound, TaskLimit
<1> QED BY <1>5, <1>6, <1>7 DEF SandboxInv

\* A task's sandbox is too young for the list of a sitting that starts.
LEMMA SweepListSpares ==
    ASSUME TypeInv, SandboxInv, NEW p \in Processes, StartSitting(p) PROVE SandboxInv'
<1>1. /\ stale' = [stale EXCEPT ![p] = {b \in Boxes : boxes[b].dir /\ boxes[b].age >= SweepAge}]
      /\ UNCHANGED <<kind, boxes, box, pc>>
  BY DEF StartSitting
<1>2. ASSUME NEW w \in Workers, Needs(w)' PROVE Sound(w)'
  <2>1. Needs(w) /\ Sound(w) /\ box[w] # None
    BY <1>1, <1>2 DEF Needs, SandboxInv
  <2>2. boxes[box[w]].age \in Nat
    BY <2>1, HeldBox, Bounds DEF BoxStates
  <2>3. ~(boxes[box[w]].age >= SweepAge)
    BY <2>1, <2>2, LimitBelowSweep, Bounds DEF Sound
  <2>4. ASSUME NEW q \in Processes PROVE box[w] \notin stale'[q]
    BY <1>1, <2>1, <2>3 DEF Sound, TypeInv, TypeOK, SittingTypes
  <2> QED BY <1>1, <2>1, <2>4 DEF Sound, TaskLimit
<1> QED BY <1>1, <1>2 DEF SandboxInv, OwnBoxes

\* Time stands still for a task at the end of its timeouts.
LEMMA TickKeepsSandboxes ==
    ASSUME TypeInv, SandboxInv, Tick PROVE SandboxInv'
<1>1. UNCHANGED <<kind, stale, box, pc>>
  BY DEF Tick
<1>2. ASSUME NEW w \in Workers, Needs(w)' PROVE Sound(w)'
  <2>1. Needs(w) /\ Sound(w) /\ box[w] # None
    BY <1>1, <1>2 DEF Needs, SandboxInv
  <2>2. box[w] \in Boxes /\ boxes[box[w]] \in BoxStates /\ boxes[box[w]].age \in Nat
    BY <2>1, HeldBox, Bounds DEF BoxStates
  <2>3. boxes[box[w]].age < TaskLimit(w)
    BY <2>1 DEF Tick
  <2>4. boxes'[box[w]] = [boxes[box[w]] EXCEPT !.age = @ + 1] \/ boxes'[box[w]] = boxes[box[w]]
    BY <2>2 DEF Tick
  <2>5. /\ boxes'[box[w]].dir = boxes[box[w]].dir /\ boxes'[box[w]].git = boxes[box[w]].git
        /\ boxes'[box[w]].reg = boxes[box[w]].reg
        /\ boxes'[box[w]].age = boxes[box[w]].age + 1 \/ boxes'[box[w]].age = boxes[box[w]].age
    BY <2>2, <2>4 DEF BoxStates
  <2>6. boxes'[box[w]].age <= TaskLimit(w)
    BY <2>2, <2>3, <2>5, LimitBelowSweep
  <2> QED BY <1>1, <2>1, <2>5, <2>6 DEF Sound, TaskLimit
<1> QED BY <1>1, <1>2 DEF SandboxInv, OwnBoxes

\* The steps of a task keep all tasks' sandboxes.
LEMMA TaskKeepsSandboxes ==
    ASSUME TypeInv, SandboxInv, NEW w \in Workers, StartTask(w) \/ TaskStep(w)
    PROVE  SandboxInv'
<1> USE DEF Goto, Over, Return
<1>1. pc \in [Workers -> Phases]
  BY DEF TypeInv, TypeOK, TaskTypes
<1>2. CASE CreateSandbox(w) BY <1>2, CreateKeepsSandboxes
<1>3. CASE StartTests(w) \/ GradeBaseline(w) \/ GradeFinal(w) \/ RunTestsTool(w)
  <2>1. \E git \in BOOLEAN :
           boxes' = IF Parks(w) THEN [boxes EXCEPT ![box[w]].git = git] ELSE boxes
    BY <1>3 DEF StartTests, GradeBaseline, GradeFinal, RunTestsTool, TestsEnd
  <2>2. pc[w] # "teardown" /\ UNCHANGED <<kind, stale, box>>
    BY <1>3 DEF StartTests, GradeBaseline, GradeFinal, RunTestsTool
  <2>3. \A v \in Workers : pc[v] = "teardown" => pc'[v] = "teardown"
    BY <2>2, OneWorkerMoves DEF TypeInv
  <2> QED BY <2>1, <2>2, <2>3, ParkingFrame
<1>4. CASE RemoveSandbox(w)
  <2>1. /\ pc[w] = "teardown" /\ boxes' = Removed(box[w]) /\ box' = [box EXCEPT ![w] = None]
        /\ pc' = [pc EXCEPT ![w] = "prune"] /\ UNCHANGED <<kind, stale>>
    BY <1>4 DEF RemoveSandbox
  <2>2. box \in [Workers -> Boxes \cup {None}]
    BY DEF TypeInv, TypeOK, SandboxTypes
  <2>3. ASSUME NEW v \in Workers, Needs(v)' PROVE Needs(v) /\ box[v] # box[w] /\ box'[v] = box[v]
    BY <1>1, <2>1, <2>2, <2>3 DEF Needs, SandboxInv, OwnBoxes
  <2>4. \A v \in Workers : box'[v] # None => box'[v] = box[v]
    BY <2>1, <2>2
  <2> QED BY <2>1, <2>3, <2>4, RemovalFrame
<1>5. CASE PruneSandbox(w)
  BY <1>1, <1>5, PruneFrame DEF PruneSandbox
<1>6. CASE StartTask(w) \/ Lease(w) \/ CreateFails(w) \/ Prep(w)
  BY <1>1, <1>6, SandboxFrame
     DEF StartTask, Lease, CheckStatus, HealReset, HealClean, RecordHead, CheckoutTask, LeaseFails,
         CreateFails, Prep
<1>7. CASE ApplyHeldOut(w) \/ GradeDiff(w) \/ StartLane(w) \/ PollLane(w)
  <2>1. pc[w] # "teardown" /\ UNCHANGED <<kind, stale, boxes, box>>
    BY <1>7 DEF ApplyHeldOut, GradeDiff, StartLane, PollLane
  <2> QED BY <2>1, OneWorkerMoves, SandboxFrame DEF TypeInv
<1>8. CASE StopLoop(w) \/ CallBackend(w) \/ FileTool(w)
  <2>1. pc[w] # "teardown" /\ UNCHANGED <<kind, stale, boxes, box>>
    BY <1>8 DEF StopLoop, CallBackend, FileTool
  <2> QED BY <2>1, OneWorkerMoves, SandboxFrame DEF TypeInv
<1>9. CASE ResetHome(w) \/ CleanHome(w) \/ Reattach(w) \/ TeardownFails(w)
  BY <1>1, <1>9, SandboxFrame DEF ResetHome, CleanHome, Reattach, TeardownFails
<1> QED BY <1>2, <1>3, <1>4, <1>5, <1>6, <1>7, <1>8, <1>9
           DEF TaskStep, Sandbox, Grade, Loop, Teardown

\* So do the steps of a sitting: a sweep removes what is in its list, and a
\* killed process holds no sandbox any more.
LEMMA SittingKeepsSandboxes ==
    ASSUME TypeInv, SandboxInv, NEW p \in Processes, SittingStep(p) \/ Kill(p)
    PROVE  SandboxInv'
<1>1. CASE StartSitting(p) BY <1>1, SweepListSpares
<1>2. ASSUME NEW b \in Boxes, SweepBox(p, b) PROVE SandboxInv'
  <2>1. b \in stale[p] /\ boxes' = Removed(b) /\ UNCHANGED <<kind, box, pc>>
    BY <1>2 DEF SweepBox
  <2>2. \A w \in Workers : Needs(w) => box[w] # b
    BY <2>1 DEF SandboxInv, Sound
  <2>3. \A q \in Processes : stale'[q] \subseteq stale[q]
    BY <1>2 DEF SweepBox, TypeInv, TypeOK, SittingTypes
  <2> QED BY <2>1, <2>2, <2>3, RemovalFrame DEF Needs
<1>3. CASE SweepEnds(p)
  BY <1>3, PruneFrame DEF SweepEnds
<1>4. CASE EndSitting(p)
  BY <1>4, SandboxFrame DEF EndSitting
<1>5. CASE Kill(p)
  <2>1. /\ UNCHANGED <<kind, boxes>>
        /\ \A q \in Processes : stale'[q] \subseteq stale[q]
        /\ \A w \in Workers : box'[w] = None \/ (box'[w] = box[w] /\ pc'[w] = pc[w])
    BY <1>5 DEF Kill, TypeInv, TypeOK, SittingTypes
  <2> QED BY <2>1 DEF SandboxInv, OwnBoxes, Sound, Needs, TaskLimit
<1> QED BY <1>1, <1>2, <1>3, <1>4, <1>5 DEF SittingStep

\* Neither the sweep of a sitting nor the prune of a task or a sitting, each
\* blind to the processes whose tasks are under way, takes a task's directory,
\* or the git that the diff of a judged task needs (sandbox.go, Sweep and
\* Teardown): a worktree that is swept has outlived every timeout.
THEOREM SandboxesIntact == Spec => []LiveSandboxIntact
<1>1. Init => SandboxInv
  BY DEF Init, SandboxInv, OwnBoxes, Needs
<1>2. ASSUME SandboxInv, TypeInv, [Next]_vars PROVE SandboxInv'
  <2>1. CASE Tick BY <1>2, <2>1, TickKeepsSandboxes
  <2>2. CASE LaneEnds \/ UNCHANGED vars
    BY <1>2, <2>2, SandboxFrame DEF LaneEnds
  <2>3. ASSUME NEW w \in Workers, LaneHangs(w) PROVE SandboxInv'
    BY <1>2, <2>3, HangMoves DEF SandboxInv, OwnBoxes, Sound, Needs, TaskLimit
  <2> QED BY <1>2, <2>1, <2>2, <2>3, TaskKeepsSandboxes, SittingKeepsSandboxes DEF Next
<1>3. SandboxInv => LiveSandboxIntact
  BY DEF SandboxInv, Sound, LiveSandboxIntact, HasGit
<1> QED BY <1>1, <1>2, <1>3, TypeInvHolds, PTL DEF Spec

-----------------------------------------------------------------------------
(***************************************************************************)
(* LeaseIsClean and BranchStays: the worker of the arena, phase by phase.  *)
(***************************************************************************)
InArena == {"status", "heal", "healclean", "record", "checkout", "lane", "poll", "hung", "reset",
            "clean", "reattach"}
InSandbox == {"create", "prep", "judge", "teardown", "prune"}

\* The phases of a kind.
ByKind ==
    \A w \in Workers :
        /\ kind[w] = "arena" => pc[w] \notin InSandbox
        /\ kind[w] # "arena" => pc[w] \notin InArena
        /\ kind[w] = "judge" => pc[w] # "final"
        /\ kind[w] = None => pc[w] = "idle" /\ todo[w] = 0

ArenaAt(w) ==
    /\ pc[w] = "healclean" => \A d \in arena.dirt : d[2] # "tracked"
    /\ pc[w] \in {"record", "checkout"} => arena.dirt = {}
    /\ pc[w] \in Leased => ~arena.branch /\ arena.head = job[w].commit /\ \A d \in arena.dirt : d[1] = w
    /\ pc[w] = "reset" => ~arena.branch

ArenaInv == tip = Tip /\ \A w \in Workers : kind[w] = "arena" => ArenaAt(w)

LeaseInv == ByKind /\ (OneArena => ArenaInv)

\* A worker's kind is one of three, or None.
LEMMA KindsTyped ==
    ASSUME TypeInv, NEW w \in Workers PROVE kind[w] \in Kinds \cup {None} /\ None \notin Kinds
BY TaskAssumption DEF TypeInv, TypeOK, SittingTypes

\* The step of a task stays in the phases of its kind.
LEMMA TaskKeepsKinds ==
    ASSUME TypeInv, ByKind, NEW w \in Workers, StartTask(w) \/ TaskStep(w)
    PROVE  ByKind'
<1> USE DEF Goto, Over, Return, Kinds
<1> DEFINE AtHome(phase) ==
        /\ kind[w] = "arena" => phase \notin InSandbox
        /\ kind[w] # "arena" => phase \notin InArena
        /\ kind[w] = "judge" => phase # "final"
<1>1. pc \in [Workers -> Phases] /\ AtHome(pc[w]) /\ kind[w] \in Kinds \cup {None} /\ None \notin Kinds
  BY KindsTyped DEF TypeInv, TypeOK, TaskTypes, ByKind
<1>2. kind' = kind /\ kind[w] # None /\ (\A v \in Workers \ {w} : todo'[v] = todo[v])
  <2>1. CASE StartTask(w)
    <3>1. todo[w] > 0 /\ todo' = [todo EXCEPT ![w] = @ - 1] /\ kind' = kind
      BY <2>1 DEF StartTask
    <3>2. todo \in [Workers -> 0..TasksPerSitting]
      BY DEF TypeInv, TypeOK, SittingTypes
    <3>3. kind[w] # None
      BY <3>1 DEF ByKind
    <3> QED BY <3>1, <3>2, <3>3
  <2>2. CASE Lease(w)
    BY <2>2
       DEF Lease, CheckStatus, HealReset, HealClean, RecordHead, CheckoutTask, LeaseFails, ByKind
  <2>3. CASE Sandbox(w) BY <2>3 DEF Sandbox, CreateSandbox, CreateFails, Prep, ByKind
  <2>4. CASE Grade(w)
    BY <2>4 DEF Grade, ApplyHeldOut, StartTests, GradeBaseline, GradeFinal, GradeDiff, StartLane,
                PollLane, ByKind
  <2>5. CASE Loop(w) BY <2>5 DEF Loop, StopLoop, CallBackend, FileTool, RunTestsTool, ByKind
  <2>6. CASE Teardown(w)
    BY <2>6
       DEF Teardown, RemoveSandbox, PruneSandbox, ResetHome, CleanHome, Reattach, TeardownFails,
           ByKind
  <2> QED BY <2>1, <2>2, <2>3, <2>4, <2>5, <2>6 DEF TaskStep
<1>3. AtHome(pc'[w])
  <2> USE <1>1, <1>2 DEF InArena, InSandbox
  <2>1. CASE StartTask(w) BY <2>1 DEF StartTask
  <2>2. CASE Lease(w)
    BY <2>2 DEF Lease, CheckStatus, HealReset, HealClean, RecordHead, CheckoutTask, LeaseFails
  <2>3. CASE Sandbox(w) BY <2>3 DEF Sandbox, CreateSandbox, CreateFails, Prep
  <2>4. CASE ApplyHeldOut(w) \/ StartTests(w) \/ GradeBaseline(w)
    BY <2>4 DEF ApplyHeldOut, StartTests, GradeBaseline
  <2>5. CASE GradeFinal(w) \/ GradeDiff(w) \/ StartLane(w) \/ PollLane(w)
    BY <2>5 DEF GradeFinal, GradeDiff, StartLane, PollLane
  <2>6. CASE Loop(w)
    BY <2>6 DEF Loop, StopLoop, CallBackend, FileTool, RunTestsTool, AfterLoop, AfterCall
  <2>7. CASE Teardown(w)
    BY <2>7 DEF Teardown, RemoveSandbox, PruneSandbox, ResetHome, CleanHome, Reattach, TeardownFails
  <2> QED BY <2>1, <2>2, <2>3, <2>4, <2>5, <2>6, <2>7 DEF TaskStep, Grade
<1>4. \A v \in Workers \ {w} : pc'[v] = pc[v]
  BY OneWorkerMoves DEF TypeInv
<1> HIDE DEF AtHome
<1>5. ASSUME NEW v \in Workers \ {w}
      PROVE  /\ kind[v] = "arena" => pc'[v] \notin InSandbox
             /\ kind[v] # "arena" => pc'[v] \notin InArena
             /\ kind[v] = "judge" => pc'[v] # "final"
             /\ kind[v] = None => pc'[v] = "idle" /\ todo'[v] = 0
  BY <1>2, <1>4 DEF ByKind
<1> QED BY <1>2, <1>3, <1>5 DEF ByKind, AtHome

\* A task in a sandbox of its own does not touch the arena.
LEMMA SandboxesSpareArena ==
    ASSUME TypeInv, LeaseInv, NEW w \in Workers, StartTask(w) \/ TaskStep(w), kind[w] # "arena"
    PROVE  UNCHANGED <<arena, tip, kind>>
<1>1. pc[w] \notin InArena
  BY DEF LeaseInv, ByKind
<1> USE DEF InArena, Writes
<1>2. CASE StartTask(w) BY <1>2 DEF StartTask
<1>3. CASE Lease(w)
  BY <1>1, <1>3 DEF Lease, CheckStatus, HealReset, HealClean, RecordHead, CheckoutTask, LeaseFails
<1>4. CASE Sandbox(w) BY <1>4 DEF Sandbox, CreateSandbox, CreateFails, Prep
<1>5. CASE Grade(w)
  BY <1>5
     DEF Grade, ApplyHeldOut, StartTests, GradeBaseline, GradeFinal, GradeDiff, StartLane,
         PollLane, TestsEnd
<1>6. CASE Loop(w)
  BY <1>6 DEF Loop, StopLoop, CallBackend, FileTool, RunTestsTool, TestsEnd
<1>7. CASE Teardown(w)
  BY <1>1, <1>7
     DEF Teardown, RemoveSandbox, PruneSandbox, ResetHome, CleanHome, Reattach, TeardownFails
<1> QED BY <1>2, <1>3, <1>4, <1>5, <1>6, <1>7 DEF TaskStep

\* What a lease has left is as if no one had written it: no dirt appears.
LEMMA LeftByDirt ==
    ASSUME CheckoutTypes, NEW ws
    PROVE  /\ \A d \in LeftBy(ws) : \E e \in arena.dirt : d[2] = e[2] /\ (e[1] \notin ws => d = e)
           /\ arena.dirt = {} => LeftBy(ws) = {}
<1>1. arena.dirt \in SUBSET ((Workers \cup {None}) \X Dirt)
  BY DEF CheckoutTypes, Checkouts
<1> QED BY <1>1 DEF LeftBy

\* The lease: status, heal, the commit of a task (arena.go, NewArenaSandbox).
LEMMA LeaseKeepsArena ==
    ASSUME TypeInv, ArenaInv, NEW w \in Workers, kind[w] = "arena", Lease(w)
    PROVE  ArenaAt(w)' /\ tip' = Tip
<1> USE DEF Goto, Leased
<1>1. /\ pc \in [Workers -> Phases] /\ arena \in Checkouts
      /\ arena.dirt \in SUBSET ((Workers \cup {None}) \X Dirt)
  BY DEF TypeInv, TypeOK, TaskTypes, CheckoutTypes, Checkouts
<1>2. CASE CheckStatus(w)
  BY <1>1, <1>2 DEF CheckStatus, Dirty, ArenaAt, ArenaInv
<1>3. CASE HealReset(w)
  <2>1. arena'.dirt = {d \in arena.dirt : d[2] # "tracked"}
    BY <1>1, <1>3 DEF HealReset, Without, Checkouts
  <2> QED BY <1>1, <1>3, <2>1 DEF HealReset, ArenaAt, ArenaInv
<1>4. CASE HealClean(w)
  <2>1. arena'.dirt = {d \in arena.dirt : d[2] # "untracked"}
    BY <1>1, <1>4 DEF HealClean, Without, Checkouts
  <2>2. arena'.dirt = {}
    BY <1>1, <1>4, <2>1 DEF HealClean, ArenaAt, ArenaInv, Dirt
  <2> QED BY <1>1, <1>4, <2>2 DEF HealClean, ArenaAt, ArenaInv
<1>5. CASE RecordHead(w)
  BY <1>1, <1>5 DEF RecordHead, ArenaAt, ArenaInv
<1>6. CASE CheckoutTask(w)
  <2>1. ~arena'.branch /\ arena'.head = job[w].commit /\ arena'.dirt = arena.dirt
    BY <1>1, <1>6 DEF CheckoutTask, Checkouts
  <2> QED BY <1>1, <1>6, <2>1 DEF CheckoutTask, ArenaAt, ArenaInv
<1>7. CASE LeaseFails(w)
  BY <1>1, <1>7 DEF LeaseFails, Over, ArenaAt, ArenaInv
<1> QED BY <1>2, <1>3, <1>4, <1>5, <1>6, <1>7 DEF Lease

\* Teardown leaves HEAD detached until its last command (arena.go, Teardown).
LEMMA TeardownKeepsArena ==
    ASSUME TypeInv, ByKind, ArenaInv, NEW w \in Workers, kind[w] = "arena", Teardown(w)
    PROVE  ArenaAt(w)' /\ tip' = Tip
<1> USE DEF Goto, Leased, Over
<1>1. pc \in [Workers -> Phases] /\ arena \in Checkouts /\ pc[w] \notin InSandbox
  BY DEF TypeInv, TypeOK, TaskTypes, CheckoutTypes, ByKind
<1>2. CASE ResetHome(w)
  BY <1>1, <1>2 DEF ResetHome, ArenaAt, ArenaInv
<1>3. CASE CleanHome(w) \/ Reattach(w) \/ TeardownFails(w)
  BY <1>1, <1>3 DEF CleanHome, Reattach, TeardownFails, ArenaAt, ArenaInv
<1>4. CASE RemoveSandbox(w) \/ PruneSandbox(w)
  BY <1>1, <1>4 DEF RemoveSandbox, PruneSandbox, InSandbox
<1> QED BY <1>2, <1>3, <1>4 DEF Teardown

\* The worker's writes, and those of its tests, are its own.
LEMMA WorkKeepsArena ==
    ASSUME TypeInv, ByKind, ArenaInv, NEW w \in Workers, kind[w] = "arena", Grade(w) \/ Loop(w)
    PROVE  ArenaAt(w)' /\ tip' = Tip
<1> USE DEF Goto, Leased
<1>1. /\ pc \in [Workers -> Phases] /\ arena \in Checkouts /\ pc[w] \notin InSandbox
      /\ job \in [Workers -> Jobs] /\ job[w] \in Jobs
  BY DEF TypeInv, TypeOK, TaskTypes, CheckoutTypes, ByKind
<1>2. pc[w] \in Leased /\ tip' = tip /\ kind' = kind
  BY <1>1
     DEF Grade, Loop, ApplyHeldOut, StartTests, GradeBaseline, GradeFinal, GradeDiff, StartLane,
         PollLane,
              StopLoop, CallBackend, FileTool, RunTestsTool, InSandbox
<1>3. ~arena.branch /\ arena.head = job[w].commit /\ \A d \in arena.dirt : d[1] = w
  BY <1>2 DEF ArenaInv, ArenaAt
<1>4. \E sorts : arena' = arena \/ arena' = [arena EXCEPT !.dirt = @ \cup ({w} \X sorts)]
  <2>1. CASE Grade(w)
    BY <2>1
       DEF Grade, ApplyHeldOut, StartTests, GradeBaseline, GradeFinal, GradeDiff, StartLane,
           PollLane,
                TestsEnd, Writes
  <2>2. CASE Loop(w)
    BY <2>2 DEF Loop, StopLoop, CallBackend, FileTool, RunTestsTool, TestsEnd, Writes
  <2> QED BY <2>1, <2>2
<1>5. ~arena'.branch /\ arena'.head = arena.head /\ \A d \in arena'.dirt : d[1] = w
  BY <1>1, <1>3, <1>4 DEF Checkouts
<1>6. pc'[w] \in Leased \cup {"reset"} /\ (pc'[w] # "reset" => job'[w].commit = job[w].commit)
  <2> USE DEF Return, AfterLoop
  <2>1. CASE ApplyHeldOut(w) \/ StartTests(w) \/ GradeDiff(w) \/ StartLane(w) \/ PollLane(w)
    BY <1>1, <1>2, <2>1 DEF ApplyHeldOut, StartTests, GradeDiff, StartLane, PollLane
  <2>2. CASE GradeBaseline(w) \/ GradeFinal(w)
    <3>1. CASE job' = [job EXCEPT ![w] = NoJob] /\ pc' = [pc EXCEPT ![w] = "reset"]
      BY <1>1, <3>1
    <3>2. ASSUME NEW new, job' = [job EXCEPT ![w].baseline = new] \/ job' = [job EXCEPT ![w].green = new]
          PROVE  job'[w].commit = job[w].commit
      BY <1>1, <3>2 DEF Jobs
    <3> QED BY <1>1, <2>2, <3>1, <3>2 DEF GradeBaseline, GradeFinal
  <2>3. CASE StopLoop(w) BY <1>1, <2>3 DEF StopLoop
  <2>4. CASE CallBackend(w)
    <3>1. PICK cost \in Costs, calls \in 0..MaxCalls, turn \in {0, 1} :
             /\ job' = [job EXCEPT ![w].tokens = @ + cost, ![w].turns = @ + turn, ![w].calls = calls]
             /\ IF calls = 0 THEN Goto(w, AfterLoop(w)) ELSE Goto(w, "tools")
      BY <2>4, AnswerTyped
    <3>2. job'[w] = [job[w] EXCEPT !.tokens = @ + cost, !.turns = @ + turn, !.calls = calls]
      BY <1>1, <3>1
    <3>3. job'[w].commit = job[w].commit
      BY <1>1, <3>2 DEF Jobs
    <3> QED BY <1>1, <3>1, <3>3
  <2>5. CASE FileTool(w) \/ RunTestsTool(w)
    <3>1. job' = [job EXCEPT ![w].calls = @ - 1] /\ pc' = [pc EXCEPT ![w] = IF job[w].calls = 1 THEN "loop" ELSE "tools"]
      BY <2>5 DEF FileTool, RunTestsTool, AfterCall
    <3>2. job'[w].commit = job[w].commit
      BY <1>1, <3>1 DEF Jobs
    <3> QED BY <1>1, <3>1, <3>2
  <2> QED BY <2>1, <2>2, <2>3, <2>4, <2>5 DEF Grade, Loop
<1> QED BY <1>2, <1>3, <1>5, <1>6 DEF ArenaAt, ArenaInv

\* A kill ends the leases of one process; what they changed is nobody's.
LEMMA KillKeepsArena ==
    ASSUME TypeInv, ArenaInv, NEW p \in Processes, Kill(p) PROVE ArenaInv'
<1>1. arena' = [arena EXCEPT !.dirt = LeftBy(WorkersOf(p))] /\ UNCHANGED <<kind, tip>>
  BY DEF Kill
<1>2. /\ arena'.branch = arena.branch /\ arena'.head = arena.head
      /\ arena'.dirt = LeftBy(WorkersOf(p)) /\ CheckoutTypes
  BY <1>1 DEF TypeInv, TypeOK, CheckoutTypes, Checkouts
<1>3. ASSUME NEW w \in Workers, kind[w] = "arena" PROVE ArenaAt(w)'
  <2>1. CASE w \in WorkersOf(p)
    <3>1. pc'[w] = "idle"
      BY <2>1 DEF Kill
    <3> QED BY <3>1 DEF ArenaAt, Leased
  <2>2. CASE w \notin WorkersOf(p)
    <3>1. pc'[w] = pc[w] /\ job'[w] = job[w]
      BY <2>2 DEF Kill
    <3>2. ArenaAt(w)
      BY <1>3 DEF ArenaInv
    <3>3. (\A d \in arena.dirt : d[1] = w) => \A d \in arena'.dirt : d[1] = w
      BY <1>2, <2>2, LeftByDirt
    <3>4. (\A d \in arena.dirt : d[2] # "tracked") => \A d \in arena'.dirt : d[2] # "tracked"
      BY <1>2, LeftByDirt
    <3>5. arena.dirt = {} => arena'.dirt = {}
      BY <1>2, LeftByDirt
    <3> QED BY <1>2, <3>1, <3>2, <3>3, <3>4, <3>5 DEF ArenaAt
  <2> QED BY <2>1, <2>2
<1> QED BY <1>1, <1>3 DEF ArenaInv

\* With one worker in the arena, no step breaks its lease.
LEMMA LeaseStep ==
    ASSUME TypeInv, LeaseInv, [Next]_vars PROVE LeaseInv'
<1>1. ASSUME NEW w \in Workers, StartTask(w) \/ TaskStep(w) PROVE LeaseInv'
  <2>1. ByKind' /\ kind' = kind
    <3>1. kind' = kind
      BY <1>1
         DEF StartTask, TaskStep, Lease, CheckStatus, HealReset, HealClean, RecordHead,
             CheckoutTask,
                  LeaseFails, Sandbox, CreateSandbox, CreateFails, Prep, Grade, ApplyHeldOut, StartTests,
                  GradeBaseline, GradeFinal, GradeDiff, StartLane, PollLane, Loop, StopLoop, CallBackend,
                  FileTool, RunTestsTool, Teardown, RemoveSandbox, PruneSandbox, ResetHome, CleanHome,
                  Reattach, TeardownFails
    <3> QED BY <1>1, <3>1, TaskKeepsKinds DEF LeaseInv
  <2>2. ASSUME OneArena PROVE ArenaInv'
    <3>1. ArenaInv
      BY <2>2 DEF LeaseInv
    <3>2. \A v \in Workers \ {w} : pc'[v] = pc[v] /\ job'[v] = job[v]
      BY <1>1, OneWorkerMoves DEF TypeInv
    <3>3. CASE kind[w] # "arena"
      <4>1. UNCHANGED <<arena, tip, kind>>
        BY <1>1, <3>3, SandboxesSpareArena
      <4> QED BY <3>1, <3>2, <3>3, <4>1 DEF ArenaInv, ArenaAt
    <3>4. CASE kind[w] = "arena"
      <4>1. ArenaAt(w)' /\ tip' = Tip
        <5>1. CASE StartTask(w)
          <6>1. pc'[w] = "status" /\ tip' = tip
            BY <3>4, <5>1 DEF StartTask, Goto, TypeInv, TypeOK, TaskTypes
          <6> QED BY <3>1, <6>1 DEF ArenaAt, ArenaInv, Leased
        <5>2. CASE Lease(w) BY <3>1, <3>4, <5>2, LeaseKeepsArena
        <5>3. CASE Sandbox(w)
          BY <3>4, <5>3 DEF Sandbox, CreateSandbox, CreateFails, Prep, LeaseInv, ByKind, InSandbox
        <5>4. CASE Grade(w) \/ Loop(w) BY <3>1, <3>4, <5>4, WorkKeepsArena DEF LeaseInv
        <5>5. CASE Teardown(w) BY <3>1, <3>4, <5>5, TeardownKeepsArena DEF LeaseInv
        <5> QED BY <1>1, <5>1, <5>2, <5>3, <5>4, <5>5 DEF TaskStep
      <4>2. \A v \in Workers : kind[v] = "arena" => v = w
        BY <2>2, <3>4 DEF OneArena
      <4> QED BY <2>1, <4>1, <4>2 DEF ArenaInv
    <3> QED BY <3>3, <3>4
  <2> QED BY <2>1, <2>2 DEF LeaseInv, OneArena
<1>2. ASSUME NEW p \in Processes, SittingStep(p) PROVE LeaseInv'
  <2>1. UNCHANGED <<kind, pc, job, arena, tip>>
    BY <1>2 DEF SittingStep, StartSitting, SweepBox, SweepEnds, EndSitting
  <2>2. \A w \in Workers : kind[w] = None => todo'[w] = todo[w]
    BY <1>2 DEF SittingStep, StartSitting, SweepBox, SweepEnds, EndSitting
  <2> QED BY <2>1, <2>2 DEF LeaseInv, ByKind, OneArena, ArenaInv, ArenaAt
<1>3. ASSUME NEW p \in Processes, Kill(p) PROVE LeaseInv'
  <2>1. /\ kind' = kind
        /\ \A w \in Workers : (w \in WorkersOf(p) => pc'[w] = "idle" /\ todo'[w] = 0)
        /\ \A w \in Workers : (w \notin WorkersOf(p) => pc'[w] = pc[w] /\ todo'[w] = todo[w])
    BY <1>3 DEF Kill
  <2>2. ByKind'
    BY <2>1 DEF LeaseInv, ByKind, InArena, InSandbox
  <2> QED BY <1>3, <2>1, <2>2, KillKeepsArena DEF LeaseInv, OneArena
<1>4. CASE Tick \/ LaneEnds \/ UNCHANGED vars
  BY <1>4 DEF Tick, LaneEnds, LeaseInv, ByKind, OneArena, ArenaInv, ArenaAt
<1>5. ASSUME NEW w \in Workers, LaneHangs(w) PROVE LeaseInv'
  <2>1. ByKind'
    BY <1>5, HangMoves DEF LeaseInv, ByKind, InArena, InSandbox
  <2>2. ASSUME ArenaInv PROVE ArenaInv'
    BY <1>5, <2>2, HangMoves DEF ArenaInv, ArenaAt, Leased
  <2> QED BY <1>5, <2>1, <2>2, HangMoves DEF LeaseInv, OneArena
<1> QED BY <1>1, <1>2, <1>3, <1>4, <1>5 DEF Next

\* Leases start as they should: no task runs yet.
LEMMA LeaseHolds == Spec => []LeaseInv
<1>1. Init => LeaseInv
  BY DEF Init, LeaseInv, ByKind, ArenaInv, ArenaAt, InArena, InSandbox, Leased
<1>2. TypeInv /\ LeaseInv /\ [Next]_vars => LeaseInv'
  BY LeaseStep
<1> QED BY <1>1, <1>2, TypeInvHolds, PTL DEF Spec

\* While an arena task works, the checkout is detached at its commit and holds
\* its own changes only, after any kill and any failed command of an earlier
\* teardown (arena.go: healArena, NewArenaSandbox).
THEOREM LeasesStartClean == Spec => []LeaseIsClean
<1>1. LeaseInv => LeaseIsClean
  BY DEF LeaseInv, ArenaInv, ArenaAt, LeaseIsClean
<1> QED BY <1>1, LeaseHolds, PTL

\* The branch of the arena keeps its commit: teardown's git reset --hard runs
\* on a detached HEAD only (arena.go, Teardown).
THEOREM BranchKept == Spec => []BranchStays
<1>1. LeaseInv => BranchStays
  BY DEF LeaseInv, ArenaInv, BranchStays
<1> QED BY <1>1, LeaseHolds, PTL

-----------------------------------------------------------------------------
(***************************************************************************)
(* ArenaComesHome: what a lease recorded, and how far teardown has got.    *)
(***************************************************************************)
AtHome == arena.branch = home.branch /\ arena.head = home.head /\ arena.dirt = {}

Away == Leased \cup {"reset", "clean", "reattach"}

HomeAt(w) ==
    /\ pc[w] \notin Away => AtHome
    /\ pc[w] \in Away \cup {"checkout"} => lease[w] = [branch |-> home.branch, sha |-> home.head]
    /\ pc[w] \in {"clean", "reattach"} => ~arena.branch /\ arena.head = home.head
    /\ pc[w] = "clean" => \A d \in arena.dirt : d[2] # "tracked"
    /\ pc[w] = "reattach" => arena.dirt = {}

\* Nobody uses the arena, or the one that does takes it back.
HomeInv ==
    /\ home.branch => home.head = Tip
    /\ OneArena /\ kills = 0 /\ faults = 0 =>
          /\ (\A w \in Workers : kind[w] # "arena") => AtHome
          /\ \A w \in Workers : kind[w] = "arena" => HomeAt(w)

\* A task records and clears its own lease, and never touches where home is.
LEMMA HomeFrame ==
    ASSUME TypeInv, NEW w \in Workers, StartTask(w) \/ TaskStep(w)
    PROVE  /\ UNCHANGED <<home, kind, kills>> /\ \A v \in Workers \ {w} : lease'[v] = lease[v]
           /\ UNCHANGED faults \/ faults' = faults + 1
<1> USE DEF Over, GitFails, TypeInv, TypeOK, CheckoutTypes
<1>1. CASE StartTask(w) BY <1>1 DEF StartTask
<1>2. CASE Lease(w)
  BY <1>2 DEF Lease, CheckStatus, HealReset, HealClean, RecordHead, CheckoutTask, LeaseFails
<1>3. CASE Sandbox(w) BY <1>3 DEF Sandbox, CreateSandbox, CreateFails, Prep
<1>4. CASE Grade(w)
  BY <1>4
     DEF Grade, ApplyHeldOut, StartTests, GradeBaseline, GradeFinal, GradeDiff, StartLane,
         PollLane
<1>5. CASE Loop(w) BY <1>5 DEF Loop, StopLoop, CallBackend, FileTool, RunTestsTool
<1>6. CASE Teardown(w)
  BY <1>6 DEF Teardown, RemoveSandbox, PruneSandbox, ResetHome, CleanHome, Reattach, TeardownFails
<1> QED BY <1>1, <1>2, <1>3, <1>4, <1>5, <1>6 DEF TaskStep

\* A lease of a clean arena at home records home (arena.go, NewArenaSandbox).
LEMMA LeaseFromHome ==
    ASSUME TypeInv, NEW w \in Workers, kind[w] = "arena", HomeAt(w), Lease(w), UNCHANGED <<faults, home>>
    PROVE  HomeAt(w)'
<1> USE DEF Goto, Leased, Away
<1>1. /\ pc \in [Workers -> Phases] /\ arena \in Checkouts /\ lease \in [Workers -> [branch : BOOLEAN, sha : Commits]]
      /\ arena.dirt \in SUBSET ((Workers \cup {None}) \X Dirt) /\ faults \in Nat
  BY Bounds DEF TypeInv, TypeOK, TaskTypes, CheckoutTypes, Checkouts
<1>2. CASE CheckStatus(w)
  BY <1>1, <1>2 DEF CheckStatus, Dirty, HomeAt, AtHome
<1>3. CASE HealReset(w)
  BY <1>1, <1>3 DEF HealReset, Without, Checkouts, HomeAt, AtHome
<1>4. CASE HealClean(w)
  BY <1>1, <1>4 DEF HealClean, Without, Checkouts, HomeAt, AtHome
<1>5. CASE RecordHead(w)
  BY <1>1, <1>5 DEF RecordHead, HomeAt, AtHome
<1>6. CASE CheckoutTask(w)
  BY <1>1, <1>6 DEF CheckoutTask, HomeAt, AtHome
<1>7. CASE LeaseFails(w)
  BY <1>1, <1>7 DEF LeaseFails, GitFails
<1> QED BY <1>2, <1>3, <1>4, <1>5, <1>6, <1>7 DEF Lease

\* While it works the lease keeps what it recorded.
LEMMA WorkKeepsLease ==
    ASSUME TypeInv, ByKind, NEW w \in Workers, kind[w] = "arena", HomeAt(w), Grade(w) \/ Loop(w), UNCHANGED home
    PROVE  HomeAt(w)'
<1> USE DEF Goto, Leased, Away
<1>1. pc \in [Workers -> Phases] /\ pc[w] \notin InSandbox
  BY DEF TypeInv, TypeOK, TaskTypes, ByKind
<1>2. pc[w] \in Leased /\ lease' = lease
  BY <1>1
     DEF Grade, Loop, ApplyHeldOut, StartTests, GradeBaseline, GradeFinal, GradeDiff, StartLane,
         PollLane, StopLoop, CallBackend, FileTool, RunTestsTool, TestsEnd, InSandbox
<1>3. pc'[w] \in Leased \cup {"reset"}
  <2> USE DEF Return, AfterLoop
  <2>1. CASE Grade(w)
    BY <1>1, <2>1
       DEF Grade, ApplyHeldOut, StartTests, GradeBaseline, GradeFinal, GradeDiff, StartLane,
           PollLane, InSandbox
  <2>2. CASE Loop(w)
    BY <1>1, <2>2 DEF Loop, StopLoop, CallBackend, FileTool, RunTestsTool, AfterCall
  <2> QED BY <2>1, <2>2
<1> QED BY <1>2, <1>3 DEF HomeAt

\* Teardown without a failing command takes the arena home (arena.go, Teardown).
LEMMA TeardownGoesHome ==
    ASSUME TypeInv, ByKind, ArenaInv, NEW w \in Workers, kind[w] = "arena", HomeAt(w), Teardown(w),
           home.branch => home.head = Tip, UNCHANGED <<faults, home>>
    PROVE  HomeAt(w)'
<1> USE DEF Goto, Leased, Away, Over
<1>1. /\ pc \in [Workers -> Phases] /\ arena \in Checkouts /\ home \in Checkouts
      /\ lease \in [Workers -> [branch : BOOLEAN, sha : Commits]] /\ pc[w] \notin InSandbox
      /\ arena.dirt \in SUBSET ((Workers \cup {None}) \X Dirt) /\ faults \in Nat
  BY Bounds DEF TypeInv, TypeOK, TaskTypes, CheckoutTypes, Checkouts, ByKind
<1>2. CASE ResetHome(w)
  <2>1. /\ arena'.branch = arena.branch /\ arena'.head = lease[w].sha
        /\ arena'.dirt = {d \in arena.dirt : d[2] # "tracked"}
    BY <1>1, <1>2 DEF ResetHome, Without, Checkouts
  <2>2. ~arena.branch /\ pc'[w] = "clean" /\ UNCHANGED lease /\ pc[w] = "reset"
    BY <1>1, <1>2 DEF ResetHome, ArenaInv, ArenaAt
  <2> QED BY <2>1, <2>2 DEF HomeAt
<1>3. CASE CleanHome(w)
  <2>1. /\ arena'.branch = arena.branch /\ arena'.head = arena.head
        /\ arena'.dirt = {d \in arena.dirt : d[2] # "untracked"}
    BY <1>1, <1>3 DEF CleanHome, Without, Checkouts
  <2>2. pc[w] = "clean" /\ pc'[w] = "reattach" /\ UNCHANGED lease
    BY <1>1, <1>3 DEF CleanHome
  <2>3. arena'.dirt = {}
    BY <1>1, <2>1, <2>2 DEF HomeAt, Dirt
  <2> QED BY <2>1, <2>2, <2>3 DEF HomeAt
<1>4. CASE Reattach(w)
  <2>1. /\ pc[w] = "reattach" /\ pc'[w] = "idle" /\ tip = Tip
        /\ arena' = [(IF lease[w].branch THEN [arena EXCEPT !.branch = TRUE, !.head = tip] ELSE arena)
                        EXCEPT !.dirt = LeftBy({w})]
    BY <1>1, <1>4 DEF Reattach, ArenaInv
  <2>2. ~arena.branch /\ arena.head = home.head /\ arena.dirt = {} /\ lease[w].branch = home.branch
    BY <2>1 DEF HomeAt
  <2>3. LeftBy({w}) = {}
    BY <2>2, LeftByDirt DEF TypeInv, TypeOK
  <2>4. arena'.branch = home.branch /\ arena'.head = home.head /\ arena'.dirt = {}
    <3>1. CASE home.branch
      BY <1>1, <2>1, <2>2, <2>3, <3>1 DEF Checkouts
    <3>2. CASE ~home.branch
      BY <1>1, <2>1, <2>2, <2>3, <3>2 DEF Checkouts
    <3> QED BY <3>1, <3>2
  <2> QED BY <2>1, <2>4 DEF HomeAt, AtHome
<1>5. CASE TeardownFails(w)
  BY <1>1, <1>5 DEF TeardownFails, GitFails
<1>6. CASE RemoveSandbox(w) \/ PruneSandbox(w)
  BY <1>1, <1>6 DEF RemoveSandbox, PruneSandbox, InSandbox
<1> QED BY <1>2, <1>3, <1>4, <1>5, <1>6 DEF Teardown

\* A step keeps the arena at home, or on its way there.
LEMMA HomeStep ==
    ASSUME TypeInv, LeaseInv, HomeInv, [Next]_vars PROVE HomeInv'
<1>1. kills \in Nat /\ faults \in Nat
  BY Bounds DEF TypeInv, TypeOK
<1>2. ASSUME NEW w \in Workers, StartTask(w) \/ TaskStep(w) PROVE HomeInv'
  <2>1. UNCHANGED <<home, kind, kills>> /\ \A v \in Workers \ {w} : lease'[v] = lease[v]
    BY <1>2, HomeFrame
  <2>2. \A v \in Workers \ {w} : pc'[v] = pc[v]
    BY <1>2, OneWorkerMoves DEF TypeInv
  <2>3. ASSUME OneArena, kills = 0, faults' = 0
        PROVE  /\ (\A v \in Workers : kind[v] # "arena") => AtHome'
               /\ \A v \in Workers : kind[v] = "arena" => HomeAt(v)'
    <3>1. UNCHANGED faults
      BY <1>1, <1>2, <2>3, HomeFrame
    <3>2. ArenaInv /\ ByKind
      BY <2>3 DEF LeaseInv
    <3>3. /\ home.branch => home.head = Tip
          /\ (\A v \in Workers : kind[v] # "arena") => AtHome
          /\ \A v \in Workers : kind[v] = "arena" => HomeAt(v)
      BY <2>3, <3>1 DEF HomeInv
    <3>4. CASE kind[w] # "arena"
      <4>1. UNCHANGED arena
        BY <1>2, <3>4, SandboxesSpareArena
      <4> QED BY <2>1, <2>2, <3>3, <3>4, <4>1 DEF AtHome, HomeAt
    <3>5. CASE kind[w] = "arena"
      <4>1. HomeAt(w)'
        <5>1. CASE StartTask(w)
          <6>1. pc[w] = "idle" /\ pc'[w] = "status" /\ UNCHANGED <<arena, home>>
            BY <3>5, <5>1 DEF StartTask, Goto, TypeInv, TypeOK, TaskTypes
          <6> QED BY <3>3, <3>5, <6>1 DEF HomeAt, AtHome, Away, Leased
        <5>2. CASE Lease(w) BY <2>1, <3>1, <3>3, <3>5, <5>2, LeaseFromHome
        <5>3. CASE Sandbox(w)
          BY <3>2, <3>5, <5>3 DEF Sandbox, CreateSandbox, CreateFails, Prep, ByKind, InSandbox
        <5>4. CASE Grade(w) \/ Loop(w) BY <2>1, <3>2, <3>3, <3>5, <5>4, WorkKeepsLease
        <5>5. CASE Teardown(w) BY <2>1, <3>1, <3>2, <3>3, <3>5, <5>5, TeardownGoesHome
        <5> QED BY <1>2, <5>1, <5>2, <5>3, <5>4, <5>5 DEF TaskStep
      <4>2. \A v \in Workers : kind[v] = "arena" => v = w
        BY <2>3, <3>5 DEF OneArena
      <4> QED BY <3>5, <4>1, <4>2
    <3> QED BY <3>4, <3>5
  <2> QED BY <2>1, <2>3 DEF HomeInv, OneArena
<1>3. ASSUME NEW p \in Processes, SittingStep(p) PROVE HomeInv'
  <2>1. UNCHANGED <<kind, pc, arena, home, lease, kills, faults>>
    BY <1>3 DEF SittingStep, StartSitting, SweepBox, SweepEnds, EndSitting
  <2> QED BY <2>1 DEF HomeInv, OneArena, AtHome, HomeAt
<1>4. ASSUME NEW p \in Processes, Kill(p) PROVE HomeInv'
  BY <1>1, <1>4 DEF Kill, HomeInv
<1>5. CASE Tick \/ LaneEnds \/ UNCHANGED vars
  BY <1>5 DEF Tick, LaneEnds, HomeInv, OneArena, AtHome, HomeAt
<1>6. ASSUME NEW w \in Workers, LaneHangs(w) PROVE HomeInv'
  BY <1>6, HangMoves DEF HomeInv, OneArena, AtHome, HomeAt, Away, Leased
<1> QED BY <1>2, <1>3, <1>4, <1>5, <1>6 DEF Next

\* A sitting nobody killed and no command failed in leaves the arena as it
\* found it, on its branch or detached, with nothing of a task in it (arena.go,
\* Teardown).
THEOREM ComesHome == Spec => []ArenaComesHome
<1>1. Init => HomeInv
  BY DEF Init, HomeInv, HomeAt, AtHome, Away, Leased
<1>2. TypeInv /\ LeaseInv /\ HomeInv /\ [Next]_vars => HomeInv'
  BY HomeStep
<1>3. HomeInv => ArenaComesHome
  <2> SUFFICES ASSUME HomeInv, OneArena, kills = 0, faults = 0,
                      \A w \in Workers : kind[w] = "arena" => pc[w] \notin Away
               PROVE  AtHome
    BY DEF ArenaComesHome, Away, AtHome, Dirty
  <2>1. CASE \A w \in Workers : kind[w] # "arena"
    BY <2>1 DEF HomeInv
  <2>2. CASE \E w \in Workers : kind[w] = "arena"
    BY <2>2 DEF HomeInv, HomeAt
  <2> QED BY <2>1, <2>2
<1> QED BY <1>1, <1>2, <1>3, TypeInvHolds, LeaseHolds, PTL DEF Spec

-----------------------------------------------------------------------------
\* With one worker in the arena, its tasks start clean and its branch stays.
THEOREM ArenaIsKept == Spec => []ArenaKept
  BY LeasesStartClean, BranchKept, PTL DEF ArenaKept
=============================================================================
