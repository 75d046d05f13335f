--------------------------- MODULE RunPoolsProofs ---------------------------
(***************************************************************************)
(* Theorems about RunPools, for any number of tasks and of judge workers,  *)
(* any ladder and any number of failing statements.                        *)
(***************************************************************************)
EXTENDS RunPools, FiniteSetTheorems, SequenceTheorems, TLAPS

USE DEF vars, book, arena, judge

-----------------------------------------------------------------------------
(***************************************************************************)
(* The ladder.                                                             *)
(***************************************************************************)
LEMMA ScoredTyped ==
    ASSUME NEW tally \in Tallies, NEW passed \in BOOLEAN
    PROVE  Scored(tally, passed) \in Tallies
<1>1. tally.n \in Nat /\ tally.passed \in Nat /\ tally.consecutiveFails \in Nat
  BY DEF Tallies
<1>2. tally.n + 1 \in Nat /\ tally.consecutiveFails + 1 \in Nat /\ tally.passed + 1 \in Nat /\ tally.passed + 0 \in Nat
  BY <1>1
<1>3. CASE passed
  BY <1>1, <1>2, <1>3 DEF Scored, Tallies
<1>4. CASE ~passed
  BY <1>1, <1>2, <1>4 DEF Scored, Tallies
<1> QED
  BY <1>3, <1>4

\* Recording a result at a rung changes its tally, and the abandonment to
\* that rung or not at all.
LEMMA RecordCases ==
    ASSUME NEW ts \in TrackStates, NEW rung \in Rungs, NEW passed \in BOOLEAN
    PROVE  /\ Record(ts, rung, passed) \in TrackStates
           /\ \/ Record(ts, rung, passed).abandonFrom = ts.abandonFrom
              \/ Allowed(ts, rung) /\ Record(ts, rung, passed).abandonFrom = rung
<1> DEFINE tally == Scored(ts.rungs[rung], passed)
           counted == [ts EXCEPT !.rungs[rung] = tally]
           why == StopReason(tally)
<1>1. tally \in Tallies
  BY ScoredTyped DEF TrackStates
<1>2. counted \in TrackStates /\ counted.abandonFrom = ts.abandonFrom
  BY <1>1 DEF TrackStates
<1>3. why \in {"", "futility", "wilson_upper"}
  BY DEF StopReason
<1>4. CASE Allowed(ts, rung) /\ why # ""
  <2>1. Record(ts, rung, passed) = [counted EXCEPT !.abandonFrom = rung, !.abandonWhy = why]
    BY <1>4 DEF Record
  <2> HIDE DEF counted, why
  <2> QED
    BY <2>1, <1>2, <1>3, <1>4 DEF TrackStates
<1>5. CASE ~(Allowed(ts, rung) /\ why # "")
  BY <1>2, <1>5 DEF Record
<1> QED
  BY <1>4, <1>5

\* What a track has abandoned stays abandoned.
LEMMA RecordKeepsAbandoned ==
    ASSUME NEW ts \in TrackStates, NEW rung \in Rungs, NEW passed \in BOOLEAN,
           NEW r \in Rungs, ~Allowed(ts, r)
    PROVE  ~Allowed(Record(ts, rung, passed), r)
<1>1. ts.abandonFrom \in {0} \cup Rungs
  BY DEF TrackStates
<1>2. ts.abandonFrom \in 1..6 /\ ts.abandonFrom <= r
  BY <1>1 DEF Allowed, Rungs
<1> DEFINE from == Record(ts, rung, passed).abandonFrom
<1>3. from = ts.abandonFrom \/ (Allowed(ts, rung) /\ from = rung)
  BY RecordCases
<1>4. from = ts.abandonFrom \/ (rung < ts.abandonFrom /\ from = rung)
  BY <1>2, <1>3 DEF Allowed
<1>5. from # 0 /\ from <= r
  <2> HIDE DEF from
  <2> QED
    BY <1>2, <1>4 DEF Rungs
<1>6. ~(from = 0 \/ r < from)
  <2> HIDE DEF from
  <2>1. from \in Int
    BY <1>2, <1>4 DEF Rungs
  <2> QED
    BY <1>5, <2>1 DEF Rungs
<1> QED
  BY <1>6 DEF Allowed

-----------------------------------------------------------------------------
(***************************************************************************)
(* runState: its two operations keep the types of what they write.         *)
(***************************************************************************)
BookTyped ==
    /\ ladder \in [Tracks -> TrackStates]
    /\ tokens \in Nat /\ budgetExceeded \in BOOLEAN
    /\ totals \in [scored : Nat, passed : Nat, skipped : Nat]
    /\ results \in Seq(Rows)
    /\ ready \in [Tasks -> BOOLEAN]
    /\ faults \in 0..MaxFaults

LEMMA OutcomeTyped ==
    ASSUME NEW o \in Outcomes
    PROVE  o.passed \in BOOLEAN /\ o.ready \in BOOLEAN /\ o.cost \in Nat
<1>1. CASE o \in [passed : BOOLEAN, ready : {TRUE}, cost : Costs]
  <2>1. o.passed \in BOOLEAN /\ o.ready \in {TRUE} /\ o.cost \in Costs
    BY <1>1
  <2> QED
    BY <2>1, PoolsAssumption
<1>2. CASE o = [passed |-> FALSE, ready |-> FALSE, cost |-> 0]
  BY <1>2
<1> QED
  BY <1>1, <1>2 DEF Outcomes

LEMMA InitialTrack == NewTrack \in TrackStates
BY DEF NewTrack, TrackStates, Tallies, Rungs

LEMMA TaskTyped ==
    ASSUME task \in [Tasks -> ScheduledTasks], NEW t \in Tasks
    PROVE  task[t].track \in Tracks /\ task[t].rung \in Rungs /\ task[t].tested \in BOOLEAN
BY DEF ScheduledTasks

LEMMA FaultTyped ==
    ASSUME BookTyped, StatementFails
    PROVE  faults' \in 0..MaxFaults
BY PoolsAssumption DEF BookTyped, StatementFails

LEMMA DispatchTyped ==
    ASSUME BookTyped, NEW t \in Tasks,
           DispatchRuns(t) \/ DispatchSkips(t) \/ DispatchFails(t)
    PROVE  BookTyped'
<1>1. CASE DispatchRuns(t)
  BY <1>1 DEF DispatchRuns, BookTyped
<1>2. CASE DispatchSkips(t)
  <2>1. results' \in Seq(Rows)
    BY <1>2 DEF DispatchSkips, BookTyped, Rows
  <2>2. totals' \in [scored : Nat, passed : Nat, skipped : Nat]
    BY <1>2 DEF DispatchSkips, BookTyped
  <2> QED
    BY <1>2, <2>1, <2>2 DEF DispatchSkips, BookTyped
<1>3. CASE DispatchFails(t)
  BY <1>3, FaultTyped DEF DispatchFails, BookTyped
<1> QED
  BY <1>1, <1>2, <1>3

LEMMA CompleteTyped ==
    ASSUME BookTyped, task \in [Tasks -> ScheduledTasks],
           NEW t \in Tasks, NEW o \in Outcomes, Complete(t, o) \/ CompleteFails(t, o)
    PROVE  BookTyped'
<1>0. o.passed \in BOOLEAN /\ o.ready \in BOOLEAN /\ o.cost \in Nat
  BY OutcomeTyped
<1>1. CASE Complete(t, o)
  <2>1. results' \in Seq(Rows)
    BY <1>0, <1>1 DEF Complete, BookTyped, Rows
  <2>2. totals' \in [scored : Nat, passed : Nat, skipped : Nat]
    <3>1. totals.scored + 1 \in Nat /\ totals.passed + 1 \in Nat /\ totals.passed + 0 \in Nat
      BY DEF BookTyped
    <3>2. CASE o.passed
      BY <1>1, <3>1, <3>2 DEF Complete, BookTyped
    <3>3. CASE ~o.passed
      BY <1>1, <3>1, <3>3 DEF Complete, BookTyped
    <3> QED
      BY <1>0, <3>2, <3>3
  <2>3. ladder' \in [Tracks -> TrackStates]
    <3>1. task[t].track \in Tracks /\ task[t].rung \in Rungs
      BY TaskTyped
    <3>2. Record(ladder[task[t].track], task[t].rung, o.passed) \in TrackStates
      BY <1>0, <3>1, RecordCases DEF BookTyped
    <3> QED
      BY <1>1, <3>1, <3>2 DEF Complete, BookTyped
  <2>4. tokens' \in Nat /\ budgetExceeded' \in BOOLEAN
    BY <1>0, <1>1 DEF Complete, BookTyped
  <2>5. ready' \in [Tasks -> BOOLEAN]
    BY <1>0, <1>1 DEF Complete, BookTyped
  <2> QED
    BY <1>1, <2>1, <2>2, <2>3, <2>4, <2>5 DEF Complete, BookTyped
<1>2. CASE CompleteFails(t, o)
  <2>1. ready' \in [Tasks -> BOOLEAN]
    BY <1>0, <1>2 DEF CompleteFails, BookTyped
  <2> QED
    BY <1>2, <2>1, FaultTyped DEF CompleteFails, BookTyped
<1> QED
  BY <1>1, <1>2

-----------------------------------------------------------------------------
(***************************************************************************)
(* Types. The slots taken are those of the goroutines and of the loop, so  *)
(* that one is there to be released.                                       *)
(***************************************************************************)
Held == {t \in Tasks : worker[t] # "idle"}

Slots ==
    /\ sem = Cardinality(Held) + (IF dispatcher = "holding" THEN 1 ELSE 0)
    /\ \A t \in judgeTodo : worker[t] = "idle"

PoolTyped ==
    /\ arenaTodo \subseteq Tasks /\ arenaTask \in Tasks \cup {None} /\ arenaFailed \in BOOLEAN
    /\ judgeTodo \subseteq Tasks
    /\ dispatcher \in {"next", "holding", "failed", "ended"}
    /\ sem \in 0..Parallelism
    /\ worker \in [Tasks -> {"idle", "running", "failed"}]
    /\ errs \in Nat
    /\ run \in {"pools", "failed", "summarised"}

LEMMA TypeParts == TypeOK <=> task \in [Tasks -> ScheduledTasks] /\ BookTyped /\ PoolTyped
BY DEF TypeOK, BookTyped, PoolTyped

LEMMA HeldFinite == IsFiniteSet(Held) /\ Cardinality(Held) \in Nat
<1>1. IsFiniteSet(Tasks)
  BY FS_Interval, PoolsAssumption DEF Tasks
<1> QED
  BY <1>1, FS_Subset, FS_CardinalityType DEF Held

\* A goroutine starts, or ends.
LEMMA HeldMore ==
    ASSUME PoolTyped, NEW t \in Tasks, worker[t] = "idle",
           worker' = [worker EXCEPT ![t] = "running"]
    PROVE  Cardinality(Held') = Cardinality(Held) + 1
<1>1. Held' = Held \cup {t} /\ t \notin Held
  BY DEF Held, PoolTyped
<1> QED
  BY <1>1, HeldFinite, FS_AddElement

LEMMA HeldLess ==
    ASSUME PoolTyped, NEW t \in Tasks, worker[t] # "idle",
           worker' = [worker EXCEPT ![t] = "idle"]
    PROVE  Cardinality(Held') = Cardinality(Held) - 1 /\ Cardinality(Held) >= 1
<1>1. Held' = Held \ {t} /\ t \in Held
  BY DEF Held, PoolTyped
<1>2. Cardinality(Held') = Cardinality(Held) - 1
  BY <1>1, HeldFinite, FS_RemoveElement
<1>3. IsFiniteSet(Held') /\ Cardinality(Held') \in Nat
  BY <1>1, HeldFinite, FS_Subset, FS_CardinalityType
<1> QED
  BY <1>2, <1>3, HeldFinite

LEMMA InitTyped == Init => TypeOK /\ Slots
<1> SUFFICES ASSUME Init PROVE TypeOK /\ Slots
  OBVIOUS
<1>1. task \in [Tasks -> ScheduledTasks]
  <2>1. PICK track \in [Tasks -> Tracks], profile \in [Tasks -> Profiles], tested \in [Tasks -> BOOLEAN] :
            task = [t \in Tasks |-> Scheduled(track[t], profile[t], tested[t])]
    BY DEF Init
  <2>2. \A t \in Tasks : Scheduled(track[t], profile[t], tested[t]) \in ScheduledTasks
    <3> SUFFICES ASSUME NEW t \in Tasks
                 PROVE  Scheduled(track[t], profile[t], tested[t]) \in ScheduledTasks
      OBVIOUS
    <3>1. profile[t].difficulty \in {"simple", "unknown", "challenging"} /\ profile[t].small \in BOOLEAN
      BY PoolsAssumption
    <3>2. Rung(profile[t].difficulty, profile[t].small) \in Rungs
      BY <3>1 DEF Rung, Rungs
    <3> QED
      BY <3>2 DEF Scheduled, ScheduledTasks
  <2> QED
    BY <2>1, <2>2
<1>2. BookTyped
  <2>1. ladder \in [Tracks -> TrackStates]
    BY InitialTrack DEF Init
  <2>2. results \in Seq(Rows) /\ ready \in [Tasks -> BOOLEAN]
    BY DEF Init
  <2> QED
    <3>1. faults \in 0..MaxFaults
      BY PoolsAssumption DEF Init
    <3> QED
      BY <2>1, <2>2, <3>1 DEF Init, BookTyped
<1>3. PoolTyped
  <2>1. sem \in 0..Parallelism
    BY PoolsAssumption DEF Init
  <2>2. worker \in [Tasks -> {"idle", "running", "failed"}]
    BY DEF Init
  <2> QED
    BY <2>1, <2>2 DEF Init, PoolTyped
<1>4. Held = {}
  BY DEF Init, Held
<1> QED
  BY <1>1, <1>2, <1>3, <1>4, TypeParts, FS_EmptySet DEF Init, Slots

LEMMA NextTyped == TypeOK /\ Slots /\ [Next]_vars => TypeOK' /\ Slots'
<1> SUFFICES ASSUME TypeOK, Slots, [Next]_vars
             PROVE  TypeOK' /\ Slots'
  OBVIOUS
<1>0. task \in [Tasks -> ScheduledTasks] /\ BookTyped /\ PoolTyped
  BY TypeParts
<1> USE <1>0
<1>1. ASSUME NEW t \in Tasks, SerialDispatch(t)
      PROVE  TypeOK' /\ Slots'
  <2>1. BookTyped'
    BY <1>1, DispatchTyped DEF SerialDispatch
  <2>2. PoolTyped' /\ task' \in [Tasks -> ScheduledTasks]
    BY <1>1 DEF SerialDispatch, PoolTyped
  <2>3. Slots'
    BY <1>1 DEF SerialDispatch, Slots, Held
  <2> QED
    BY <2>1, <2>2, <2>3, TypeParts DEF TypeOK, BookTyped, PoolTyped
<1>2. ASSUME NEW t \in Tasks, SerialComplete(t)
      PROVE  TypeOK' /\ Slots'
  <2>1. BookTyped'
    BY <1>2, CompleteTyped DEF SerialComplete
  <2>2. PoolTyped' /\ task' \in [Tasks -> ScheduledTasks]
    BY <1>2 DEF SerialComplete, PoolTyped
  <2>3. Slots'
    BY <1>2 DEF SerialComplete, Slots, Held
  <2> QED
    BY <2>1, <2>2, <2>3 DEF TypeOK, BookTyped, PoolTyped
<1>3. ASSUME AcquireSlot PROVE TypeOK' /\ Slots'
  <2>1. BookTyped' /\ task' \in [Tasks -> ScheduledTasks]
    BY <1>3 DEF AcquireSlot, BookTyped
  <2>2. PoolTyped'
    BY <1>3, PoolsAssumption DEF AcquireSlot, PoolTyped
  <2>3. Slots'
    BY <1>3, HeldFinite DEF AcquireSlot, Slots, Held
  <2> QED
    BY <2>1, <2>2, <2>3 DEF TypeOK, BookTyped, PoolTyped
<1>4. ASSUME NEW t \in Tasks, JudgeDispatch(t)
      PROVE  TypeOK' /\ Slots'
  <2>1. BookTyped' /\ task' \in [Tasks -> ScheduledTasks]
    BY <1>4, DispatchTyped DEF JudgeDispatch
  <2>2. sem = Cardinality(Held) + 1 /\ worker[t] = "idle" /\ sem - 1 \in 0..Parallelism
    BY <1>4, HeldFinite, PoolsAssumption DEF JudgeDispatch, FirstOf, Slots, PoolTyped
  <2>3. CASE dispatcher' = "next" /\ worker' = [worker EXCEPT ![t] = "running"] /\ UNCHANGED sem
    <3>1. PoolTyped'
      <4>1. judgeTodo' \subseteq Tasks /\ UNCHANGED <<arenaTodo, arenaTask, arenaFailed, errs, run>>
        BY <1>4 DEF JudgeDispatch, PoolTyped, arena
      <4>2. worker' \in [Tasks -> {"idle", "running", "failed"}]
        BY <2>3 DEF PoolTyped
      <4> QED
        BY <2>3, <4>1, <4>2 DEF PoolTyped
    <3>2. Cardinality(Held') = Cardinality(Held) + 1
      BY <2>2, <2>3, HeldMore
    <3>3. \A u \in judgeTodo' : worker'[u] = "idle"
      BY <1>4, <2>3 DEF JudgeDispatch, Slots, PoolTyped
    <3> QED
      <4>1. TypeOK'
        BY <2>1, <3>1 DEF TypeOK, BookTyped, PoolTyped
      <4>2. sem' = Cardinality(Held')
        BY <2>2, <2>3, <3>2, HeldFinite
      <4> QED
        BY <2>3, <3>3, <4>1, <4>2, HeldFinite DEF Slots
  <2>4. CASE dispatcher' \in {"next", "failed"} /\ sem' = sem - 1 /\ UNCHANGED worker
    <3>1. PoolTyped'
      BY <1>4, <2>2, <2>4 DEF JudgeDispatch, PoolTyped
    <3>2. Held' = Held /\ \A u \in judgeTodo' : worker'[u] = "idle"
      BY <1>4, <2>4 DEF JudgeDispatch, Held, Slots
    <3> QED
      <4>1. TypeOK'
        BY <2>1, <3>1 DEF TypeOK, BookTyped, PoolTyped
      <4>2. sem' = Cardinality(Held')
        BY <2>2, <2>4, <3>2, HeldFinite
      <4> QED
        BY <2>4, <3>2, <4>1, <4>2, HeldFinite DEF Slots
  <2> QED
    BY <1>4, <2>3, <2>4 DEF JudgeDispatch
<1>5. ASSUME DispatcherReports PROVE TypeOK' /\ Slots'
  <2>1. BookTyped' /\ task' \in [Tasks -> ScheduledTasks]
    BY <1>5 DEF DispatcherReports, BookTyped
  <2>2. PoolTyped'
    BY <1>5 DEF DispatcherReports, PoolTyped
  <2>3. Slots'
    BY <1>5 DEF DispatcherReports, Slots, Held
  <2> QED
    BY <2>1, <2>2, <2>3 DEF TypeOK, BookTyped, PoolTyped
<1>6. ASSUME NEW t \in Tasks, WorkerComplete(t)
      PROVE  TypeOK' /\ Slots'
  <2>1. BookTyped' /\ task' \in [Tasks -> ScheduledTasks]
    BY <1>6, CompleteTyped DEF WorkerComplete
  <2>2. worker[t] # "idle" /\ t \notin judgeTodo
    BY <1>6 DEF WorkerComplete, Slots
  <2>3. CASE worker' = [worker EXCEPT ![t] = "idle"] /\ sem' = sem - 1
    <3>1. Cardinality(Held') = Cardinality(Held) - 1 /\ Cardinality(Held) >= 1
      BY <2>2, <2>3, HeldLess
    <3>2. sem \in 1..Parallelism
      BY <3>1, HeldFinite DEF Slots, PoolTyped
    <3>3. PoolTyped'
      BY <1>6, <2>3, <3>2, PoolsAssumption DEF WorkerComplete, PoolTyped
    <3>4. \A u \in judgeTodo' : worker'[u] = "idle"
      BY <1>6, <2>3 DEF WorkerComplete, Slots, PoolTyped
    <3> QED
      <4>1. TypeOK'
        BY <2>1, <3>3 DEF TypeOK, BookTyped, PoolTyped
      <4>2. dispatcher' = dispatcher
        BY <1>6 DEF WorkerComplete
      <4> QED
        BY <2>3, <3>1, <3>4, <4>1, <4>2, HeldFinite DEF Slots
  <2>4. CASE worker' = [worker EXCEPT ![t] = "failed"] /\ UNCHANGED sem
    <3>1. PoolTyped'
      BY <1>6, <2>4 DEF WorkerComplete, PoolTyped
    <3>2. Held' = Held
      BY <2>2, <2>4 DEF Held, PoolTyped
    <3>3. \A u \in judgeTodo' : worker'[u] = "idle"
      BY <1>6, <2>2, <2>4 DEF WorkerComplete, Slots, PoolTyped
    <3> QED
      BY <1>6, <2>1, <2>4, <3>1, <3>2, <3>3 DEF WorkerComplete, TypeOK, BookTyped, PoolTyped, Slots
  <2> QED
    BY <1>6, <2>3, <2>4 DEF WorkerComplete
<1>7. ASSUME NEW t \in Tasks, WorkerReports(t)
      PROVE  TypeOK' /\ Slots'
  <2>1. BookTyped' /\ task' \in [Tasks -> ScheduledTasks]
    BY <1>7 DEF WorkerReports, BookTyped
  <2>2. Cardinality(Held') = Cardinality(Held) - 1 /\ Cardinality(Held) >= 1
    BY <1>7, HeldLess DEF WorkerReports
  <2>3. sem \in 1..Parallelism
    BY <2>2, HeldFinite DEF Slots, PoolTyped
  <2>4. PoolTyped'
    BY <1>7, <2>3, PoolsAssumption DEF WorkerReports, PoolTyped
  <2>5. \A u \in judgeTodo' : worker'[u] = "idle"
    BY <1>7 DEF WorkerReports, Slots, PoolTyped
  <2> QED
    <3>1. TypeOK'
      BY <2>1, <2>4 DEF TypeOK, BookTyped, PoolTyped
    <3>2. dispatcher' = dispatcher /\ sem' = sem - 1
      BY <1>7 DEF WorkerReports
    <3> QED
      BY <2>2, <2>5, <3>1, <3>2, HeldFinite DEF Slots
<1>8. ASSUME Finish PROVE TypeOK' /\ Slots'
  <2>1. BookTyped' /\ task' \in [Tasks -> ScheduledTasks]
    BY <1>8, FaultTyped DEF Finish, BookTyped
  <2>2. PoolTyped'
    BY <1>8 DEF Finish, PoolTyped
  <2>3. Slots'
    BY <1>8 DEF Finish, Slots, Held
  <2> QED
    BY <2>1, <2>2, <2>3 DEF TypeOK, BookTyped, PoolTyped
<1>9. ASSUME UNCHANGED vars PROVE TypeOK' /\ Slots'
  BY <1>9 DEF TypeOK, Slots, Held
<1> QED
  BY <1>1, <1>2, <1>3, <1>4, <1>5, <1>6, <1>7, <1>8, <1>9 DEF Next

\* The state of the run stays in its types: no slot is released twice and none
\* is taken beyond the pool's parallelism.
THEOREM Typing == Spec => []TypeOK
<1> QED
  BY InitTyped, NextTyped, PTL DEF Spec

-----------------------------------------------------------------------------
(***************************************************************************)
(* Rows. Every task is in a pool's queue, under way, or in a row, or its   *)
(* write failed and the run knows it.                                      *)
(***************************************************************************)
Recorded(t) == \E i \in DOMAIN results : results[i].task = t
Todo(t) == t \in arenaTodo \cup judgeTodo
Active(t) == arenaTask = t \/ worker[t] = "running"
Broken ==
    arenaFailed \/ errs > 0 \/ dispatcher = "failed" \/ \E u \in Tasks : worker[u] = "failed"

OwnPool ==
    /\ \A t \in arenaTodo : task[t].tested
    /\ \A t \in judgeTodo : ~task[t].tested
    /\ \A t \in Tasks : arenaTask = t => task[t].tested /\ t \notin arenaTodo
    /\ \A t \in Tasks : worker[t] # "idle" => ~task[t].tested

OneRow == \A i, j \in DOMAIN results : results[i].task = results[j].task => i = j

Placed ==
    /\ OwnPool
    /\ OneRow
    /\ \A t \in Tasks : Todo(t) \/ Active(t) => ~Recorded(t)
    /\ \A t \in Tasks : Todo(t) \/ Active(t) \/ Recorded(t) \/ Broken
    /\ dispatcher = "ended" => errs > 0
    /\ run = "summarised" => \A t \in Tasks : Recorded(t)

LEMMA NewRow ==
    ASSUME results \in Seq(Rows), NEW row \in Rows, results' = Append(results, row)
    PROVE  /\ DOMAIN results' = DOMAIN results \cup {Len(results) + 1}
           /\ Len(results) + 1 \notin DOMAIN results
           /\ \A i \in DOMAIN results : results'[i] = results[i]
           /\ results'[Len(results) + 1] = row
<1>1. DOMAIN results = 1..Len(results) /\ Len(results) \in Nat
  OBVIOUS
<1>2. results' \in Seq(Rows) /\ Len(results') = Len(results) + 1
  OBVIOUS
<1>3. DOMAIN results' = 1..(Len(results) + 1)
  BY <1>2
<1> QED
  BY <1>1, <1>3

LEMMA NewRecord ==
    ASSUME results \in Seq(Rows), NEW t \in Tasks, NEW row \in Rows, row.task = t,
           results' = Append(results, row), OneRow, ~Recorded(t)
    PROVE  OneRow' /\ \A u \in Tasks : Recorded(u)' <=> Recorded(u) \/ u = t
<1> DEFINE new == Len(results) + 1
<1>1. /\ DOMAIN results' = DOMAIN results \cup {new} /\ new \notin DOMAIN results
      /\ \A i \in DOMAIN results : results'[i] = results[i]
      /\ results'[new] = row
  BY NewRow
<1> HIDE DEF new
<1>2. OneRow'
  BY <1>1 DEF OneRow, Recorded
<1>3. \A u \in Tasks : Recorded(u)' <=> Recorded(u) \/ u = t
  BY <1>1 DEF Recorded
<1> QED
  BY <1>2, <1>3

\* What a step of runState does to the rows.
LEMMA DispatchRows ==
    ASSUME results \in Seq(Rows), NEW t \in Tasks, OneRow, ~Recorded(t)
    PROVE  /\ DispatchRuns(t) \/ DispatchFails(t) => results' = results
           /\ DispatchSkips(t) => OneRow' /\ \A u \in Tasks : Recorded(u)' <=> Recorded(u) \/ u = t
<1>1. DispatchRuns(t) \/ DispatchFails(t) => results' = results
  BY DEF DispatchRuns, DispatchFails
<1>2. ASSUME DispatchSkips(t)
      PROVE  OneRow' /\ \A u \in Tasks : Recorded(u)' <=> Recorded(u) \/ u = t
  <2> DEFINE row == [task |-> t, outcome |-> "skipped"]
  <2>1. row \in Rows /\ row.task = t /\ results' = Append(results, row)
    BY <1>2 DEF DispatchSkips, Rows
  <2> HIDE DEF row
  <2> QED
    BY <2>1, NewRecord
<1> QED
  BY <1>1, <1>2

LEMMA CompleteRows ==
    ASSUME results \in Seq(Rows), NEW t \in Tasks, NEW o \in Outcomes, OneRow, ~Recorded(t)
    PROVE  /\ CompleteFails(t, o) => results' = results
           /\ Complete(t, o) => OneRow' /\ \A u \in Tasks : Recorded(u)' <=> Recorded(u) \/ u = t
<1>1. CompleteFails(t, o) => results' = results
  BY DEF CompleteFails
<1>2. ASSUME Complete(t, o)
      PROVE  OneRow' /\ \A u \in Tasks : Recorded(u)' <=> Recorded(u) \/ u = t
  <2> DEFINE row == [task |-> t, outcome |-> IF o.passed THEN "passed" ELSE "failed"]
  <2>1. row \in Rows /\ row.task = t /\ results' = Append(results, row)
    BY <1>2 DEF Complete, Rows
  <2> HIDE DEF row
  <2> QED
    BY <2>1, NewRecord
<1> QED
  BY <1>1, <1>2

\* Rows that do not change record the same tasks.
LEMMA SameRows ==
    ASSUME results' = results
    PROVE  (OneRow => OneRow') /\ \A u \in Tasks : Recorded(u)' <=> Recorded(u)
BY DEF OneRow, Recorded

LEMMA InitPlaced == Init => Placed
<1> SUFFICES ASSUME Init PROVE Placed
  OBVIOUS
<1>1. results = <<>> /\ DOMAIN results = {}
  BY DEF Init
<1>2. \A t \in Tasks : ~Recorded(t)
  BY <1>1 DEF Recorded
<1>3. task \in [Tasks -> ScheduledTasks]
  BY InitTyped DEF TypeOK
<1>4. OwnPool
  BY PoolsAssumption DEF Init, OwnPool
<1>5. \A t \in Tasks : Todo(t)
  BY <1>3, TaskTyped DEF Init, Todo
<1> QED
  BY <1>1, <1>2, <1>4, <1>5 DEF Placed, OneRow, Init

LEMMA NextPlaced == TypeOK /\ Slots /\ Placed /\ [Next]_vars => Placed'
<1> SUFFICES ASSUME TypeOK, Slots, Placed, [Next]_vars
             PROVE  Placed'
  OBVIOUS
<1>0. results \in Seq(Rows) /\ PoolTyped /\ OneRow
  BY DEF TypeOK, PoolTyped, Placed
<1> USE <1>0
<1>1. ASSUME NEW t \in Tasks, SerialDispatch(t)
      PROVE  Placed'
  <2>1. ~Recorded(t) /\ task[t].tested /\ t \in arenaTodo
    BY <1>1 DEF SerialDispatch, FirstOf, Placed, OwnPool, Todo
  <2>2. OwnPool'
    BY <1>1, <2>1, PoolsAssumption DEF SerialDispatch, Placed, OwnPool
  <2>3. CASE DispatchRuns(t) /\ arenaTask' = t /\ UNCHANGED arenaFailed
    <3>1. OneRow' /\ \A u \in Tasks : Recorded(u)' <=> Recorded(u)
      BY <2>1, <2>3, DispatchRows, SameRows
    <3>2. \A u \in Tasks : /\ Todo(u)' => Todo(u)
                           /\ Active(u)' <=> Active(u) \/ u = t
                           /\ Todo(u) => Todo(u)' \/ u = t
      BY <1>1, <2>3, PoolsAssumption DEF SerialDispatch, Todo, Active
    <3>3. Todo(t) /\ (Broken => Broken')
      BY <1>1, <2>1, <2>3 DEF SerialDispatch, Todo, Broken
    <3>4. \A u \in Tasks : Todo(u)' \/ Active(u)' => ~Recorded(u)'
      BY <2>1, <3>1, <3>2 DEF Placed
    <3>5. \A u \in Tasks : Todo(u)' \/ Active(u)' \/ Recorded(u)' \/ Broken'
      BY <3>1, <3>2, <3>3 DEF Placed
    <3> QED
      BY <1>1, <2>2, <3>1, <3>4, <3>5 DEF SerialDispatch, Placed
  <2>4. CASE DispatchSkips(t) /\ UNCHANGED <<arenaTask, arenaFailed>>
    <3>1. OneRow' /\ \A u \in Tasks : Recorded(u)' <=> Recorded(u) \/ u = t
      BY <2>1, <2>4, DispatchRows
    <3>2. ~Active(t)
      BY <1>1, <2>1, PoolsAssumption DEF SerialDispatch, Placed, OwnPool, Active
    <3> QED
      BY <1>1, <2>1, <2>2, <2>4, <3>1, <3>2 DEF SerialDispatch, Placed, OwnPool, Todo, Active, Broken
  <2>5. CASE DispatchFails(t) /\ arenaFailed' = TRUE /\ UNCHANGED arenaTask
    <3>1. OneRow' /\ \A u \in Tasks : Recorded(u)' <=> Recorded(u)
      BY <2>1, <2>5, DispatchRows, SameRows
    <3> QED
      BY <1>1, <2>2, <2>5, <3>1 DEF SerialDispatch, Placed, Todo, Active, Broken
  <2> QED
    BY <1>1, <2>3, <2>4, <2>5 DEF SerialDispatch
<1>2. ASSUME NEW t \in Tasks, SerialComplete(t)
      PROVE  Placed'
  <2>1. ~Recorded(t) /\ task[t].tested /\ t \notin arenaTodo /\ t \notin judgeTodo /\ worker[t] # "running"
    BY <1>2 DEF SerialComplete, Placed, OwnPool, Active
  <2>2. OwnPool'
    BY <1>2, PoolsAssumption DEF SerialComplete, Placed, OwnPool
  <2>3. PICK o \in Outcomes : \/ Complete(t, o) /\ UNCHANGED arenaFailed
                              \/ CompleteFails(t, o) /\ arenaFailed' = TRUE
    BY <1>2 DEF SerialComplete
  <2>4. CASE Complete(t, o) /\ UNCHANGED arenaFailed
    <3>1. OneRow' /\ \A u \in Tasks : Recorded(u)' <=> Recorded(u) \/ u = t
      BY <2>1, <2>4, CompleteRows
    <3> QED
      BY <1>2, <2>1, <2>2, <2>4, <3>1, PoolsAssumption DEF SerialComplete, Placed, Todo, Active, Broken
  <2>5. CASE CompleteFails(t, o) /\ arenaFailed' = TRUE
    <3>1. OneRow' /\ \A u \in Tasks : Recorded(u)' <=> Recorded(u)
      BY <2>1, <2>5, CompleteRows, SameRows
    <3> QED
      BY <1>2, <2>2, <2>5, <3>1, PoolsAssumption DEF SerialComplete, Placed, Todo, Active, Broken
  <2> QED
    BY <2>3, <2>4, <2>5
<1>3. ASSUME AcquireSlot PROVE Placed'
  <2>1. OneRow' /\ \A u \in Tasks : Recorded(u)' <=> Recorded(u)
    BY <1>3, SameRows DEF AcquireSlot
  <2> QED
    BY <1>3, <2>1 DEF AcquireSlot, Placed, OwnPool, Todo, Active, Broken
<1>4. ASSUME NEW t \in Tasks, JudgeDispatch(t)
      PROVE  Placed'
  <2>1. ~Recorded(t) /\ ~task[t].tested /\ t \in judgeTodo /\ t \notin arenaTodo /\ worker[t] = "idle"
    BY <1>4 DEF JudgeDispatch, FirstOf, Placed, OwnPool, Todo, Slots
  <2>2. OwnPool'
    BY <1>4, <2>1 DEF JudgeDispatch, Placed, OwnPool, PoolTyped
  <2>3. CASE DispatchRuns(t) /\ dispatcher' = "next" /\ worker' = [worker EXCEPT ![t] = "running"] /\ UNCHANGED sem
    <3>1. OneRow' /\ \A u \in Tasks : Recorded(u)' <=> Recorded(u)
      BY <2>1, <2>3, DispatchRows, SameRows
    <3>2. \A u \in Tasks : Active(u)' <=> Active(u) \/ u = t
      BY <1>4, <2>3 DEF JudgeDispatch, Active, PoolTyped
    <3>3. Broken => Broken'
      BY <1>4, <2>1, <2>3 DEF JudgeDispatch, Broken, PoolTyped
    <3> QED
      BY <1>4, <2>1, <2>2, <2>3, <3>1, <3>2, <3>3 DEF JudgeDispatch, Placed, Todo
  <2>4. CASE DispatchSkips(t) /\ dispatcher' = "next" /\ sem' = sem - 1 /\ UNCHANGED worker
    <3>1. OneRow' /\ \A u \in Tasks : Recorded(u)' <=> Recorded(u) \/ u = t
      BY <2>1, <2>4, DispatchRows
    <3>2. ~Active(t) /\ \A u \in Tasks : Active(u)' <=> Active(u)
      BY <1>4, <2>1, <2>4 DEF JudgeDispatch, Active, Placed, OwnPool
    <3>3. Broken => Broken'
      BY <1>4, <2>4 DEF JudgeDispatch, Broken
    <3> QED
      BY <1>4, <2>1, <2>2, <2>4, <3>1, <3>2, <3>3 DEF JudgeDispatch, Placed, Todo
  <2>5. CASE DispatchFails(t) /\ dispatcher' = "failed" /\ sem' = sem - 1 /\ UNCHANGED worker
    <3>1. OneRow' /\ \A u \in Tasks : Recorded(u)' <=> Recorded(u)
      BY <2>1, <2>5, DispatchRows, SameRows
    <3>2. Broken' /\ \A u \in Tasks : Active(u)' <=> Active(u)
      BY <1>4, <2>5 DEF JudgeDispatch, Active, Broken
    <3> QED
      BY <1>4, <2>2, <2>5, <3>1, <3>2 DEF JudgeDispatch, Placed, Todo
  <2> QED
    BY <1>4, <2>3, <2>4, <2>5 DEF JudgeDispatch
<1>5. ASSUME DispatcherReports PROVE Placed'
  <2>1. OneRow' /\ \A u \in Tasks : Recorded(u)' <=> Recorded(u)
    BY <1>5, SameRows DEF DispatcherReports
  <2>2. errs' > 0
    BY <1>5 DEF DispatcherReports, PoolTyped
  <2> QED
    BY <1>5, <2>1, <2>2 DEF DispatcherReports, Placed, OwnPool, Todo, Active, Broken
<1>6. ASSUME NEW t \in Tasks, WorkerComplete(t)
      PROVE  Placed'
  <2>1. ~Recorded(t) /\ ~task[t].tested /\ t \notin arenaTodo /\ t \notin judgeTodo /\ arenaTask # t
    BY <1>6 DEF WorkerComplete, Placed, OwnPool, Active, Slots
  <2>2. OwnPool'
    BY <1>6, <2>1 DEF WorkerComplete, Placed, OwnPool, PoolTyped
  <2>3. PICK o \in Outcomes :
            \/ Complete(t, o) /\ worker' = [worker EXCEPT ![t] = "idle"] /\ sem' = sem - 1
            \/ CompleteFails(t, o) /\ worker' = [worker EXCEPT ![t] = "failed"] /\ UNCHANGED sem
    BY <1>6 DEF WorkerComplete
  <2>4. \A u \in Tasks : Active(u)' <=> Active(u) /\ u # t
    BY <1>6, <2>1, <2>3 DEF WorkerComplete, Active, PoolTyped
  <2>5. CASE Complete(t, o) /\ worker' = [worker EXCEPT ![t] = "idle"] /\ sem' = sem - 1
    <3>1. OneRow' /\ \A u \in Tasks : Recorded(u)' <=> Recorded(u) \/ u = t
      BY <2>1, <2>5, CompleteRows
    <3>2. Broken => Broken'
      BY <1>6, <2>5 DEF WorkerComplete, Broken, PoolTyped
    <3> QED
      BY <1>6, <2>1, <2>2, <2>4, <3>1, <3>2 DEF WorkerComplete, Placed, Todo
  <2>6. CASE CompleteFails(t, o) /\ worker' = [worker EXCEPT ![t] = "failed"] /\ UNCHANGED sem
    <3>1. OneRow' /\ \A u \in Tasks : Recorded(u)' <=> Recorded(u)
      BY <2>1, <2>6, CompleteRows, SameRows
    <3>2. Broken'
      BY <2>6 DEF Broken, PoolTyped
    <3> QED
      BY <1>6, <2>2, <2>4, <3>1, <3>2 DEF WorkerComplete, Placed, Todo
  <2> QED
    BY <2>3, <2>5, <2>6
<1>7. ASSUME NEW t \in Tasks, WorkerReports(t)
      PROVE  Placed'
  <2>1. OneRow' /\ \A u \in Tasks : Recorded(u)' <=> Recorded(u)
    BY <1>7, SameRows DEF WorkerReports
  <2>2. errs' > 0
    BY <1>7 DEF WorkerReports, PoolTyped
  <2>3. OwnPool' /\ \A u \in Tasks : Active(u)' <=> Active(u)
    BY <1>7 DEF WorkerReports, Placed, OwnPool, Active, PoolTyped
  <2> QED
    BY <1>7, <2>1, <2>2, <2>3 DEF WorkerReports, Placed, Todo, Broken
<1>8. ASSUME Finish PROVE Placed'
  <2>1. OneRow' /\ \A u \in Tasks : Recorded(u)' <=> Recorded(u)
    BY <1>8, SameRows DEF Finish
  <2>2. ASSUME run' = "summarised" PROVE \A t \in Tasks : Recorded(t)
    <3>1. ~arenaFailed /\ ~(errs > 0)
      BY <1>8, <2>2 DEF Finish
    <3>2. arenaTask = None /\ arenaTodo = {} /\ judgeTodo = {} /\ \A t \in Tasks : worker[t] = "idle"
      BY <1>8, <3>1 DEF Finish, ArenaEnded, JudgeEnded, Placed
    <3>3. dispatcher # "failed"
      BY <1>8 DEF Finish, JudgeEnded
    <3> QED
      BY <3>1, <3>2, <3>3, PoolsAssumption DEF Placed, Todo, Active, Broken
  <2>3. OwnPool' /\ Broken' = Broken /\ \A u \in Tasks : (Active(u)' <=> Active(u)) /\ (Todo(u)' <=> Todo(u))
    BY <1>8 DEF Finish, Placed, OwnPool, Active, Todo, Broken
  <2> QED
    BY <1>8, <2>1, <2>2, <2>3 DEF Finish, Placed
<1>9. ASSUME UNCHANGED vars PROVE Placed'
  BY <1>9 DEF Placed, OwnPool, OneRow, Todo, Active, Broken, Recorded
<1> QED
  BY <1>1, <1>2, <1>3, <1>4, <1>5, <1>6, <1>7, <1>8, <1>9 DEF Next

\* No task is recorded twice, and a run with a summary has a row of every task.
THEOREM EveryTaskRecorded == Spec => []RecordedOnce
<1>1. Placed => RecordedOnce
  BY DEF Placed, RecordedOnce, OneRow, Recorded
<1> QED
  BY <1>1, InitTyped, NextTyped, InitPlaced, NextPlaced, PTL DEF Spec

-----------------------------------------------------------------------------
(***************************************************************************)
(* Skipped tasks. The two reasons to skip a task are never taken back.     *)
(***************************************************************************)
Reason(t) == budgetExceeded \/ ~Allowed(ladder[task[t].track], task[t].rung)

LEMMA ReasonStays ==
    ASSUME TypeOK, [Next]_vars, NEW t \in Tasks, Reason(t)
    PROVE  Reason(t)'
<1>1. task[t].track \in Tracks /\ task[t].rung \in Rungs /\ task' = task
  BY TaskTyped DEF TypeOK, Next, SerialDispatch, SerialComplete, AcquireSlot, JudgeDispatch,
     DispatcherReports, WorkerComplete, WorkerReports, Finish
<1>2. CASE UNCHANGED <<ladder, budgetExceeded>>
  BY <1>1, <1>2 DEF Reason
<1>3. ASSUME NEW u \in Tasks, NEW o \in Outcomes, Complete(u, o)
      PROVE  Reason(t)'
  <2>1. task[u].track \in Tracks /\ task[u].rung \in Rungs /\ o.passed \in BOOLEAN
    BY TaskTyped, OutcomeTyped DEF TypeOK
  <2>2. CASE budgetExceeded
    BY <1>3, <2>2 DEF Complete, Reason
  <2>3. CASE ~Allowed(ladder[task[t].track], task[t].rung)
    <3>1. CASE task[u].track = task[t].track
      <4>1. ladder[task[t].track] \in TrackStates
        BY <1>1 DEF TypeOK
      <4>2. ~Allowed(Record(ladder[task[t].track], task[u].rung, o.passed), task[t].rung)
        BY <1>1, <2>1, <2>3, <4>1, RecordKeepsAbandoned
      <4>3. ladder'[task[t].track] = Record(ladder[task[t].track], task[u].rung, o.passed)
        BY <1>1, <1>3, <3>1 DEF Complete, TypeOK
      <4> QED
        BY <1>1, <4>2, <4>3 DEF Reason
    <3>2. CASE task[u].track # task[t].track
      <4>1. ladder'[task[t].track] = ladder[task[t].track]
        BY <1>1, <1>3, <3>2 DEF Complete, TypeOK
      <4> QED
        BY <1>1, <2>3, <4>1 DEF Reason
    <3> QED
      BY <3>1, <3>2
  <2> QED
    BY <2>2, <2>3 DEF Reason
<1>4. \/ UNCHANGED <<ladder, budgetExceeded>>
      \/ \E u \in Tasks, o \in Outcomes : Complete(u, o)
  BY DEF Next, SerialDispatch, SerialComplete, AcquireSlot, JudgeDispatch, DispatcherReports,
     WorkerComplete, WorkerReports, Finish, DispatchRuns, DispatchSkips, DispatchFails, CompleteFails
<1> QED
  BY <1>2, <1>3, <1>4

LEMMA NextSkipped == TypeOK /\ SkippedForAReason /\ [Next]_vars => SkippedForAReason'
<1> SUFFICES ASSUME TypeOK, SkippedForAReason, [Next]_vars
             PROVE  SkippedForAReason'
  OBVIOUS
<1>0. results \in Seq(Rows) /\ \A i \in DOMAIN results : results[i].task \in Tasks
  <2>1. \A i \in DOMAIN results : results[i] \in Rows
    BY DEF TypeOK
  <2> QED
    BY <2>1 DEF TypeOK, Rows
<1>1. \A i \in DOMAIN results, t \in Tasks :
        results[i].outcome = "skipped" /\ results[i].task = t => Reason(t)'
  BY ReasonStays DEF SkippedForAReason, Reason
<1>2. ASSUME results' = results
      PROVE  SkippedForAReason'
  <2> SUFFICES ASSUME NEW i \in DOMAIN results, results[i].outcome = "skipped"
               PROVE  Reason(results[i].task)'
    BY <1>2 DEF SkippedForAReason, Reason
  <2>1. PICK t \in Tasks : t = results[i].task
    BY <1>0
  <2> QED
    BY <1>1, <1>2, <2>1 DEF Reason
<1>3. ASSUME NEW t \in Tasks, NEW row \in Rows, row.task = t, results' = Append(results, row),
             row.outcome = "skipped" => Reason(t)'
      PROVE  SkippedForAReason'
  <2> DEFINE new == Len(results) + 1
  <2>1. /\ DOMAIN results' = DOMAIN results \cup {new}
        /\ \A i \in DOMAIN results : results'[i] = results[i]
        /\ results'[new] = row
    BY <1>0, <1>3, NewRow
  <2> HIDE DEF new
  <2>2. \A i \in DOMAIN results', u \in Tasks :
          results'[i].outcome = "skipped" /\ results'[i].task = u => Reason(u)'
    BY <1>1, <1>3, <2>1
  <2>3. \A i \in DOMAIN results' : results'[i].task \in Tasks
    BY <1>0, <1>3, <2>1
  <2> QED
    BY <2>2, <2>3 DEF SkippedForAReason, Reason
<1>4. ASSUME NEW t \in Tasks, DispatchSkips(t)
      PROVE  SkippedForAReason'
  <2>1. Reason(t)
    BY <1>4 DEF DispatchSkips, MayRun, Reason
  <2>2. Reason(t)'
    BY <2>1, ReasonStays
  <2> DEFINE row == [task |-> t, outcome |-> "skipped"]
  <2>3. row \in Rows /\ row.task = t /\ results' = Append(results, row)
    BY <1>4 DEF DispatchSkips, Rows
  <2> HIDE DEF row
  <2> QED
    BY <1>3, <2>2, <2>3
<1>5. ASSUME NEW t \in Tasks, NEW o \in Outcomes, Complete(t, o)
      PROVE  SkippedForAReason'
  <2> DEFINE row == [task |-> t, outcome |-> IF o.passed THEN "passed" ELSE "failed"]
  <2>1. row \in Rows /\ row.task = t /\ results' = Append(results, row) /\ row.outcome # "skipped"
    BY <1>5 DEF Complete, Rows
  <2> HIDE DEF row
  <2> QED
    BY <1>3, <2>1
<1>6. \/ results' = results
      \/ \E t \in Tasks : DispatchSkips(t) \/ \E o \in Outcomes : Complete(t, o)
  BY DEF Next, SerialDispatch, SerialComplete, AcquireSlot, JudgeDispatch, DispatcherReports,
     WorkerComplete, WorkerReports, Finish, DispatchRuns, DispatchFails, CompleteFails
<1> QED
  BY <1>2, <1>4, <1>5, <1>6

\* Whatever finishes after a task was skipped, the reason to skip it holds.
THEOREM SkipsRest == Spec => []SkippedForAReason
<1>1. Init => SkippedForAReason
  BY DEF Init, SkippedForAReason
<1> QED
  BY <1>1, InitTyped, NextTyped, NextSkipped, PTL DEF Spec

-----------------------------------------------------------------------------
(***************************************************************************)
(* Budget. Once it is exceeded no task starts, so what may still be spent  *)
(* is bounded by the tasks under way: the slots, and the arena's one.      *)
(***************************************************************************)
Running == {t \in Tasks : worker[t] = "running"}
UnderWay == Cardinality(Running) + (IF arenaTask = None THEN 0 ELSE 1)

Budget(most) ==
    IF budgetExceeded THEN tokens + UnderWay * most < MaxTokens + (Parallelism + 1) * most
                      ELSE tokens < MaxTokens

Budgeted ==
    MaxTokens > 0 => \A most \in Costs : (\A c \in Costs : c <= most) => Budget(most)

LEMMA Multiples ==
    ASSUME NEW m \in Nat, NEW a \in Nat, NEW b \in Nat, a <= b
    PROVE  /\ a * m \in Nat /\ b * m \in Nat
           /\ a * m <= b * m
           /\ (a + 1) * m = a * m + m
BY SMT

LEMMA RunningHold ==
    ASSUME NEW f
    PROVE  /\ Cardinality({t \in Tasks : f[t] = "running"}) \in Nat
           /\ Cardinality({t \in Tasks : f[t] # "idle"}) \in Nat
           /\ Cardinality({t \in Tasks : f[t] = "running"}) <= Cardinality({t \in Tasks : f[t] # "idle"})
<1>1. IsFiniteSet({t \in Tasks : f[t] # "idle"})
  BY FS_Interval, FS_Subset, PoolsAssumption DEF Tasks
<1> QED
  BY <1>1, FS_Subset, FS_CardinalityType

LEMMA UnderWayBounded ==
    ASSUME TypeOK, Slots
    PROVE  UnderWay \in Nat /\ UnderWay <= Parallelism + 1
<1>1. Cardinality(Running) <= Cardinality(Held) /\ Cardinality(Running) \in Nat /\ Cardinality(Held) \in Nat
  BY RunningHold DEF Running, Held
<1>2. Cardinality(Held) <= sem /\ sem <= Parallelism
  BY <1>1 DEF Slots, TypeOK
<1> QED
  BY <1>1, <1>2, PoolsAssumption DEF UnderWay, TypeOK

LEMMA UnderWayStaysBounded ==
    ASSUME TypeOK', Slots'
    PROVE  UnderWay' \in Nat /\ UnderWay' <= Parallelism + 1
<1>1. Cardinality(Running') <= Cardinality(Held') /\ Cardinality(Running') \in Nat /\ Cardinality(Held') \in Nat
  BY RunningHold DEF Running, Held
<1>2. Cardinality(Held') <= sem' /\ sem' <= Parallelism
  BY <1>1 DEF Slots, TypeOK
<1> QED
  BY <1>1, <1>2, PoolsAssumption DEF UnderWay, TypeOK

\* A task that ends makes room for what it cost.
LEMMA EndWithinBudget ==
    ASSUME TypeOK, TypeOK', Slots, Slots', NEW t \in Tasks, NEW o \in Outcomes, Complete(t, o),
           UnderWay' = UnderWay - 1, MaxTokens > 0,
           NEW most \in Costs, \A c \in Costs : c <= most, Budget(most)
    PROVE  Budget(most)'
<1>1. most \in Nat /\ o.cost \in Nat /\ o.cost <= most
  <2>1. most \in Nat
    BY PoolsAssumption
  <2>2. o.cost \in Costs \/ o.cost = 0
    <3>1. CASE o \in [passed : BOOLEAN, ready : {TRUE}, cost : Costs]
      BY <3>1
    <3>2. CASE o = [passed |-> FALSE, ready |-> FALSE, cost |-> 0]
      BY <3>2
    <3> QED
      BY <3>1, <3>2 DEF Outcomes
  <2> QED
    BY <2>1, <2>2, OutcomeTyped
<1>2. PICK n \in Nat : n = UnderWay' /\ UnderWay = n + 1 /\ n <= Parallelism
  <2>1. UnderWay' \in Nat /\ UnderWay \in Nat /\ UnderWay <= Parallelism + 1
    BY UnderWayBounded, UnderWayStaysBounded
  <2>2. UnderWay = UnderWay' + 1 /\ UnderWay' <= Parallelism
    BY <2>1, PoolsAssumption
  <2> QED
    BY <2>1, <2>2
<1>3. /\ n * most \in Nat /\ Parallelism * most \in Nat
      /\ n * most <= Parallelism * most
      /\ (n + 1) * most = n * most + most
      /\ (Parallelism + 1) * most = Parallelism * most + most
  <2>1. Parallelism \in Nat /\ Parallelism <= Parallelism
    BY PoolsAssumption
  <2> QED
    BY <1>1, <1>2, <2>1, Multiples
<1>4. tokens' = tokens + o.cost /\ tokens \in Nat /\ MaxTokens \in Nat
  BY PoolsAssumption DEF Complete, TypeOK
<1>5. budgetExceeded' <=> budgetExceeded \/ tokens' >= MaxTokens
  BY DEF Complete, TypeOK
<1>6. CASE budgetExceeded
  <2>1. tokens + (n + 1) * most < MaxTokens + (Parallelism + 1) * most
    BY <1>2, <1>6 DEF Budget
  <2>2. tokens' + n * most < MaxTokens + (Parallelism + 1) * most
    BY <2>1, <1>1, <1>3, <1>4
  <2> QED
    BY <1>2, <1>5, <1>6, <2>2 DEF Budget
<1>7. CASE ~budgetExceeded
  <2>1. tokens < MaxTokens
    BY <1>7 DEF Budget
  <2>2. tokens' + n * most < MaxTokens + (Parallelism + 1) * most
    BY <2>1, <1>1, <1>3, <1>4
  <2>3. ~budgetExceeded' => tokens' < MaxTokens
    BY <1>4, <1>5, <1>1
  <2> QED
    BY <1>2, <2>2, <2>3 DEF Budget
<1> QED
  BY <1>6, <1>7

\* Fewer tasks under way and the same account.
LEMMA FewerWithinBudget ==
    ASSUME TypeOK, TypeOK', Slots, Slots', UNCHANGED <<tokens, budgetExceeded>>,
           UnderWay' <= UnderWay \/ ~budgetExceeded,
           NEW most \in Costs, Budget(most)
    PROVE  Budget(most)'
<1>1. UnderWay \in Nat /\ UnderWay' \in Nat /\ most \in Nat /\ tokens \in Nat
  BY UnderWayBounded, UnderWayStaysBounded, PoolsAssumption DEF TypeOK
<1>2. CASE ~budgetExceeded
  BY <1>2 DEF Budget
<1>3. CASE budgetExceeded /\ UnderWay' <= UnderWay
  <2>1. UnderWay' * most <= UnderWay * most /\ UnderWay' * most \in Nat /\ UnderWay * most \in Nat
    BY <1>1, <1>3, Multiples
  <2>2. (Parallelism + 1) * most \in Nat /\ MaxTokens \in Nat
    BY <1>1, PoolsAssumption, Multiples
  <2> QED
    BY <1>1, <1>3, <2>1, <2>2 DEF Budget
<1> QED
  BY <1>2, <1>3

LEMMA RunningLess ==
    ASSUME TypeOK, NEW t \in Tasks, worker[t] = "running", NEW s \in {"idle", "failed"},
           worker' = [worker EXCEPT ![t] = s]
    PROVE  Cardinality(Running') = Cardinality(Running) - 1 /\ Cardinality(Running) \in Nat
<1>1. Running' = Running \ {t} /\ t \in Running
  BY DEF Running, TypeOK
<1>2. IsFiniteSet(Running)
  BY HeldFinite, FS_Subset DEF Running, Held
<1> QED
  BY <1>1, <1>2, FS_RemoveElement, FS_CardinalityType

LEMMA NextBudgeted == TypeOK /\ Slots /\ TypeOK' /\ Slots' /\ Budgeted /\ [Next]_vars => Budgeted'
<1> SUFFICES ASSUME TypeOK, Slots, TypeOK', Slots', Budgeted, [Next]_vars, MaxTokens > 0,
                    NEW most \in Costs, \A c \in Costs : c <= most
             PROVE  Budget(most)'
  BY DEF Budgeted
<1>0. Budget(most)
  BY DEF Budgeted
<1>1. ASSUME NEW t \in Tasks, SerialDispatch(t)
      PROVE  Budget(most)'
  <2>1. UNCHANGED <<tokens, budgetExceeded>>
    BY <1>1 DEF SerialDispatch, DispatchRuns, DispatchSkips, DispatchFails
  <2>2. UnderWay' = UnderWay \/ ~budgetExceeded
    BY <1>1 DEF SerialDispatch, DispatchRuns, MayRun, UnderWay, Running
  <2>3. UnderWay' <= UnderWay \/ ~budgetExceeded
    BY <2>2, UnderWayBounded
  <2> QED
    BY <1>0, <2>1, <2>3, FewerWithinBudget
<1>2. ASSUME NEW t \in Tasks, SerialComplete(t)
      PROVE  Budget(most)'
  <2>1. UnderWay' = UnderWay - 1
    <3>1. Running' = Running /\ arenaTask # None /\ arenaTask' = None
      BY <1>2, PoolsAssumption DEF SerialComplete, Running
    <3>2. Cardinality(Running) \in Nat
      BY HeldFinite, FS_Subset, FS_CardinalityType DEF Running, Held
    <3> QED
      BY <3>1, <3>2 DEF UnderWay
  <2>2. PICK o \in Outcomes : Complete(t, o) \/ CompleteFails(t, o)
    BY <1>2 DEF SerialComplete
  <2>3. CASE Complete(t, o)
    BY <1>0, <2>1, <2>3, EndWithinBudget
  <2>4. CASE CompleteFails(t, o)
    <3>1. UNCHANGED <<tokens, budgetExceeded>>
      BY <2>4 DEF CompleteFails
    <3>2. UnderWay' <= UnderWay
      BY <2>1, UnderWayBounded
    <3> QED
      BY <1>0, <3>1, <3>2, FewerWithinBudget
  <2> QED
    BY <2>2, <2>3, <2>4
<1>3. ASSUME NEW t \in Tasks, JudgeDispatch(t)
      PROVE  Budget(most)'
  <2>1. UNCHANGED <<tokens, budgetExceeded>>
    BY <1>3 DEF JudgeDispatch, DispatchRuns, DispatchSkips, DispatchFails
  <2>2. UnderWay' = UnderWay \/ ~budgetExceeded
    BY <1>3 DEF JudgeDispatch, DispatchRuns, MayRun, UnderWay, Running
  <2>3. UnderWay' <= UnderWay \/ ~budgetExceeded
    BY <2>2, UnderWayBounded
  <2> QED
    BY <1>0, <2>1, <2>3, FewerWithinBudget
<1>4. ASSUME NEW t \in Tasks, WorkerComplete(t)
      PROVE  Budget(most)'
  <2>1. PICK o \in Outcomes :
            \/ Complete(t, o) /\ worker' = [worker EXCEPT ![t] = "idle"] /\ sem' = sem - 1
            \/ CompleteFails(t, o) /\ worker' = [worker EXCEPT ![t] = "failed"] /\ UNCHANGED sem
    BY <1>4 DEF WorkerComplete
  <2>2. UnderWay' = UnderWay - 1
    <3>1. arenaTask' = arenaTask /\ worker[t] = "running"
      BY <1>4 DEF WorkerComplete
    <3>2. Cardinality(Running') = Cardinality(Running) - 1 /\ Cardinality(Running) \in Nat
      BY <2>1, <3>1, RunningLess
    <3> QED
      BY <3>1, <3>2 DEF UnderWay
  <2>3. CASE Complete(t, o)
    BY <1>0, <2>2, <2>3, EndWithinBudget
  <2>4. CASE CompleteFails(t, o)
    <3>1. UNCHANGED <<tokens, budgetExceeded>>
      BY <2>4 DEF CompleteFails
    <3>2. UnderWay' <= UnderWay
      BY <2>2, UnderWayBounded
    <3> QED
      BY <1>0, <3>1, <3>2, FewerWithinBudget
  <2> QED
    BY <2>1, <2>3, <2>4
<1>5. ASSUME \/ AcquireSlot \/ DispatcherReports \/ Finish
             \/ \E t \in Tasks : WorkerReports(t)
             \/ UNCHANGED vars
      PROVE  Budget(most)'
  <2>1. UNCHANGED <<tokens, budgetExceeded, arenaTask>>
    BY <1>5 DEF AcquireSlot, DispatcherReports, Finish, WorkerReports
  <2>2. Running' = Running
    BY <1>5 DEF AcquireSlot, DispatcherReports, Finish, WorkerReports, Running, TypeOK
  <2>3. UnderWay' <= UnderWay
    BY <2>1, <2>2, UnderWayBounded DEF UnderWay
  <2> QED
    BY <1>0, <2>1, <2>3, FewerWithinBudget
<1> QED
  BY <1>1, <1>2, <1>3, <1>4, <1>5 DEF Next

\* The run's tokens exceed the cap by less than what one task per slot, and
\* the arena's, may use.
THEOREM Overshoot == Spec => []SpendBounded
<1>1. Init => Budgeted
  BY PoolsAssumption DEF Init, Budgeted, Budget
<1>2. TypeOK /\ Slots /\ Budgeted => SpendBounded
  <2> SUFFICES ASSUME TypeOK, Slots, Budgeted, MaxTokens > 0,
                      NEW most \in Costs, \A c \in Costs : c <= most
               PROVE  tokens < MaxTokens + (Parallelism + 1) * most
    BY DEF SpendBounded
  <2>1. most \in Nat /\ UnderWay \in Nat /\ Parallelism \in Nat /\ tokens \in Nat /\ MaxTokens \in Nat
    BY UnderWayBounded, PoolsAssumption DEF TypeOK
  <2>2. UnderWay * most \in Nat /\ (Parallelism + 1) * most \in Nat
    BY <2>1, Multiples
  <2>3. Budget(most)
    BY DEF Budgeted
  <2> QED
    BY <2>1, <2>2, <2>3 DEF Budget
<1> QED
  BY <1>1, <1>2, InitTyped, NextTyped, NextBudgeted, PTL DEF Spec

-----------------------------------------------------------------------------
(***************************************************************************)
(* Accounts. A row is counted in the step that inserts it, and a failed    *)
(* statement leaves rows and accounts alone.                               *)
(***************************************************************************)
At(k, r) == RowsAt(k, r, Len(results))
ScoredRows == {i \in DOMAIN results : results[i].outcome # "skipped"}
SkippedRows == {i \in DOMAIN results : results[i].outcome = "skipped"}

LadderCounts ==
    \A k \in Tracks, r \in Rungs :
        /\ ladder[k].rungs[r].n = Cardinality(At(k, r))
        /\ ladder[k].rungs[r].passed = Cardinality(Passes(At(k, r)))

TotalsCount ==
    /\ totals.scored = Cardinality(ScoredRows)
    /\ totals.passed = Cardinality(Passes(DOMAIN results))
    /\ totals.skipped = Cardinality(SkippedRows)

PassesReady == \A i \in Passes(DOMAIN results) : ready[results[i].task]

Accounts == LadderCounts /\ TotalsCount /\ PassesReady

\* One more row is one more in a set of rows.
LEMMA OneMore ==
    ASSUME results \in Seq(Rows), NEW S \in SUBSET DOMAIN results
    PROVE  /\ Cardinality(S) \in Nat
           /\ Cardinality(S \cup {Len(results) + 1}) = Cardinality(S) + 1
<1>1. DOMAIN results = 1..Len(results) /\ Len(results) \in Nat
  OBVIOUS
<1>2. IsFiniteSet(1..Len(results)) /\ S \subseteq 1..Len(results)
  BY <1>1, FS_Interval
<1>3. IsFiniteSet(S) /\ Len(results) + 1 \notin S
  BY <1>1, <1>2, FS_Subset
<1> QED
  BY <1>3, FS_AddElement, FS_CardinalityType

LEMMA RecordTallies ==
    ASSUME NEW ts \in TrackStates, NEW rung \in Rungs, NEW passed \in BOOLEAN
    PROVE  Record(ts, rung, passed).rungs = [ts.rungs EXCEPT ![rung] = Scored(ts.rungs[rung], passed)]
<1> DEFINE tally == Scored(ts.rungs[rung], passed)
           counted == [ts EXCEPT !.rungs[rung] = tally]
           why == StopReason(tally)
<1>1. counted.rungs = [ts.rungs EXCEPT ![rung] = tally] /\ counted \in TrackStates
  BY ScoredTyped DEF TrackStates
<1>2. CASE Allowed(ts, rung) /\ why # ""
  <2>1. Record(ts, rung, passed) = [counted EXCEPT !.abandonFrom = rung, !.abandonWhy = why]
    BY <1>2 DEF Record
  <2>2. [counted EXCEPT !.abandonFrom = rung, !.abandonWhy = why].rungs = counted.rungs
    <3> HIDE DEF counted, why
    <3> QED
      BY <1>1 DEF TrackStates
  <2> QED
    BY <1>1, <2>1, <2>2
<1>3. CASE ~(Allowed(ts, rung) /\ why # "")
  BY <1>1, <1>3 DEF Record
<1> QED
  BY <1>2, <1>3

LEMMA RowsGrow ==
    ASSUME results \in Seq(Rows), UNCHANGED task, NEW row \in Rows, results' = Append(results, row)
    PROVE  LET new == Len(results) + 1
               passes == row.outcome = "passed"
           IN  /\ ScoredRows' = IF row.outcome # "skipped" THEN ScoredRows \cup {new} ELSE ScoredRows
               /\ SkippedRows' = IF row.outcome = "skipped" THEN SkippedRows \cup {new} ELSE SkippedRows
               /\ Passes(DOMAIN results)' = IF passes THEN Passes(DOMAIN results) \cup {new}
                                                      ELSE Passes(DOMAIN results)
               /\ \A k \in Tracks, r \in Rungs :
                    LET counts == /\ row.outcome # "skipped"
                                  /\ task[row.task].track = k
                                  /\ task[row.task].rung = r
                    IN  /\ At(k, r)' = IF counts THEN At(k, r) \cup {new} ELSE At(k, r)
                        /\ Passes(At(k, r))' = IF counts /\ passes THEN Passes(At(k, r)) \cup {new}
                                                                   ELSE Passes(At(k, r))
<1> DEFINE new == Len(results) + 1
<1>1. /\ DOMAIN results' = DOMAIN results \cup {new} /\ new \notin DOMAIN results
      /\ \A i \in DOMAIN results : results'[i] = results[i]
      /\ results'[new] = row
  BY NewRow
<1>2. DOMAIN results = 1..Len(results) /\ DOMAIN results' = 1..Len(results')
  <2>1. results' \in Seq(Rows)
    OBVIOUS
  <2> QED
    BY <2>1
<1> HIDE DEF new
<1>5. \A k \in Tracks, r \in Rungs : Passes(At(k, r))' = {i \in At(k, r)' : results'[i].outcome = "passed"}
  BY DEF Passes
<1>6. \A k \in Tracks, r \in Rungs : At(k, r) \subseteq DOMAIN results
  BY <1>2 DEF At, RowsAt
<1>7. \A k \in Tracks, r \in Rungs :
        At(k, r)' = IF row.outcome # "skipped" /\ task[row.task].track = k /\ task[row.task].rung = r
                    THEN At(k, r) \cup {new} ELSE At(k, r)
  <2> SUFFICES ASSUME NEW k \in Tracks, NEW r \in Rungs
               PROVE  At(k, r)' = IF row.outcome # "skipped" /\ task[row.task].track = k /\ task[row.task].rung = r
                                  THEN At(k, r) \cup {new} ELSE At(k, r)
    OBVIOUS
  <2>1. At(k, r) = {i \in DOMAIN results : results[i].outcome # "skipped" /\ task[results[i].task].track = k
                                           /\ task[results[i].task].rung = r}
    BY <1>2 DEF At, RowsAt
  <2>2. At(k, r)' = {i \in DOMAIN results' : results'[i].outcome # "skipped" /\ task[results'[i].task].track = k
                                             /\ task[results'[i].task].rung = r}
    BY <1>2 DEF At, RowsAt
  <2> QED
    BY <1>1, <2>1, <2>2
<1>8. \A k \in Tracks, r \in Rungs :
        Passes(At(k, r))' = IF /\ row.outcome # "skipped" /\ task[row.task].track = k /\ task[row.task].rung = r
                               /\ row.outcome = "passed"
                            THEN Passes(At(k, r)) \cup {new} ELSE Passes(At(k, r))
  BY <1>1, <1>5, <1>6, <1>7 DEF Passes
<1>9. /\ ScoredRows' = IF row.outcome # "skipped" THEN ScoredRows \cup {new} ELSE ScoredRows
      /\ SkippedRows' = IF row.outcome = "skipped" THEN SkippedRows \cup {new} ELSE SkippedRows
      /\ Passes(DOMAIN results)' = IF row.outcome = "passed" THEN Passes(DOMAIN results) \cup {new}
                                                             ELSE Passes(DOMAIN results)
  BY <1>1 DEF ScoredRows, SkippedRows, Passes
<1> QED
  BY <1>7, <1>8, <1>9 DEF new

\* A row that is not a score leaves the ladder alone.
LEMMA SkipCounted ==
    ASSUME TypeOK, Accounts, NEW t \in Tasks, DispatchSkips(t), UNCHANGED task
    PROVE  Accounts'
<1> DEFINE row == [task |-> t, outcome |-> "skipped"]
           new == Len(results) + 1
<1>1. results \in Seq(Rows) /\ totals \in [scored : Nat, passed : Nat, skipped : Nat]
  BY DEF TypeOK
<1>2. row \in Rows /\ row.outcome = "skipped" /\ results' = Append(results, row)
  BY DEF DispatchSkips, Rows
<1> HIDE DEF row
<1>3. /\ ScoredRows' = ScoredRows /\ SkippedRows' = SkippedRows \cup {new}
      /\ Passes(DOMAIN results)' = Passes(DOMAIN results)
      /\ \A k \in Tracks, r \in Rungs : At(k, r)' = At(k, r) /\ Passes(At(k, r))' = Passes(At(k, r))
  BY <1>1, <1>2, RowsGrow
<1>4. LadderCounts'
  BY <1>3 DEF DispatchSkips, Accounts, LadderCounts
<1>5. TotalsCount'
  <2>1. Cardinality(SkippedRows \cup {new}) = Cardinality(SkippedRows) + 1
    BY <1>1, OneMore DEF SkippedRows
  <2>2. totals' = [totals EXCEPT !.skipped = @ + 1]
    BY DEF DispatchSkips
  <2> QED
    BY <1>1, <1>3, <2>1, <2>2 DEF Accounts, TotalsCount
<1>6. PassesReady'
  <2>1. Passes(DOMAIN results) \subseteq DOMAIN results /\ \A i \in DOMAIN results : results'[i] = results[i]
    BY <1>1, <1>2, NewRow DEF Passes
  <2>2. \A i \in Passes(DOMAIN results)' : ready'[results'[i].task]
    BY <1>3, <2>1 DEF DispatchSkips, Accounts, PassesReady
  <2> QED
    BY <2>2 DEF PassesReady
<1> QED
  BY <1>4, <1>5, <1>6 DEF Accounts

LEMMA CompleteCounted ==
    ASSUME TypeOK, Accounts, NEW t \in Tasks, ~Recorded(t), NEW o \in Outcomes, Complete(t, o), UNCHANGED task
    PROVE  Accounts'
<1> DEFINE row == [task |-> t, outcome |-> IF o.passed THEN "passed" ELSE "failed"]
           new == Len(results) + 1
           track == task[t].track
           rung == task[t].rung
<1>1. /\ results \in Seq(Rows) /\ totals \in [scored : Nat, passed : Nat, skipped : Nat]
      /\ track \in Tracks /\ rung \in Rungs /\ o.passed \in BOOLEAN
      /\ ladder \in [Tracks -> TrackStates] /\ ladder[track] \in TrackStates
  BY TaskTyped, OutcomeTyped DEF TypeOK
<1>2. /\ row \in Rows /\ row.outcome # "skipped" /\ (row.outcome = "passed" <=> o.passed)
      /\ row.task = t /\ results' = Append(results, row)
  BY <1>1 DEF Complete, Rows
<1> HIDE DEF row
<1>3. /\ ScoredRows' = ScoredRows \cup {new} /\ SkippedRows' = SkippedRows
      /\ Passes(DOMAIN results)' = IF o.passed THEN Passes(DOMAIN results) \cup {new} ELSE Passes(DOMAIN results)
  BY <1>1, <1>2, RowsGrow
<1>7. \A k \in Tracks, r \in Rungs :
        /\ At(k, r)' = IF track = k /\ rung = r THEN At(k, r) \cup {new} ELSE At(k, r)
        /\ Passes(At(k, r))' = IF track = k /\ rung = r /\ o.passed THEN Passes(At(k, r)) \cup {new}
                                                                   ELSE Passes(At(k, r))
  <2> SUFFICES ASSUME NEW k \in Tracks, NEW r \in Rungs
               PROVE  /\ At(k, r)' = IF track = k /\ rung = r THEN At(k, r) \cup {new} ELSE At(k, r)
                      /\ Passes(At(k, r))' = IF track = k /\ rung = r /\ o.passed THEN Passes(At(k, r)) \cup {new}
                                                                                 ELSE Passes(At(k, r))
    OBVIOUS
  <2>1. /\ At(k, r)' = IF row.outcome # "skipped" /\ task[row.task].track = k /\ task[row.task].rung = r
                       THEN At(k, r) \cup {new} ELSE At(k, r)
        /\ Passes(At(k, r))' = IF (/\ row.outcome # "skipped" /\ task[row.task].track = k
                                   /\ task[row.task].rung = r) /\ row.outcome = "passed"
                               THEN Passes(At(k, r)) \cup {new} ELSE Passes(At(k, r))
    BY <1>1, <1>2, RowsGrow
  <2> QED
    BY <1>2, <2>1
<1>4. LadderCounts'
  <2> DEFINE was == ladder[track].rungs[rung]
  <2>1. ladder' = [ladder EXCEPT ![track] = Record(ladder[track], rung, o.passed)]
    BY DEF Complete
  <2>2. Record(ladder[track], rung, o.passed).rungs = [ladder[track].rungs EXCEPT ![rung] = Scored(was, o.passed)]
    BY <1>1, RecordTallies
  <2>3. ladder[track].rungs \in [Rungs -> Tallies] /\ was \in Tallies
    BY <1>1 DEF TrackStates
  <2>4. Scored(was, o.passed).n = was.n + 1 /\ Scored(was, o.passed).passed = was.passed + (IF o.passed THEN 1 ELSE 0)
    BY DEF Scored
  <2> SUFFICES ASSUME NEW k \in Tracks, NEW r \in Rungs
               PROVE  /\ ladder'[k].rungs[r].n = Cardinality(At(k, r)')
                      /\ ladder'[k].rungs[r].passed = Cardinality(Passes(At(k, r))')
    BY DEF LadderCounts
  <2>5. ladder[k].rungs[r].n = Cardinality(At(k, r)) /\ ladder[k].rungs[r].passed = Cardinality(Passes(At(k, r)))
    BY DEF Accounts, LadderCounts
  <2>6. CASE track = k /\ rung = r
    <3>1. At(k, r) \subseteq DOMAIN results /\ Passes(At(k, r)) \subseteq DOMAIN results
      BY <1>1 DEF At, RowsAt, Passes
    <3>2. /\ Cardinality(At(k, r) \cup {new}) = Cardinality(At(k, r)) + 1
          /\ Cardinality(Passes(At(k, r)) \cup {new}) = Cardinality(Passes(At(k, r))) + 1
          /\ Cardinality(Passes(At(k, r))) \in Nat
      BY <1>1, <3>1, OneMore
    <3>3. ladder'[k].rungs[r] = Scored(was, o.passed)
      BY <1>1, <2>1, <2>2, <2>3, <2>6
    <3>4. was = ladder[k].rungs[r]
      BY <2>6
    <3>5. Cardinality(At(k, r)') = was.n + 1
      BY <1>7, <2>5, <2>6, <3>2, <3>4
    <3>6. Cardinality(Passes(At(k, r))') = was.passed + (IF o.passed THEN 1 ELSE 0)
      <4>1. CASE o.passed
        BY <1>7, <2>5, <2>6, <3>2, <3>4, <4>1
      <4>2. CASE ~o.passed
        BY <1>7, <2>5, <2>6, <3>2, <3>4, <4>2
      <4> QED
        BY <1>1, <4>1, <4>2
    <3> QED
      BY <2>4, <3>3, <3>5, <3>6
  <2>7. CASE ~(track = k /\ rung = r)
    <3>1. ladder'[k].rungs[r] = ladder[k].rungs[r]
      BY <1>1, <2>1, <2>2, <2>3, <2>7
    <3>2. At(k, r)' = At(k, r) /\ Passes(At(k, r))' = Passes(At(k, r))
      BY <1>7, <2>7
    <3> QED
      BY <2>5, <3>1, <3>2
  <2> QED
    BY <2>6, <2>7
<1>5. TotalsCount'
  <2>1. ScoredRows \subseteq DOMAIN results /\ Passes(DOMAIN results) \subseteq DOMAIN results
    BY DEF ScoredRows, Passes
  <2>2. /\ Cardinality(ScoredRows \cup {new}) = Cardinality(ScoredRows) + 1
        /\ Cardinality(Passes(DOMAIN results) \cup {new}) = Cardinality(Passes(DOMAIN results)) + 1
    BY <1>1, <2>1, OneMore
  <2>3. totals' = [totals EXCEPT !.scored = @ + 1, !.passed = @ + (IF o.passed THEN 1 ELSE 0)]
    BY DEF Complete
  <2>4. /\ totals'.scored = totals.scored + 1 /\ totals'.skipped = totals.skipped
        /\ totals'.passed = totals.passed + (IF o.passed THEN 1 ELSE 0)
    BY <1>1, <2>3
  <2>5. /\ totals.scored = Cardinality(ScoredRows) /\ totals.passed = Cardinality(Passes(DOMAIN results))
        /\ totals.skipped = Cardinality(SkippedRows)
    BY DEF Accounts, TotalsCount
  <2>6. totals'.passed = Cardinality(Passes(DOMAIN results)')
    BY <1>1, <1>3, <2>2, <2>4, <2>5
  <2> QED
    BY <1>3, <2>2, <2>4, <2>5, <2>6 DEF TotalsCount
<1>6. PassesReady'
  <2>1. /\ Passes(DOMAIN results) \subseteq DOMAIN results /\ \A i \in DOMAIN results : results'[i] = results[i]
        /\ results'[new] = row
    BY <1>1, <1>2, NewRow DEF Passes
  <2>2. ready \in [Tasks -> BOOLEAN] /\ ready' = [ready EXCEPT ![t] = o.ready]
    BY DEF TypeOK, Complete
  <2>3. \A i \in DOMAIN results : results[i].task \in Tasks /\ results[i].task # t
    <3>1. \A i \in DOMAIN results : results[i] \in Rows
      BY <1>1
    <3> QED
      BY <3>1 DEF Recorded, Rows
  <2>4. \A i \in Passes(DOMAIN results) : ready'[results'[i].task]
    BY <2>1, <2>2, <2>3 DEF Accounts, PassesReady
  <2>5. o.passed => ready'[results'[new].task]
    <3>1. CASE o \in [passed : BOOLEAN, ready : {TRUE}, cost : Costs]
      <4>1. o.ready \in {TRUE}
        BY <3>1
      <4> QED
        BY <1>2, <2>1, <2>2, <4>1
    <3>2. CASE o = [passed |-> FALSE, ready |-> FALSE, cost |-> 0]
      BY <3>2
    <3> QED
      BY <3>1, <3>2 DEF Outcomes
  <2>6. \A i \in Passes(DOMAIN results)' : ready'[results'[i].task]
    BY <1>3, <2>4, <2>5
  <2> QED
    BY <2>6 DEF PassesReady
<1> QED
  BY <1>4, <1>5, <1>6 DEF Accounts

\* Only readiness may change without a row, and not that of a recorded task.
LEMMA OthersCounted ==
    ASSUME TypeOK, Accounts, NEW t \in Tasks, ~Recorded(t), NEW b \in BOOLEAN,
           ready' \in {ready, [ready EXCEPT ![t] = b]}, UNCHANGED <<task, ladder, totals, results>>
    PROVE  Accounts'
<1>1. LadderCounts' /\ TotalsCount'
  BY DEF Accounts, LadderCounts, TotalsCount, At, RowsAt, Passes, ScoredRows, SkippedRows
<1>2. results \in Seq(Rows) /\ \A i \in DOMAIN results : results[i].task \in Tasks /\ results[i].task # t
  <2>1. \A i \in DOMAIN results : results[i] \in Rows
    BY DEF TypeOK
  <2> QED
    BY <2>1 DEF TypeOK, Recorded, Rows
<1>3. PassesReady'
  BY <1>2 DEF Accounts, PassesReady, Passes, TypeOK
<1> QED
  BY <1>1, <1>3 DEF Accounts

LEMMA NextCounted == TypeOK /\ Slots /\ Placed /\ Accounts /\ [Next]_vars => Accounts'
<1> SUFFICES ASSUME TypeOK, Slots, Placed, Accounts, [Next]_vars
             PROVE  Accounts'
  OBVIOUS
<1>1. ASSUME NEW t \in Tasks, Active(t), NEW o \in Outcomes, Complete(t, o) \/ CompleteFails(t, o), UNCHANGED task
      PROVE  Accounts'
  <2>1. ~Recorded(t)
    BY <1>1 DEF Placed
  <2>2. CASE Complete(t, o)
    BY <1>1, <2>1, <2>2, CompleteCounted
  <2>3. CASE CompleteFails(t, o)
    <3>1. o.ready \in BOOLEAN
      BY OutcomeTyped
    <3> QED
      BY <1>1, <2>1, <2>3, <3>1, OthersCounted DEF CompleteFails
  <2> QED
    BY <1>1, <2>2, <2>3
<1>2. ASSUME UNCHANGED <<task, ladder, totals, results, ready>>
      PROVE  Accounts'
  BY <1>2 DEF Accounts, LadderCounts, TotalsCount, PassesReady, At, RowsAt, Passes, ScoredRows, SkippedRows
<1>3. ASSUME NEW t \in Tasks, DispatchSkips(t), UNCHANGED task
      PROVE  Accounts'
  BY <1>3, SkipCounted
<1>4. ASSUME NEW t \in Tasks, SerialDispatch(t) \/ JudgeDispatch(t)
      PROVE  (DispatchSkips(t) /\ UNCHANGED task) \/ UNCHANGED <<task, ladder, totals, results, ready>>
  BY <1>4 DEF SerialDispatch, JudgeDispatch, DispatchRuns, DispatchFails
<1>5. ASSUME NEW t \in Tasks, SerialComplete(t) \/ WorkerComplete(t)
      PROVE  Active(t) /\ UNCHANGED task /\ \E o \in Outcomes : Complete(t, o) \/ CompleteFails(t, o)
  BY <1>5 DEF SerialComplete, WorkerComplete, Active
<1>6. ASSUME \/ AcquireSlot \/ DispatcherReports \/ Finish
             \/ \E t \in Tasks : WorkerReports(t)
             \/ UNCHANGED vars
      PROVE  UNCHANGED <<task, ladder, totals, results, ready>>
  BY <1>6 DEF AcquireSlot, DispatcherReports, Finish, WorkerReports
<1> QED
  BY <1>1, <1>2, <1>3, <1>4, <1>5, <1>6 DEF Next

LEMMA InitialAccounts == Init => Accounts
<1> SUFFICES ASSUME Init PROVE Accounts
  OBVIOUS
<1>1. results = <<>> /\ DOMAIN results = {} /\ Len(results) = 0
  BY DEF Init
<1>2. ScoredRows = {} /\ SkippedRows = {} /\ Passes(DOMAIN results) = {}
  BY <1>1 DEF ScoredRows, SkippedRows, Passes
<1>3. \A k \in Tracks, r \in Rungs : At(k, r) = {} /\ Passes(At(k, r)) = {}
  BY <1>1 DEF At, RowsAt, Passes
<1>4. \A k \in Tracks, r \in Rungs : ladder[k].rungs[r].n = 0 /\ ladder[k].rungs[r].passed = 0
  BY DEF Init, NewTrack
<1> QED
  BY <1>2, <1>3, <1>4, FS_EmptySet DEF Accounts, LadderCounts, TotalsCount, PassesReady, Init

\* The ladder and the totals are those of the rows, after any interleaving and
\* any failure.
THEOREM AccountsAreRows == Spec => []AccountsMatchRows
<1>1. Init => Accounts
  BY InitialAccounts
<1>2. TypeOK /\ Accounts => AccountsMatchRows
  <2> SUFFICES ASSUME TypeOK, Accounts PROVE AccountsMatchRows
    OBVIOUS
  <2>1. DOMAIN results \ {i \in DOMAIN results : results[i].outcome = "skipped"} = ScoredRows
    BY DEF ScoredRows
  <2>2. totals = [scored |-> totals.scored, passed |-> totals.passed, skipped |-> totals.skipped]
    BY DEF TypeOK
  <2>3. totals = [scored |-> Cardinality(ScoredRows), passed |-> Cardinality(Passes(DOMAIN results)),
                  skipped |-> Cardinality(SkippedRows)]
    BY <2>2 DEF Accounts, TotalsCount
  <2> QED
    BY <2>1, <2>3 DEF AccountsMatchRows, Accounts, LadderCounts, PassesReady, SkippedRows, At
<1> QED
  BY <1>1, <1>2, InitTyped, NextTyped, InitPlaced, NextPlaced, NextCounted, PTL DEF Spec

-----------------------------------------------------------------------------
(***************************************************************************)
(* Evidence. Each rung's run of failures ends its rows, and an allowed     *)
(* rung has not failed often enough yet: the failure that abandons it is   *)
(* the one that makes them enough.                                         *)
(***************************************************************************)
Fails(k, r) == ladder[k].rungs[r].consecutiveFails
Since(k, r, m) == At(k, r) \ RowsAt(k, r, m)

StreakFrom(k, r, m) == Cardinality(Since(k, r, m)) = Fails(k, r) /\ Passes(Since(k, r, m)) = {}

Streaks ==
    \A k \in Tracks, r \in Rungs :
        /\ \E m \in 0..Len(results) : StreakFrom(k, r, m)
        /\ Allowed(ladder[k], r) => Fails(k, r) < FutilityConsecutiveFails

\* What the rows up to the n-th say for abandoning a rung.
EvidenceAt(k, r, why, n) ==
    LET rows == RowsAt(k, r, n)
    IN  IF why = "futility"
        THEN \E m \in 0..n : LET last == rows \ RowsAt(k, r, m)
                             IN  Cardinality(last) = FutilityConsecutiveFails /\ Passes(last) = {}
        ELSE /\ Cardinality(rows) >= StopMinN
             /\ UpperBelowStop(Cardinality(Passes(rows)), Cardinality(rows))

AbandonedRightly ==
    \A k \in Tracks : ladder[k].abandonFrom # 0 =>
        \E n \in DOMAIN results : EvidenceAt(k, ladder[k].abandonFrom, ladder[k].abandonWhy, n)

Evidence == Streaks /\ AbandonedRightly

\* A result abandons its rung for the reason its tally gives, if that rung was
\* still allowed, and nothing otherwise.
LEMMA RecordAbandons ==
    ASSUME NEW ts \in TrackStates, NEW rung \in Rungs, NEW passed \in BOOLEAN
    PROVE  LET now == Record(ts, rung, passed)
               why == StopReason(Scored(ts.rungs[rung], passed))
           IN  \/ /\ Allowed(ts, rung) /\ why # ""
                  /\ now.abandonFrom = rung /\ now.abandonWhy = why
               \/ /\ ~(Allowed(ts, rung) /\ why # "")
                  /\ now.abandonFrom = ts.abandonFrom /\ now.abandonWhy = ts.abandonWhy
<1> DEFINE tally == Scored(ts.rungs[rung], passed)
           counted == [ts EXCEPT !.rungs[rung] = tally]
           why == StopReason(tally)
<1>1. counted \in TrackStates /\ counted.abandonFrom = ts.abandonFrom /\ counted.abandonWhy = ts.abandonWhy
  BY ScoredTyped DEF TrackStates
<1>2. why \in {"", "futility", "wilson_upper"}
  BY DEF StopReason
<1>3. CASE Allowed(ts, rung) /\ why # ""
  <2>1. Record(ts, rung, passed) = [counted EXCEPT !.abandonFrom = rung, !.abandonWhy = why]
    BY <1>3 DEF Record
  <2>2. /\ [counted EXCEPT !.abandonFrom = rung, !.abandonWhy = why].abandonFrom = rung
        /\ [counted EXCEPT !.abandonFrom = rung, !.abandonWhy = why].abandonWhy = why
    <3> HIDE DEF counted, why
    <3> QED
      BY <1>1 DEF TrackStates
  <2> QED
    BY <1>3, <2>1, <2>2
<1>4. CASE ~(Allowed(ts, rung) /\ why # "")
  <2>1. Record(ts, rung, passed) = counted
    BY <1>4 DEF Record
  <2> QED
    BY <1>1, <1>4, <2>1
<1> QED
  BY <1>3, <1>4

\* A row more leaves what the rows before it say.
LEMMA EarlierRowsStay ==
    ASSUME results \in Seq(Rows), UNCHANGED task, NEW row \in Rows, results' = Append(results, row)
    PROVE  /\ \A k, r : \A n \in 0..Len(results) : RowsAt(k, r, n)' = RowsAt(k, r, n)
           /\ \A S \in SUBSET DOMAIN results : Passes(S)' = Passes(S)
           /\ \A k, r : \A n \in 0..Len(results) : RowsAt(k, r, n) \subseteq DOMAIN results
<1>1. /\ \A i \in DOMAIN results : results'[i] = results[i]
      /\ DOMAIN results = 1..Len(results) /\ Len(results) \in Nat
  BY NewRow
<1>2. \A n \in 0..Len(results) : 1..n \subseteq DOMAIN results
  BY <1>1
<1>3. \A k, r : \A n \in 0..Len(results) : RowsAt(k, r, n)' = RowsAt(k, r, n)
  BY <1>1, <1>2 DEF RowsAt
<1>4. \A S \in SUBSET DOMAIN results : Passes(S)' = Passes(S)
  BY <1>1 DEF Passes
<1> QED
  BY <1>2, <1>3, <1>4 DEF RowsAt

LEMMA EvidenceStays ==
    ASSUME results \in Seq(Rows), UNCHANGED task, NEW row \in Rows, results' = Append(results, row),
           NEW k, NEW r, NEW why, NEW n \in DOMAIN results, EvidenceAt(k, r, why, n)
    PROVE  n \in DOMAIN results' /\ EvidenceAt(k, r, why, n)'
<1>1. n \in 0..Len(results) /\ \A m \in 0..n : m \in 0..Len(results)
  OBVIOUS
<1>2. RowsAt(k, r, n)' = RowsAt(k, r, n) /\ \A m \in 0..n : RowsAt(k, r, m)' = RowsAt(k, r, m)
  BY <1>1, EarlierRowsStay
<1>3. RowsAt(k, r, n) \in SUBSET DOMAIN results
  BY <1>1, EarlierRowsStay
<1>4. /\ Passes(RowsAt(k, r, n))' = Passes(RowsAt(k, r, n))
      /\ \A m \in 0..n : Passes(RowsAt(k, r, n) \ RowsAt(k, r, m))' = Passes(RowsAt(k, r, n) \ RowsAt(k, r, m))
  <2>1. \A S \in SUBSET DOMAIN results : {i \in S : results'[i].outcome = "passed"} = Passes(S)
    BY EarlierRowsStay DEF Passes
  <2>2. \A m \in 0..n : RowsAt(k, r, n) \ RowsAt(k, r, m) \in SUBSET DOMAIN results
    BY <1>3
  <2> QED
    BY <1>2, <1>3, <2>1, <2>2 DEF Passes
<1>5. n \in DOMAIN results'
  BY NewRow
<1>6. EvidenceAt(k, r, why, n)'
  <2>1. CASE why = "futility"
    <3>1. PICK m \in 0..n : LET last == RowsAt(k, r, n) \ RowsAt(k, r, m)
                            IN  Cardinality(last) = FutilityConsecutiveFails /\ Passes(last) = {}
      BY <2>1 DEF EvidenceAt
    <3>2. LET last == RowsAt(k, r, n) \ RowsAt(k, r, m)
          IN  (Cardinality(last) = FutilityConsecutiveFails)' /\ (Passes(last) = {})'
      BY <1>2, <1>4, <3>1
    <3> QED
      BY <2>1, <3>2 DEF EvidenceAt
  <2>2. CASE why # "futility"
    BY <1>2, <1>4, <2>2 DEF EvidenceAt
  <2> QED
    BY <2>1, <2>2
<1> QED
  BY <1>5, <1>6

LEMMA SkipEvident ==
    ASSUME TypeOK, Evidence, NEW t \in Tasks, DispatchSkips(t), UNCHANGED task
    PROVE  Evidence'
<1> DEFINE row == [task |-> t, outcome |-> "skipped"]
<1>1. results \in Seq(Rows) /\ UNCHANGED ladder
  BY DEF TypeOK, DispatchSkips
<1>2. row \in Rows /\ row.outcome = "skipped" /\ results' = Append(results, row)
  BY DEF DispatchSkips, Rows
<1> HIDE DEF row
<1>3. \A k \in Tracks, r \in Rungs : At(k, r)' = At(k, r)
  BY <1>1, <1>2, RowsGrow
<1>4. Len(results') = Len(results) + 1 /\ Len(results) \in Nat /\ DOMAIN results = 1..Len(results)
  BY <1>1, <1>2
<1>5. Streaks'
  <2> SUFFICES ASSUME NEW k \in Tracks, NEW r \in Rungs
               PROVE  /\ \E m \in 0..Len(results') : StreakFrom(k, r, m)'
                      /\ Allowed(ladder'[k], r) => Fails(k, r)' < FutilityConsecutiveFails
    BY DEF Streaks
  <2>1. PICK m \in 0..Len(results) : StreakFrom(k, r, m)
    BY DEF Evidence, Streaks
  <2>2. At(k, r)' = At(k, r) /\ RowsAt(k, r, m)' = RowsAt(k, r, m)
    BY <1>1, <1>2, <1>3, EarlierRowsStay
  <2>3. Since(k, r, m)' = Since(k, r, m) /\ Since(k, r, m) \in SUBSET DOMAIN results
    BY <1>4, <2>2 DEF Since, At, RowsAt
  <2>4. Passes(Since(k, r, m))' = Passes(Since(k, r, m))
    <3>1. \A S \in SUBSET DOMAIN results : {i \in S : results'[i].outcome = "passed"} = Passes(S)
      BY <1>1, <1>2, EarlierRowsStay DEF Passes
    <3> QED
      BY <2>3, <3>1 DEF Passes
  <2>5. StreakFrom(k, r, m)' /\ m \in 0..Len(results')
    BY <1>1, <1>4, <2>1, <2>3, <2>4 DEF StreakFrom, Fails
  <2>6. Allowed(ladder'[k], r) => Fails(k, r)' < FutilityConsecutiveFails
    BY <1>1 DEF Evidence, Streaks, Fails
  <2> QED
    BY <2>5, <2>6
<1>6. AbandonedRightly'
  <2> SUFFICES ASSUME NEW k \in Tracks, ladder'[k].abandonFrom # 0
               PROVE  \E n \in DOMAIN results' : EvidenceAt(k, ladder[k].abandonFrom, ladder[k].abandonWhy, n)'
    BY DEF AbandonedRightly
  <2>1. PICK from, why : from = ladder[k].abandonFrom /\ why = ladder[k].abandonWhy
    OBVIOUS
  <2>2. PICK n \in DOMAIN results : EvidenceAt(k, from, why, n)
    BY <1>1, <2>1 DEF Evidence, AbandonedRightly
  <2>3. n \in DOMAIN results' /\ EvidenceAt(k, from, why, n)'
    BY <1>1, <1>2, <2>2, EvidenceStays
  <2> QED
    BY <1>1, <2>1, <2>3
<1> QED
  BY <1>5, <1>6 DEF Evidence

\* The run of failures of one rung after one more result on its track.
LEMMA StreakGoesOn ==
    ASSUME TypeOK, Streaks, NEW t \in Tasks, NEW o \in Outcomes, Complete(t, o), UNCHANGED task,
           NEW k \in Tracks, NEW r \in Rungs
    PROVE  /\ \E m \in 0..Len(results') : StreakFrom(k, r, m)'
           /\ Allowed(ladder'[k], r) => Fails(k, r)' < FutilityConsecutiveFails
<1> DEFINE row == [task |-> t, outcome |-> IF o.passed THEN "passed" ELSE "failed"]
           track == task[t].track
           rung == task[t].rung
           was == ladder[track].rungs[rung]
<1>0. PICK new : new = Len(results) + 1
  OBVIOUS
<1>1. /\ results \in Seq(Rows) /\ track \in Tracks /\ rung \in Rungs /\ o.passed \in BOOLEAN
      /\ ladder \in [Tracks -> TrackStates] /\ ladder[track] \in TrackStates
  BY TaskTyped, OutcomeTyped DEF TypeOK
<1>2. /\ row \in Rows /\ row.outcome # "skipped" /\ (row.outcome = "passed" <=> o.passed)
      /\ row.task = t /\ results' = Append(results, row)
  BY <1>1 DEF Complete, Rows
<1> HIDE DEF row
<1>3. /\ Len(results') = new /\ Len(results) \in Nat /\ DOMAIN results = 1..Len(results)
      /\ new \notin DOMAIN results /\ results'[new] = row
  BY <1>0, <1>1, <1>2, NewRow
<1>4. At(k, r)' = IF track = k /\ rung = r THEN At(k, r) \cup {new} ELSE At(k, r)
  <2>1. At(k, r)' = IF row.outcome # "skipped" /\ task[row.task].track = k /\ task[row.task].rung = r
                    THEN At(k, r) \cup {new} ELSE At(k, r)
    BY <1>0, <1>1, <1>2, RowsGrow
  <2> QED
    BY <1>2, <2>1
<1>5. ladder' = [ladder EXCEPT ![track] = Record(ladder[track], rung, o.passed)]
  BY DEF Complete
<1>6. Record(ladder[track], rung, o.passed).rungs = [ladder[track].rungs EXCEPT ![rung] = Scored(was, o.passed)]
  BY <1>1, RecordTallies
<1>7. ladder[track].rungs \in [Rungs -> Tallies] /\ was \in Tallies
  BY <1>1 DEF TrackStates
<1>8. Fails(k, r)' = IF track = k /\ rung = r THEN (IF o.passed THEN 0 ELSE Fails(k, r) + 1) ELSE Fails(k, r)
  <2>1. CASE track = k /\ rung = r
    <3>1. ladder'[k].rungs[r] = Scored(was, o.passed) /\ was = ladder[k].rungs[r]
      BY <1>1, <1>5, <1>6, <1>7, <2>1
    <3>2. Scored(was, o.passed).consecutiveFails = IF o.passed THEN 0 ELSE was.consecutiveFails + 1
      BY DEF Scored
    <3> QED
      BY <2>1, <3>1, <3>2 DEF Fails
  <2>2. CASE ~(track = k /\ rung = r)
    <3>1. ladder'[k].rungs[r] = ladder[k].rungs[r]
      BY <1>1, <1>5, <1>6, <1>7, <2>2
    <3> QED
      BY <2>2, <3>1 DEF Fails
  <2> QED
    BY <2>1, <2>2
<1>9. Allowed(ladder'[k], r) => Allowed(ladder[k], r)
  <2>1. CASE track = k
    BY <1>1, <1>5, <2>1, RecordKeepsAbandoned
  <2>2. CASE track # k
    BY <1>1, <1>5, <2>2
  <2> QED
    BY <2>1, <2>2
<1>10. Fails(k, r) \in Nat /\ FutilityConsecutiveFails \in Nat \ {0}
  BY <1>1, LadderAssumption DEF Fails, TrackStates, Tallies
<1>11. PICK m \in 0..Len(results) : StreakFrom(k, r, m)
  BY DEF Streaks
<1>12. RowsAt(k, r, m)' = RowsAt(k, r, m) /\ RowsAt(k, r, m) \subseteq 1..m
  BY <1>1, <1>2, EarlierRowsStay DEF RowsAt
<1>13. Since(k, r, m) \in SUBSET DOMAIN results
  BY <1>3 DEF Since, At, RowsAt
<1>14. \A S \in SUBSET DOMAIN results : {i \in S : results'[i].outcome = "passed"} = Passes(S)
  BY <1>1, <1>2, EarlierRowsStay DEF Passes
<1>15. CASE ~(track = k /\ rung = r)
  <2>1. Since(k, r, m)' = Since(k, r, m) /\ Fails(k, r)' = Fails(k, r)
    BY <1>4, <1>8, <1>12, <1>15 DEF Since
  <2>2. Passes(Since(k, r, m))' = Passes(Since(k, r, m))
    BY <1>13, <1>14, <2>1 DEF Passes
  <2>3. StreakFrom(k, r, m)' /\ m \in 0..Len(results')
    BY <1>0, <1>3, <1>11, <2>1, <2>2 DEF StreakFrom
  <2> QED
    BY <1>9, <2>1, <2>3 DEF Streaks
<1>16. CASE track = k /\ rung = r /\ o.passed
  <2>1. Since(k, r, new)' = {}
    <3>1. RowsAt(k, r, new)' = At(k, r)'
      BY <1>3 DEF At
    <3> QED
      BY <3>1 DEF Since
  <2>2. Passes(Since(k, r, new))' = {}
    BY <2>1 DEF Passes
  <2>3. StreakFrom(k, r, new)'
    BY <1>8, <1>16, <2>1, <2>2, FS_EmptySet DEF StreakFrom
  <2>4. new \in 0..Len(results') /\ Fails(k, r)' < FutilityConsecutiveFails
    BY <1>0, <1>3, <1>8, <1>10, <1>16
  <2> QED
    BY <2>3, <2>4
<1>17. CASE track = k /\ rung = r /\ ~o.passed
  <2>1. Since(k, r, m)' = Since(k, r, m) \cup {new}
    <3>1. new \notin RowsAt(k, r, m)
      BY <1>3, <1>12
    <3> QED
      BY <1>4, <1>12, <1>17, <3>1 DEF Since
  <2>2. Passes(Since(k, r, m))' = {}
    <3>1. Passes(Since(k, r, m)) = {} /\ results'[new].outcome # "passed"
      BY <1>2, <1>3, <1>11, <1>17 DEF StreakFrom
    <3>2. Passes(Since(k, r, m))' = {i \in Since(k, r, m) \cup {new} : results'[i].outcome = "passed"}
      BY <2>1 DEF Passes
    <3>3. {i \in Since(k, r, m) : results'[i].outcome = "passed"} = {}
      BY <1>13, <1>14, <3>1
    <3> QED
      BY <3>1, <3>2, <3>3
  <2>3. Cardinality(Since(k, r, m) \cup {new}) = Cardinality(Since(k, r, m)) + 1
    BY <1>0, <1>1, <1>13, OneMore
  <2>4. StreakFrom(k, r, m)' /\ m \in 0..Len(results')
    <3>1. Cardinality(Since(k, r, m)') = Fails(k, r)'
      BY <1>8, <1>11, <1>17, <2>1, <2>3 DEF StreakFrom
    <3>2. m \in 0..Len(results')
      BY <1>0, <1>3, <1>11
    <3> QED
      BY <2>2, <3>1, <3>2 DEF StreakFrom
  <2>5. Allowed(ladder'[k], r) => Fails(k, r)' < FutilityConsecutiveFails
    <3> SUFFICES ASSUME Allowed(ladder'[k], r)
                 PROVE  Fails(k, r) + 1 < FutilityConsecutiveFails
      BY <1>8, <1>17
    <3> DEFINE now == Record(ladder[track], rung, o.passed)
               tally == Scored(was, o.passed)
    <3>1. ladder'[k] = now /\ Allowed(ladder[track], rung)
      BY <1>1, <1>5, <1>9, <1>17
    <3>2. rung # 0 /\ ~(rung < rung)
      BY <1>1 DEF Rungs
    <3>3. ~(Allowed(ladder[track], rung) /\ StopReason(tally) # "")
      <4>1. now.abandonFrom # rung
        BY <1>17, <3>1, <3>2 DEF Allowed
      <4> HIDE DEF now
      <4> QED
        BY <1>1, <4>1, RecordAbandons DEF now
    <3>4. StopReason(tally) = ""
      BY <3>1, <3>3
    <3>5. ~(tally.consecutiveFails >= FutilityConsecutiveFails)
      BY <3>4 DEF StopReason
    <3>6. tally.consecutiveFails = Fails(k, r) + 1
      BY <1>17 DEF Scored, Fails
    <3> HIDE DEF tally
    <3> QED
      BY <1>10, <3>5, <3>6
  <2> QED
    BY <2>4, <2>5
<1> QED
  BY <1>1, <1>15, <1>16, <1>17

LEMMA CompleteEvident ==
    ASSUME TypeOK, Evidence, LadderCounts', NEW t \in Tasks, NEW o \in Outcomes, Complete(t, o), UNCHANGED task
    PROVE  Evidence'
<1> DEFINE row == [task |-> t, outcome |-> IF o.passed THEN "passed" ELSE "failed"]
           track == task[t].track
           rung == task[t].rung
           tally == Scored(ladder[track].rungs[rung], o.passed)
<1>1. /\ results \in Seq(Rows) /\ track \in Tracks /\ rung \in Rungs /\ o.passed \in BOOLEAN
      /\ ladder \in [Tracks -> TrackStates] /\ ladder[track] \in TrackStates
  BY TaskTyped, OutcomeTyped DEF TypeOK
<1>2. row \in Rows /\ results' = Append(results, row) /\ Len(results') \in DOMAIN results'
  BY <1>1 DEF Complete, Rows
<1>3. ladder' = [ladder EXCEPT ![track] = Record(ladder[track], rung, o.passed)]
  BY DEF Complete
<1>4. Streaks'
  <2>1. \A k \in Tracks, r \in Rungs :
          /\ \E m \in 0..Len(results') : StreakFrom(k, r, m)'
          /\ Allowed(ladder'[k], r) => Fails(k, r)' < FutilityConsecutiveFails
    BY StreakGoesOn DEF Evidence
  <2> QED
    BY <2>1 DEF Streaks
<1> HIDE DEF row
<1>5. AbandonedRightly'
  <2> SUFFICES ASSUME NEW k \in Tracks, ladder'[k].abandonFrom # 0
               PROVE  \E n \in DOMAIN results' : EvidenceAt(k, ladder[k].abandonFrom, ladder[k].abandonWhy, n)'
    BY DEF AbandonedRightly
  <2>1. CASE /\ ladder'[k].abandonFrom = ladder[k].abandonFrom
             /\ ladder'[k].abandonWhy = ladder[k].abandonWhy
    <3>1. PICK from, why : from = ladder[k].abandonFrom /\ why = ladder[k].abandonWhy
      OBVIOUS
    <3>2. PICK n \in DOMAIN results : EvidenceAt(k, from, why, n)
      BY <2>1, <3>1 DEF Evidence, AbandonedRightly
    <3>3. n \in DOMAIN results' /\ EvidenceAt(k, from, why, n)'
      BY <1>1, <1>2, <3>2, EvidenceStays
    <3> QED
      BY <2>1, <3>1, <3>3
  <2>2. CASE /\ k = track /\ Allowed(ladder[track], rung) /\ StopReason(tally) # ""
             /\ ladder'[k].abandonFrom = rung /\ ladder'[k].abandonWhy = StopReason(tally)
    <3>1. PICK n, r, why : n = Len(results') /\ r = rung /\ why = StopReason(tally)
      OBVIOUS
    <3>2. ladder'[k].rungs[r] = tally
      <4>1. ladder[track].rungs \in [Rungs -> Tallies]
        BY <1>1 DEF TrackStates
      <4>2. Record(ladder[track], rung, o.passed).rungs = [ladder[track].rungs EXCEPT ![rung] = tally]
        BY <1>1, RecordTallies
      <4>3. ladder'[k] = Record(ladder[track], rung, o.passed)
        BY <1>1, <1>3, <2>2
      <4> HIDE DEF tally
      <4> QED
        BY <1>1, <3>1, <4>1, <4>2, <4>3
    <3>3. tally.consecutiveFails <= Fails(k, r) + 1 /\ Fails(k, r) \in Nat
      <4>1. Fails(k, r) \in Nat
        BY <1>1, <2>2, <3>1 DEF Fails, TrackStates, Tallies
      <4>2. tally.consecutiveFails = IF o.passed THEN 0 ELSE Fails(k, r) + 1
        <5>1. Fails(k, r) = ladder[track].rungs[rung].consecutiveFails
          BY <2>2, <3>1 DEF Fails
        <5> QED
          BY <5>1 DEF Scored
      <4> HIDE DEF tally
      <4> QED
        BY <4>1, <4>2
    <3>4. tally.n = Cardinality(At(k, r))' /\ tally.passed = Cardinality(Passes(At(k, r)))'
      BY <1>1, <3>1, <3>2 DEF LadderCounts
    <3>5. RowsAt(k, r, n)' = At(k, r)'
      BY <3>1 DEF At
    <3>6. CASE why = "futility"
      <4>1. tally.consecutiveFails >= FutilityConsecutiveFails
        BY <3>1, <3>6 DEF StopReason
      <4>2. Fails(k, r) < FutilityConsecutiveFails
        BY <1>1, <2>2, <3>1 DEF Evidence, Streaks
      <4>3. FutilityConsecutiveFails \in Nat /\ tally.consecutiveFails \in Nat
        BY <1>1, ScoredTyped, LadderAssumption DEF TrackStates, Tallies
      <4>4. tally.consecutiveFails = FutilityConsecutiveFails
        <5> HIDE DEF tally
        <5> QED
          BY <3>3, <4>1, <4>2, <4>3
      <4>5. PICK m \in 0..Len(results') : StreakFrom(k, r, m)'
        BY <1>1, <3>1, <1>4 DEF Streaks
      <4>6. /\ Cardinality(Since(k, r, m))' = FutilityConsecutiveFails
            /\ Passes(Since(k, r, m))' = {}
        BY <3>2, <4>4, <4>5 DEF StreakFrom, Fails
      <4>7. EvidenceAt(k, r, why, n)'
        <5>1. Since(k, r, m)' = RowsAt(k, r, n)' \ RowsAt(k, r, m)'
          BY <3>5 DEF Since
        <5>2. m \in 0..n
          BY <3>1
        <5>3. LET last == RowsAt(k, r, n) \ RowsAt(k, r, m)
              IN  (Cardinality(last) = FutilityConsecutiveFails)' /\ (Passes(last) = {})'
          BY <4>6, <5>1 DEF Passes
        <5> QED
          BY <3>6, <5>2, <5>3 DEF EvidenceAt
      <4> QED
        BY <1>2, <2>2, <3>1, <4>7
    <3>7. CASE why # "futility"
      <4>1. tally.n >= StopMinN /\ UpperBelowStop(tally.passed, tally.n)
        BY <2>2, <3>1, <3>7 DEF StopReason
      <4>2. /\ Cardinality(RowsAt(k, r, n))' = tally.n
            /\ Cardinality(Passes(RowsAt(k, r, n)))' = tally.passed
        BY <3>4, <3>5 DEF Passes
      <4>3. EvidenceAt(k, r, why, n)'
        <5> HIDE DEF tally
        <5> QED
          BY <3>7, <4>1, <4>2 DEF EvidenceAt, UpperBelowStop
      <4> QED
        BY <1>2, <2>2, <3>1, <4>3
    <3> QED
      BY <3>6, <3>7
  <2>3. CASE k # track
    BY <1>1, <1>3, <2>1, <2>3
  <2>4. CASE k = track
    <3>1. ladder'[k] = Record(ladder[track], rung, o.passed)
      BY <1>1, <1>3, <2>4
    <3>2. \/ /\ Allowed(ladder[track], rung) /\ StopReason(tally) # ""
             /\ ladder'[k].abandonFrom = rung /\ ladder'[k].abandonWhy = StopReason(tally)
          \/ /\ ladder'[k].abandonFrom = ladder[k].abandonFrom
             /\ ladder'[k].abandonWhy = ladder[k].abandonWhy
      <4> DEFINE now == Record(ladder[track], rung, o.passed)
      <4>1. \/ /\ Allowed(ladder[track], rung) /\ StopReason(tally) # ""
               /\ now.abandonFrom = rung /\ now.abandonWhy = StopReason(tally)
            \/ /\ now.abandonFrom = ladder[track].abandonFrom
               /\ now.abandonWhy = ladder[track].abandonWhy
        BY <1>1, RecordAbandons
      <4> HIDE DEF now, tally
      <4> QED
        BY <2>4, <3>1, <4>1 DEF now
    <3> QED
      <4>1. CASE /\ Allowed(ladder[track], rung) /\ StopReason(tally) # ""
                 /\ ladder'[k].abandonFrom = rung /\ ladder'[k].abandonWhy = StopReason(tally)
        BY <2>2, <2>4, <4>1
      <4>2. CASE /\ ladder'[k].abandonFrom = ladder[k].abandonFrom
                 /\ ladder'[k].abandonWhy = ladder[k].abandonWhy
        BY <2>1, <4>2
      <4> QED
        BY <3>2, <4>1, <4>2
  <2> QED
    BY <2>3, <2>4
<1> QED
  BY <1>4, <1>5 DEF Evidence

LEMMA NextEvident == TypeOK /\ Accounts' /\ Evidence /\ [Next]_vars => Evidence'
<1> SUFFICES ASSUME TypeOK, Accounts', Evidence, [Next]_vars
             PROVE  Evidence'
  OBVIOUS
<1>1. ASSUME NEW t \in Tasks, NEW o \in Outcomes, Complete(t, o), UNCHANGED task
      PROVE  Evidence'
  BY <1>1, CompleteEvident DEF Accounts
<1>2. ASSUME UNCHANGED <<task, ladder, results>>
      PROVE  Evidence'
  <2>1. task' = task /\ ladder' = ladder /\ results' = results
    BY <1>2
  <2>2. Streaks'
    <3>1. \A k, r, m : StreakFrom(k, r, m)' = StreakFrom(k, r, m)
      BY <2>1 DEF StreakFrom, Since, Fails, At, RowsAt, Passes
    <3>2. \A k, r : Fails(k, r)' = Fails(k, r)
      BY <2>1 DEF Fails
    <3> QED
      BY <2>1, <3>1, <3>2 DEF Evidence, Streaks
  <2>3. AbandonedRightly'
    <3>1. \A k, r, why, n : EvidenceAt(k, r, why, n)' = EvidenceAt(k, r, why, n)
      BY <2>1 DEF EvidenceAt, RowsAt, Passes
    <3> QED
      BY <2>1, <3>1 DEF Evidence, AbandonedRightly
  <2> QED
    BY <2>2, <2>3 DEF Evidence
<1>3. ASSUME NEW t \in Tasks, DispatchSkips(t), UNCHANGED task
      PROVE  Evidence'
  BY <1>3, SkipEvident
<1>4. ASSUME NEW t \in Tasks, SerialDispatch(t) \/ JudgeDispatch(t)
      PROVE  (DispatchSkips(t) /\ UNCHANGED task) \/ UNCHANGED <<task, ladder, results>>
  BY <1>4 DEF SerialDispatch, JudgeDispatch, DispatchRuns, DispatchFails
<1>5. ASSUME NEW t \in Tasks, SerialComplete(t) \/ WorkerComplete(t)
      PROVE  UNCHANGED task /\ \E o \in Outcomes : Complete(t, o) \/ UNCHANGED <<ladder, results>>
  BY <1>5 DEF SerialComplete, WorkerComplete, CompleteFails
<1>6. ASSUME \/ AcquireSlot \/ DispatcherReports \/ Finish
             \/ \E t \in Tasks : WorkerReports(t)
             \/ UNCHANGED vars
      PROVE  UNCHANGED <<task, ladder, results>>
  BY <1>6 DEF AcquireSlot, DispatcherReports, Finish, WorkerReports
<1> QED
  BY <1>1, <1>2, <1>3, <1>4, <1>5, <1>6 DEF Next

\* A rung is abandoned for what the rows said at one moment, however many
\* tasks of the rung were still under way then.
THEOREM AbandonedForAReason == Spec => []AbandonedOnEvidence
<1>1. Init => Evidence
  <2> SUFFICES ASSUME Init PROVE Evidence
    OBVIOUS
  <2>1. results = <<>> /\ Len(results) = 0 /\ \A k \in Tracks : ladder[k] = NewTrack
    BY DEF Init
  <2>2. \A k \in Tracks, r \in Rungs : Fails(k, r) = 0
    BY DEF Init, NewTrack, Fails
  <2>3. \A k \in Tracks, r \in Rungs : StreakFrom(k, r, 0)
    <3>1. \A k \in Tracks, r \in Rungs : Since(k, r, 0) = {}
      BY <2>1 DEF Since, At, RowsAt
    <3> QED
      BY <2>2, <3>1, FS_EmptySet DEF StreakFrom, Passes
  <2>4. \A k \in Tracks : ladder[k].abandonFrom = 0
    BY DEF Init, NewTrack
  <2> QED
    BY <2>1, <2>2, <2>3, <2>4, LadderAssumption DEF Evidence, Streaks, AbandonedRightly
<1>2. Evidence => AbandonedOnEvidence
  BY DEF Evidence, AbandonedRightly, EvidenceAt, AbandonedOnEvidence
<1>3. Init => Accounts
  BY InitialAccounts
<1> QED
  BY <1>1, <1>2, <1>3, InitTyped, NextTyped, InitPlaced, NextPlaced, NextCounted, NextEvident, PTL DEF Spec

\* What was skipped and what was abandoned rests on the rows (runState.dispatch,
\* TrackState.Record).
THEOREM LadderIsRight == Spec => []LadderRests
  BY SkipsRest, AbandonedForAReason, PTL DEF LadderRests

-----------------------------------------------------------------------------
\* A finished run has one row per task and every account is that of the rows
\* (RunAgenticParallel).
THEOREM RowsAreComplete == Spec => []RowsComplete
  BY EveryTaskRecorded, AccountsAreRows, PTL DEF RowsComplete
=============================================================================
