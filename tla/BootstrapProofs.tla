-------------------------- MODULE BootstrapProofs --------------------------
(***************************************************************************)
(* Theorems about Bootstrap, for any history, any number of pollers, of    *)
(* commands, of batches and of failures: what the commands that write the  *)
(* library and the results keep true of them, however they interleave.     *)
(*                                                                         *)
(* Every step of bootstrap is a step some command takes by hand, so what   *)
(* the commands keep is shown of ScoringNext, once for each action.        *)
(***************************************************************************)
EXTENDS Bootstrap, FiniteSetTheorems, SequenceTheorems, WellFoundedInduction, TLAPS

USE DEF vars, bootVars, scoringVars, scoring, libraryVars, library, writers, bounds

-----------------------------------------------------------------------------
(***************************************************************************)
(* The inductive invariant. First the types.                               *)
(***************************************************************************)
TaskRows ==
    [commit : Commits, brief : Nat, source : Sources, status : BriefStatuses, batch : Nat,
     request : Nat, turnType : {TurnTypeOf[c] : c \in Commits}, nature : {NatureOf[c] : c \in Commits},
     difficulty : {"simple", "challenging"}, holdout : {HoldoutOf[c] : c \in Commits}]
Batches == [items : SUBSET Nat, answered : SUBSET Nat, ended : BOOLEAN]
BriefRows == [brief : Nat, source : Sources, batch : Nat]
Readings == UNION {[ids -> BriefRows] : ids \in SUBSET Nat}

Seeders == [pc : {Idle, "seed"}, known : SUBSET Commits, left : Seq(Commits), inserted : Nat, docs : Nat]
SubmitterStates == [pc : {Idle, "submit", "mark"}, rows : Readings, left : SUBSET Nat, batch : Nat]
PollerStates ==
    [pc : {Idle, "get", "apply"}, rows : Readings, groups : SUBSET Nat, left : SUBSET Nat,
     batch : Nat, running : BOOLEAN]
Refreshers == [pc : {Idle, "request", "holdout"}, rows : Readings, left : SUBSET Nat]

RunRows == [summary : BOOLEAN, total : Nat, passed : Nat, tasks : Nat]
ResultRows ==
    [run : Nat, task : Nat, source : Sources, request : Nat, scored : BOOLEAN, passed : BOOLEAN,
     stage : Outcomes \cup {"judge"}, error : BOOLEAN, verdict : Nat \cup {Unjudged}]
Evaluators ==
    [pc : {Idle, "score"}, rows : Seq(TaskRows), left : SUBSET Nat, tallies : [Tracks -> TrackStates],
     spent : Nat, over : BOOLEAN, scored : Nat, passed : Nat]
GraderStates == [pc : {Idle, "grade"}, left : SUBSET Nat, shown : Nat \cup {Unjudged}]

LibraryTypes == head \in FirstHead..Len(History) /\ tasks \in Seq(TaskRows) /\ batches \in Seq(Batches)
WriterTypes ==
    /\ seeder \in Seeders /\ submitter \in [Submitters -> SubmitterStates]
    /\ poller \in [Pollers -> PollerStates] /\ refresher \in Refreshers
ScoringTypes ==
    /\ runs \in Seq(RunRows) /\ results \in Seq(ResultRows)
    /\ evaluator \in Evaluators /\ grader \in [Graders -> GraderStates]
BoundTypes == commands \in 0..MaxCommands /\ faults \in 0..MaxFaults
TypeInv == LibraryTypes /\ WriterTypes /\ ScoringTypes /\ BoundTypes

(***************************************************************************)
(* A row was never submitted, or it is marked with the batch that has it   *)
(* as an item; once the batch has ended, with the text it has for it.      *)
(***************************************************************************)
Mechanical(i) == tasks[i].source = "commit_subject" /\ tasks[i].brief = NoBatch

MarkedWith(i, b) == b \in DOMAIN batches /\ i \in batches[b].items

RowSound(i) ==
    LET row == tasks[i]
        b == tasks[i].batch
    IN  /\ row.commit \in 1..head
        /\ row.request \in Texts
        /\ row.status = "none" => Mechanical(i) /\ b = NoBatch
        /\ row.status # "none" => MarkedWith(i, b)
        /\ row.status \in {"submitted", "errored"} => Mechanical(i)
        /\ row.status = "done" =>
              row.source = "reverse_engineered" /\ row.brief = b /\ i \in batches[b].answered

BatchSound(b) == batches[b].items \subseteq TaskIds /\ batches[b].answered \subseteq batches[b].items

\* Texts that have been applied are those of batches that have ended.
Answered(i) == tasks[i].status = "done" => batches[tasks[i].batch].ended

LibraryInv ==
    /\ \A i \in TaskIds : RowSound(i) /\ Answered(i)
    /\ \A b \in DOMAIN batches : BatchSound(b)

\* What a submitter has left it read as never submitted. It still is, where
\* submissions do not overlap.
Stale(rows, i) == rows[i].brief = NoBatch /\ rows[i].source = "commit_subject"

SubmitterSound(s) ==
    LET at == submitter[s]
    IN  /\ at.left \subseteq TaskIds
        /\ \A i \in at.left :
              /\ i \in DOMAIN at.rows /\ Stale(at.rows, i)
              /\ OneSubmitter => tasks[i].status = "none"
        /\ at.pc = "mark" =>
              at.batch \in DOMAIN batches /\ at.left \subseteq batches[at.batch].items

SubmittersInv == \A s \in Submitters : SubmitterSound(s)

\* What a poll read was submitted, in a batch that has it as an item; where
\* submissions do not overlap, the row is marked with that one still.
PollerSound(p) ==
    LET at == poller[p]
    IN  /\ DOMAIN at.rows \subseteq TaskIds
        /\ \A i \in DOMAIN at.rows :
              /\ Stale(at.rows, i) /\ tasks[i].status # "none" /\ MarkedWith(i, at.rows[i].batch)
              /\ OneSubmitter => at.rows[i].batch = tasks[i].batch
        /\ at.groups \subseteq DOMAIN batches
        /\ at.pc = "apply" =>
              at.batch \in DOMAIN batches /\ batches[at.batch].ended /\ at.left \subseteq OfGroup(p, at.batch)

PollersInv == \A p \in Pollers : PollerSound(p)

RefresherInv ==
    /\ refresher.left \subseteq DOMAIN refresher.rows /\ DOMAIN refresher.rows \subseteq TaskIds
    /\ \A i \in DOMAIN refresher.rows : refresher.rows[i].brief \in Texts
    /\ refresher.pc = "holdout" => refresher.left # {}

(***************************************************************************)
(* The commits a seeder has left are different ones, and what the library  *)
(* has of them it knows. Its own tasks keep the share of documentation,    *)
(* and so do all the others.                                               *)
(***************************************************************************)
DocsOf == {i \in TaskIds : tasks[i].nature = "docs"}

ListSound ==
    /\ \A j, k \in DOMAIN seeder.left : seeder.left[j] = seeder.left[k] => j = k
    /\ \A k \in DOMAIN seeder.left :
          /\ seeder.left[k] \in 1..head
          /\ seeder.left[k] \in Seeded => seeder.left[k] \in seeder.known

SharesSound ==
    DocsShare > 0 =>
        /\ 100 * seeder.docs <= DocsShare * seeder.inserted
        /\ 100 * (Cardinality(DocsOf) - seeder.docs) <= DocsShare * (Len(tasks) - seeder.inserted)

NaturesSound == \A i \in TaskIds : tasks[i].nature = NatureOf[tasks[i].commit]

SeederInv ==
    /\ ListSound /\ SharesSound /\ OneTaskPerCommit
    /\ seeder.pc = Idle => seeder.left = <<>> /\ seeder.inserted = 0 /\ seeder.docs = 0

(***************************************************************************)
(* The run under way has a row for each task it has done with, and the     *)
(* evaluator has counted those it scored and, until a judge changes one,   *)
(* those that passed.                                                      *)
(***************************************************************************)
RowsIn(rows, r) == {k \in DOMAIN rows : rows[k].run = r}
ScoredIn(rows, r) == {k \in RowsIn(rows, r) : rows[k].scored}
PassedIn(rows, r) == {k \in ScoredIn(rows, r) : rows[k].passed}
UnjudgedIn(rows, r) == \A k \in ScoredIn(rows, r) : rows[k].verdict = Unjudged

Tallied(rows, r, n, left, scored, passed) ==
    /\ {rows[k].task : k \in RowsIn(rows, r)} = (1..n) \ left
    /\ Cardinality(RowsIn(rows, r)) + Cardinality(left) = n
    /\ scored = Cardinality(ScoredIn(rows, r))
    /\ UnjudgedIn(rows, r) => passed = Cardinality(PassedIn(rows, r))

SummariesSound ==
    \A r \in DOMAIN runs :
        runs[r].summary => Tallied(results, r, runs[r].tasks, {}, runs[r].total, runs[r].passed)

EvaluatorSound ==
    evaluator.pc = "score" =>
        LET r == Len(runs)
        IN  /\ r \in DOMAIN runs /\ ~runs[r].summary
            /\ runs[r].tasks = Len(evaluator.rows) /\ runs[r].tasks <= Len(tasks)
            /\ evaluator.left \subseteq 1..runs[r].tasks
            /\ Tallied(results, r, runs[r].tasks, evaluator.left, evaluator.scored, evaluator.passed)

ResultsSound == \A k \in DOMAIN results : results[k].task \in TaskIds /\ results[k].run \in DOMAIN runs

RunInv == SummariesSound /\ EvaluatorSound /\ ResultsSound

\* What a grader has left is not settled, where gradings do not overlap.
GraderSound(g) ==
    /\ \A k \in grader[g].left : k \in DOMAIN results /\ (OneGrader => Ungraded(results[k]))
    /\ grader[g].shown # Unjudged => grader[g].left # {}

GradersInv == \A g \in Graders : GraderSound(g)

BootInv == boot \in BootSteps /\ tried \in 0..Backends /\ (boot = "evaluate" => tried < Backends)

IInv ==
    /\ LibraryInv /\ SubmittersInv /\ PollersInv /\ RefresherInv /\ NaturesSound /\ SeederInv
    /\ RunInv /\ GradersInv

-----------------------------------------------------------------------------
(***************************************************************************)
(* The constants, and what is read of the tables.                          *)
(***************************************************************************)
LEMMA ConstantsTyped ==
    /\ FirstHead \in 0..Len(History) /\ Len(History) \in Nat /\ Commits = 1..Len(History)
    /\ SeedMax \in Nat /\ DocsShare \in Nat /\ MaxCommands \in Nat /\ MaxFaults \in Nat
    /\ CallTokens \in Nat /\ Backends \in Nat /\ Tracks \subseteq Nat
BY LibraryAssumption, ScoringAssumption, BootstrapAssumption DEF Commits

LEMMA LeastIsIn ==
    ASSUME NEW S, S \subseteq Nat, S # {}
    PROVE  Min(S) \in S
<1> DEFINE R == {pair \in Nat \X Nat : pair[1] < pair[2]}
<1>1. IsWellFoundedOn(R, Nat)
  BY NatLessThanWellFounded, Zenon DEF OpToRel
<1>2. PICK x \in S : \A y \in S : <<y, x>> \notin R
  <2> HIDE DEF R
  <2> QED
    BY <1>1, WFMin, Zenon
<1>3. \A y \in S : x <= y
  <2>1. \A y \in S : ~(y < x)
    BY <1>2
  <2> QED
    BY <2>1
<1> QED
  BY <1>3 DEF Min

LEMMA TaskIdsAre ==
    ASSUME LibraryTypes
    PROVE  TaskIds = 1..Len(tasks) /\ Len(tasks) \in Nat /\ TaskIds \subseteq Nat
BY DEF LibraryTypes, TaskIds

LEMMA RowsTyped ==
    ASSUME LibraryTypes, NEW i \in TaskIds
    PROVE  /\ i \in Nat /\ tasks[i] \in TaskRows
           /\ tasks[i].commit \in Commits /\ tasks[i].brief \in Nat /\ tasks[i].batch \in Nat
           /\ tasks[i].request \in Nat /\ tasks[i].source \in Sources /\ tasks[i].status \in BriefStatuses
<1>1. i \in 1..Len(tasks) /\ Len(tasks) \in Nat
  BY TaskIdsAre
<1>2. tasks[i] \in TaskRows
  BY <1>1 DEF LibraryTypes
<1> QED
  BY <1>1, <1>2 DEF TaskRows

LEMMA ReadingTyped ==
    ASSUME LibraryTypes, NEW ids \in SUBSET TaskIds
    PROVE  /\ BriefsRead(ids) \in Readings /\ DOMAIN BriefsRead(ids) = ids
           /\ \A i \in ids : /\ BriefsRead(ids)[i].brief = tasks[i].brief
                             /\ BriefsRead(ids)[i].source = tasks[i].source
                             /\ BriefsRead(ids)[i].batch = tasks[i].batch
<1>1. ids \in SUBSET Nat
  BY TaskIdsAre
<1>2. \A i \in ids : BriefsRead(ids)[i] \in BriefRows
  BY RowsTyped DEF BriefsRead, BriefRows
<1>3. BriefsRead(ids) \in [ids -> BriefRows]
  BY <1>2 DEF BriefsRead
<1> QED
  BY <1>1, <1>3 DEF BriefsRead, Readings

LEMMA NothingRead == <<>> \in Readings /\ DOMAIN <<>> = {} /\ <<>> \in Seq(TaskRows) /\ Len(<<>>) = 0
<1>1. <<>> \in Seq(BriefRows)
  BY EmptySeq
<1>2. <<>> \in [1..0 -> BriefRows] /\ 1..0 = {}
  BY <1>1, EmptySeq, LenProperties
<1> QED
  BY <1>2, EmptySeq DEF Readings

LEMMA ReadRowTyped ==
    ASSUME NEW rows \in Readings, NEW i \in DOMAIN rows
    PROVE  rows[i].brief \in Nat /\ rows[i].source \in Sources /\ rows[i].batch \in Nat /\ i \in Nat
<1>1. PICK ids \in SUBSET Nat : rows \in [ids -> BriefRows]
  BY DEF Readings
<1>2. rows[i] \in BriefRows /\ i \in Nat
  BY <1>1
<1> QED
  BY <1>2 DEF BriefRows

-----------------------------------------------------------------------------
(***************************************************************************)
(* Types.                                                                  *)
(***************************************************************************)
\* The rows of eval_tasks keep their types when one column is written.
LEMMA TaskWritten ==
    ASSUME LibraryTypes, NEW i \in TaskIds, NEW row \in TaskRows, tasks' = [tasks EXCEPT ![i] = row]
    PROVE  /\ tasks' \in Seq(TaskRows) /\ TaskIds' = TaskIds /\ Len(tasks') = Len(tasks)
           /\ tasks'[i] = row /\ \A j \in TaskIds \ {i} : tasks'[j] = tasks[j]
<1>1. i \in 1..Len(tasks) /\ tasks \in Seq(TaskRows)
  BY TaskIdsAre DEF LibraryTypes
<1>2. tasks' \in Seq(TaskRows) /\ Len(tasks') = Len(tasks)
  BY <1>1, ExceptSeq
<1>3. DOMAIN tasks' = DOMAIN tasks
  BY <1>1, <1>2, LenProperties
<1> QED
  BY <1>1, <1>2, <1>3 DEF TaskIds

LEMMA NewTaskTyped ==
    ASSUME LibraryTypes, NEW c \in 1..head
    PROVE  /\ NewTask(c) \in TaskRows /\ NewTask(c).commit = c /\ NewTask(c).nature = NatureOf[c]
           /\ NewTask(c).brief = NoBatch /\ NewTask(c).source = "commit_subject"
           /\ NewTask(c).status = "none" /\ NewTask(c).batch = NoBatch /\ NewTask(c).request = NoBatch
<1>1. c \in Commits /\ head \in c..Len(History)
  BY ConstantsTyped DEF LibraryTypes
<1>2. DifficultyOf[c][head] \in {"simple", "challenging"}
  BY <1>1 DEF DifficultyOf, Difficulty
<1>3. /\ TurnTypeOf[c] \in {TurnTypeOf[d] : d \in Commits}
      /\ NatureOf[c] \in {NatureOf[d] : d \in Commits}
      /\ HoldoutOf[c] \in {HoldoutOf[d] : d \in Commits}
  BY <1>1
<1>4. NoBatch \in Nat /\ "commit_subject" \in Sources /\ "none" \in BriefStatuses
  BY DEF NoBatch, Sources, BriefStatuses
<1> HIDE DEF NoBatch
<1> QED
  BY <1>1, <1>2, <1>3, <1>4 DEF NewTask, TaskRows

\* A command that starts, and a step that fails, are counted.
LEMMA CountsTyped ==
    ASSUME BoundTypes, UNCHANGED bounds \/ (Started /\ UNCHANGED faults) \/ (Failed /\ UNCHANGED commands)
    PROVE  BoundTypes'
BY ConstantsTyped DEF BoundTypes, Started, Failed

\* A command starts from, and ends in, its idle state.
LEMMA IdleTyped ==
    /\ SeederIdle \in Seeders /\ SubmitterIdle \in SubmitterStates /\ PollerIdle \in PollerStates
    /\ RefresherIdle \in Refreshers /\ EvaluatorIdle \in Evaluators /\ GraderIdle \in GraderStates
<1> USE NothingRead
<1>1. <<>> \in Seq(Commits)
  BY EmptySeq
<1>2. NewTrack \in TrackStates
  BY DEF NewTrack, TrackStates, Tallies, Rungs
<1>3. SeederIdle \in Seeders
  BY <1>1 DEF SeederIdle, Seeders
<1>4. SubmitterIdle \in SubmitterStates
  BY DEF SubmitterIdle, SubmitterStates, NoBatch
<1>5. PollerIdle \in PollerStates
  BY DEF PollerIdle, PollerStates, NoBatch
<1>6. RefresherIdle \in Refreshers
  BY DEF RefresherIdle, Refreshers
<1>7. EvaluatorIdle \in Evaluators
  BY <1>2 DEF EvaluatorIdle, Evaluators
<1>8. GraderIdle \in GraderStates
  BY DEF GraderIdle, GraderStates
<1> QED
  BY <1>3, <1>4, <1>5, <1>6, <1>7, <1>8

LEMMA InitTyped == Init => TypeInv
<1> SUFFICES ASSUME Init PROVE TypeInv
  OBVIOUS
<1>1. /\ <<>> \in Seq(TaskRows) /\ <<>> \in Seq(Batches)
      /\ <<>> \in Seq(RunRows) /\ <<>> \in Seq(ResultRows)
  BY EmptySeq
<1>2. LibraryTypes /\ BoundTypes
  BY <1>1, ConstantsTyped DEF Init, ScoringInit, LibraryInit, LibraryTypes, BoundTypes
<1>3. WriterTypes
  BY IdleTyped DEF Init, ScoringInit, LibraryInit, WriterTypes
<1>4. ScoringTypes
  BY <1>1, IdleTyped DEF Init, ScoringInit, ScoringTypes
<1> QED
  BY <1>2, <1>3, <1>4 DEF TypeInv

LEMMA ListedTyped ==
    ASSUME LibraryTypes
    PROVE  /\ Listed \in Seq(Commits) /\ DOMAIN Listed = 1..head
           /\ \A k \in 1..head : Listed[k] = head + 1 - k
<1>1. head \in Nat /\ head <= Len(History)
  BY ConstantsTyped DEF LibraryTypes
<1>2. \A k \in 1..head : head + 1 - k \in Commits
  BY <1>1, ConstantsTyped
<1>3. Listed \in [1..head -> Commits]
  BY <1>2 DEF Listed
<1> QED
  BY <1>1, <1>3, SeqDef DEF Listed

LEMMA SeedStartTyped ==
    ASSUME TypeInv, SeedStart
    PROVE  /\ seeder' \in Seeders /\ seeder'.pc = "seed" /\ seeder'.known = Seeded /\ seeder'.left = Listed
           /\ seeder'.inserted = 0 /\ seeder'.docs = 0
<1>1. Seeded \in SUBSET Commits
  BY RowsTyped DEF Seeded, TypeInv
<1>2. Listed \in Seq(Commits)
  BY ListedTyped DEF TypeInv
<1> QED
  BY <1>1, <1>2, IdleTyped DEF SeedStart, SeederIdle, Seeders

LEMMA SeedCommitTyped ==
    ASSUME TypeInv, ListSound, SeedCommitStep
    PROVE  LET c == Head(seeder.left)
               inserts == c \notin seeder.known /\ OutcomeOf[c][AllowDocs] = "insert"
               docs == NatureOf[c] = "docs"
           IN  /\ c \in 1..head
               /\ seeder' \in Seeders /\ seeder'.pc = "seed" /\ seeder'.known = seeder.known
               /\ seeder'.left = Tail(seeder.left)
               /\ seeder'.inserted = IF inserts THEN seeder.inserted + 1 ELSE seeder.inserted
               /\ seeder'.docs = IF inserts /\ docs THEN seeder.docs + 1 ELSE seeder.docs
               /\ tasks' = IF inserts THEN Append(tasks, NewTask(c)) ELSE tasks
               /\ tasks' \in Seq(TaskRows)
<1> DEFINE c == Head(seeder.left)
           inserts == c \notin seeder.known /\ OutcomeOf[c][AllowDocs] = "insert"
           docs == NatureOf[c] = "docs"
<1>1. seeder \in Seeders /\ seeder.pc = "seed" /\ seeder.left # <<>>
  BY DEF SeedCommitStep, SeedsMore, TypeInv, WriterTypes
<1>2. seeder.left \in Seq(Commits) /\ seeder.inserted \in Nat /\ seeder.docs \in Nat
  BY <1>1 DEF Seeders
<1>3. Tail(seeder.left) \in Seq(Commits)
  BY <1>1, <1>2, HeadTailProperties
<1>4. c \in 1..head
  <2>1. c = seeder.left[1] /\ 1 \in DOMAIN seeder.left
    BY <1>1, <1>2, EmptySeq, LenProperties
  <2> QED
    BY <2>1 DEF ListSound
<1>5. /\ tasks' = IF inserts THEN Append(tasks, NewTask(c)) ELSE tasks
      /\ seeder' = [seeder EXCEPT
             !.left = Tail(@),
             !.inserted = IF inserts THEN @ + 1 ELSE @,
             !.docs = IF inserts /\ docs THEN @ + 1 ELSE @]
  BY DEF SeedCommitStep
<1>6. tasks' \in Seq(TaskRows)
  BY <1>4, <1>5, NewTaskTyped, AppendProperties DEF TypeInv, LibraryTypes
<1> HIDE DEF c, inserts, docs
<1>7. PICK n \in Nat : n = IF inserts THEN seeder.inserted + 1 ELSE seeder.inserted
  BY <1>2
<1>8. PICK d \in Nat : d = IF inserts /\ docs THEN seeder.docs + 1 ELSE seeder.docs
  BY <1>2
<1>9. seeder' = [seeder EXCEPT !.left = Tail(seeder.left), !.inserted = n, !.docs = d]
  BY <1>5, <1>7, <1>8
<1>10. /\ seeder' \in Seeders /\ seeder'.pc = "seed" /\ seeder'.known = seeder.known
       /\ seeder'.left = Tail(seeder.left) /\ seeder'.inserted = n /\ seeder'.docs = d
  BY <1>1, <1>3, <1>9 DEF Seeders
<1> QED
  BY <1>4, <1>5, <1>6, <1>7, <1>8, <1>10 DEF c, inserts, docs

LEMMA SeedTyped ==
    ASSUME TypeInv, ListSound, SeedNext
    PROVE  LibraryTypes' /\ WriterTypes' /\ BoundTypes'
<1> USE DEF TypeInv
<1>1. CASE SeedStart
  BY <1>1, SeedStartTyped, CountsTyped DEF SeedStart, LibraryTypes, WriterTypes
<1>2. CASE SeedCommitStep
  BY <1>2, SeedCommitTyped, CountsTyped DEF SeedCommitStep, LibraryTypes, WriterTypes
<1>3. CASE SeedEnd
  BY <1>3, IdleTyped, CountsTyped DEF SeedEnd, LibraryTypes, WriterTypes
<1>4. CASE SeedFails
  BY <1>4, IdleTyped, CountsTyped DEF SeedFails, LibraryTypes, WriterTypes
<1> QED
  BY <1>1, <1>2, <1>3, <1>4 DEF SeedNext

-----------------------------------------------------------------------------
\* What a command writes of a row: its brief, or what a request is made of.
BriefWritten(i, brief, source, status, batch) ==
    /\ tasks' \in Seq(TaskRows) /\ TaskIds' = TaskIds /\ Len(tasks') = Len(tasks)
    /\ \A j \in TaskIds \ {i} : tasks'[j] = tasks[j]
    /\ tasks'[i].brief = brief /\ tasks'[i].source = source /\ tasks'[i].status = status
    /\ tasks'[i].batch = batch /\ tasks'[i].request = tasks[i].request
    /\ tasks'[i].commit = tasks[i].commit /\ tasks'[i].nature = tasks[i].nature

LEMMA WritesBrief ==
    ASSUME LibraryTypes, NEW i \in TaskIds, NEW brief \in Nat, NEW source \in Sources,
           NEW status \in BriefStatuses, NEW batch \in Nat,
           tasks' = [tasks EXCEPT ![i].brief = brief, ![i].source = source,
                                  ![i].status = status, ![i].batch = batch]
    PROVE  BriefWritten(i, brief, source, status, batch)
<1> DEFINE row == [tasks[i] EXCEPT !.brief = brief, !.source = source, !.status = status, !.batch = batch]
<1>1. tasks[i] \in TaskRows
  BY RowsTyped
<1>2. row \in TaskRows
  BY <1>1 DEF TaskRows
<1>3. /\ row.brief = brief /\ row.source = source /\ row.status = status /\ row.batch = batch
      /\ row.request = tasks[i].request /\ row.commit = tasks[i].commit /\ row.nature = tasks[i].nature
  BY <1>1 DEF TaskRows
<1>4. tasks' = [tasks EXCEPT ![i] = row]
  <2>1. tasks \in [TaskIds -> TaskRows]
    BY TaskIdsAre DEF LibraryTypes
  <2> QED
    BY <1>1, <2>1 DEF TaskRows
<1> HIDE DEF row
<1> QED
  BY <1>2, <1>3, <1>4, TaskWritten DEF BriefWritten

RequestWritten(i) ==
    /\ tasks' \in Seq(TaskRows) /\ TaskIds' = TaskIds /\ Len(tasks') = Len(tasks)
    /\ \A j \in TaskIds \ {i} : tasks'[j] = tasks[j]
    /\ tasks'[i].brief = tasks[i].brief /\ tasks'[i].source = tasks[i].source
    /\ tasks'[i].status = tasks[i].status /\ tasks'[i].batch = tasks[i].batch
    /\ tasks'[i].commit = tasks[i].commit /\ tasks'[i].nature = tasks[i].nature

LEMMA WritesRequest ==
    ASSUME LibraryTypes, NEW i \in TaskIds, NEW request \in Nat,
           tasks' = [tasks EXCEPT ![i].request = request]
    PROVE  RequestWritten(i) /\ tasks'[i].request = request
<1> DEFINE row == [tasks[i] EXCEPT !.request = request]
<1>1. tasks[i] \in TaskRows
  BY RowsTyped
<1>2. row \in TaskRows
  BY <1>1 DEF TaskRows
<1>3. /\ row.brief = tasks[i].brief /\ row.source = tasks[i].source /\ row.status = tasks[i].status
      /\ row.batch = tasks[i].batch /\ row.request = request
      /\ row.commit = tasks[i].commit /\ row.nature = tasks[i].nature
  BY <1>1 DEF TaskRows
<1>4. tasks' = [tasks EXCEPT ![i] = row]
  <2>1. tasks \in [TaskIds -> TaskRows]
    BY TaskIdsAre DEF LibraryTypes
  <2> QED
    BY <1>1, <2>1 DEF TaskRows
<1> HIDE DEF row
<1> QED
  BY <1>2, <1>3, <1>4, TaskWritten DEF RequestWritten

LEMMA WritesHoldout ==
    ASSUME LibraryTypes, NEW i \in TaskIds, tasks' = [tasks EXCEPT ![i].holdout = HoldoutOf[tasks[i].commit]]
    PROVE  RequestWritten(i) /\ tasks'[i].request = tasks[i].request
<1> DEFINE row == [tasks[i] EXCEPT !.holdout = HoldoutOf[tasks[i].commit]]
<1>1. tasks[i] \in TaskRows /\ tasks[i].commit \in Commits
  BY RowsTyped
<1>2. row \in TaskRows
  <2>1. HoldoutOf[tasks[i].commit] \in {HoldoutOf[c] : c \in Commits}
    BY <1>1
  <2> QED
    BY <1>1, <2>1 DEF TaskRows
<1>3. /\ row.brief = tasks[i].brief /\ row.source = tasks[i].source /\ row.status = tasks[i].status
      /\ row.batch = tasks[i].batch /\ row.request = tasks[i].request
      /\ row.commit = tasks[i].commit /\ row.nature = tasks[i].nature
  BY <1>1 DEF TaskRows
<1>4. tasks' = [tasks EXCEPT ![i] = row]
  <2>1. tasks \in [TaskIds -> TaskRows]
    BY TaskIdsAre DEF LibraryTypes
  <2> QED
    BY <1>1, <2>1 DEF TaskRows
<1> HIDE DEF row
<1> QED
  BY <1>2, <1>3, <1>4, TaskWritten DEF RequestWritten

-----------------------------------------------------------------------------
(***************************************************************************)
(* The submitters and the service.                                         *)
(***************************************************************************)
OthersSubmit(s) ==
    /\ submitter' \in [Submitters -> SubmitterStates]
    /\ \A q \in Submitters \ {s} : submitter'[q] = submitter[q]

LEMMA SubmitterWritten ==
    ASSUME TypeInv, NEW s \in Submitters, NEW new \in SubmitterStates, submitter' = [submitter EXCEPT ![s] = new]
    PROVE  OthersSubmit(s) /\ submitter'[s] = new
BY DEF TypeInv, WriterTypes, OthersSubmit

LEMMA SubmitterTyped ==
    ASSUME TypeInv, NEW s \in Submitters
    PROVE  /\ submitter[s] \in SubmitterStates /\ submitter[s].left \in SUBSET Nat
           /\ submitter[s].rows \in Readings /\ submitter[s].batch \in Nat
BY DEF TypeInv, WriterTypes, SubmitterStates

LEMMA SubmitStarts ==
    ASSUME TypeInv, NEW s \in Submitters, SubmitStart(s)
    PROVE  /\ OthersSubmit(s) /\ submitter'[s].pc = "submit"
           /\ submitter'[s].rows = BriefsRead(Eligible) /\ submitter'[s].left = Eligible
<1> DEFINE new == [SubmitterIdle EXCEPT !.pc = "submit", !.rows = BriefsRead(Eligible), !.left = Eligible]
<1>1. Eligible \in SUBSET Nat /\ Eligible \in SUBSET TaskIds
  BY TaskIdsAre DEF Eligible, TypeInv
<1>2. BriefsRead(Eligible) \in Readings
  BY <1>1, ReadingTyped DEF TypeInv
<1>3. /\ new \in SubmitterStates /\ new.pc = "submit"
      /\ new.rows = BriefsRead(Eligible) /\ new.left = Eligible
  BY <1>1, <1>2, IdleTyped DEF SubmitterStates
<1>4. submitter' = [submitter EXCEPT ![s] = new]
  BY DEF SubmitStart
<1> HIDE DEF new
<1> QED
  BY <1>3, <1>4, SubmitterWritten

\* A batch the service made has what the submitter has left.
BatchMade(s) ==
    /\ batches' \in Seq(Batches) /\ Len(batches') = Len(batches) + 1
    /\ \A b \in DOMAIN batches : batches'[b] = batches[b]
    /\ DOMAIN batches' = DOMAIN batches \cup {Len(batches) + 1}
    /\ batches'[Len(batches) + 1] = [items |-> submitter[s].left, answered |-> {}, ended |-> FALSE]

LEMMA BatchIsMade ==
    ASSUME TypeInv, NEW s \in Submitters, batches' = Append(batches, NewBatch(s))
    PROVE  BatchMade(s) /\ Len(batches) \in Nat /\ DOMAIN batches = 1..Len(batches)
<1>1. NewBatch(s) \in Batches
  BY SubmitterTyped DEF NewBatch, Batches
<1>2. batches \in Seq(Batches)
  BY DEF TypeInv, LibraryTypes
<1>3. /\ batches' \in Seq(Batches) /\ Len(batches') = Len(batches) + 1
      /\ \A b \in 1..Len(batches) : batches'[b] = batches[b]
      /\ batches'[Len(batches) + 1] = NewBatch(s)
  BY <1>1, <1>2, AppendProperties
<1>4. Len(batches) \in Nat /\ DOMAIN batches = 1..Len(batches) /\ DOMAIN batches' = 1..Len(batches')
  BY <1>2, <1>3, LenProperties
<1>5. DOMAIN batches' = DOMAIN batches \cup {Len(batches) + 1}
  BY <1>3, <1>4
<1> QED
  BY <1>3, <1>4, <1>5 DEF BatchMade, NewBatch

LEMMA SubmitBatches ==
    ASSUME TypeInv, NEW s \in Submitters, SubmitBatch(s)
    PROVE  /\ BatchMade(s) /\ OthersSubmit(s) /\ submitter'[s].pc = "mark"
           /\ submitter'[s].batch = Len(batches) + 1
           /\ submitter'[s].rows = submitter[s].rows /\ submitter'[s].left = submitter[s].left
<1> DEFINE new == [submitter[s] EXCEPT !.pc = "mark", !.batch = Len(batches) + 1]
<1>1. BatchMade(s) /\ Len(batches) + 1 \in Nat
  BY BatchIsMade DEF SubmitBatch
<1>2. /\ new \in SubmitterStates /\ new.pc = "mark" /\ new.batch = Len(batches) + 1
      /\ new.rows = submitter[s].rows /\ new.left = submitter[s].left
  BY <1>1, SubmitterTyped DEF SubmitterStates
<1>3. submitter' = [submitter EXCEPT ![s] = new]
  BY DEF SubmitBatch, TypeInv, WriterTypes
<1> HIDE DEF new
<1> QED
  BY <1>1, <1>2, <1>3, SubmitterWritten

LEMMA SubmitMarks ==
    ASSUME TypeInv, SubmittersInv, NEW s \in Submitters, SubmitMark(s)
    PROVE  LET i == Min(submitter[s].left)
               row == submitter[s].rows[i]
           IN  /\ i \in submitter[s].left
               /\ BriefWritten(i, row.brief, row.source, "submitted", submitter[s].batch)
               /\ OthersSubmit(s) /\ submitter'[s].pc = "mark"
               /\ submitter'[s].rows = submitter[s].rows /\ submitter'[s].batch = submitter[s].batch
               /\ submitter'[s].left = submitter[s].left \ {i}
<1> DEFINE i == Min(submitter[s].left)
           row == submitter[s].rows[i]
           new == [submitter[s] EXCEPT !.left = submitter[s].left \ {i}]
<1>1. submitter[s].left # {} /\ submitter[s].pc = "mark"
  BY DEF SubmitMark
<1>2. i \in submitter[s].left
  BY <1>1, SubmitterTyped, LeastIsIn
<1>3. i \in TaskIds /\ i \in DOMAIN submitter[s].rows
  BY <1>2 DEF SubmittersInv, SubmitterSound
<1>4. row.brief \in Nat /\ row.source \in Sources /\ "submitted" \in BriefStatuses
  BY <1>3, SubmitterTyped, ReadRowTyped DEF BriefStatuses
<1>5. /\ tasks' = [tasks EXCEPT ![i].brief = row.brief, ![i].source = row.source,
                                ![i].status = "submitted", ![i].batch = submitter[s].batch]
      /\ submitter' = [submitter EXCEPT ![s].left = @ \ {i}]
  BY DEF SubmitMark
<1>6. /\ new \in SubmitterStates /\ new.pc = "mark" /\ new.left = submitter[s].left \ {i}
      /\ new.rows = submitter[s].rows /\ new.batch = submitter[s].batch
  BY <1>1, SubmitterTyped DEF SubmitterStates
<1>7. submitter' = [submitter EXCEPT ![s] = new]
  BY <1>5
<1> HIDE DEF i, row, new
<1>8. BriefWritten(i, row.brief, row.source, "submitted", submitter[s].batch)
  BY <1>3, <1>4, <1>5, SubmitterTyped, WritesBrief DEF TypeInv
<1> QED
  BY <1>2, <1>6, <1>7, <1>8, SubmitterWritten DEF i, row

LEMMA SubmitMoves ==
    ASSUME TypeInv, NEW s \in Submitters, SubmitAnswerLost(s) \/ SubmitEnd(s) \/ SubmitFails(s)
    PROVE  OthersSubmit(s) /\ submitter'[s] = SubmitterIdle
BY IdleTyped, SubmitterWritten DEF SubmitAnswerLost, SubmitEnd, SubmitFails

\* What the service's answer is: texts for some of the items.
LEMMA BatchAnswered ==
    ASSUME TypeInv, BatchEnds
    PROVE  /\ batches' \in Seq(Batches) /\ DOMAIN batches' = DOMAIN batches /\ Len(batches') = Len(batches)
           /\ \A b \in DOMAIN batches : batches'[b].items = batches[b].items
           /\ \A b \in DOMAIN batches : batches[b].ended => batches'[b] = batches[b]
           /\ \A b \in DOMAIN batches : \/ batches'[b].answered = batches[b].answered
                                        \/ batches'[b].answered \subseteq batches[b].items
<1>0. PICK b \in DOMAIN batches :
         /\ ~batches[b].ended
         /\ \E texts \in SUBSET batches[b].items :
               batches' = [batches EXCEPT ![b].ended = TRUE, ![b].answered = texts]
  BY DEF BatchEnds
<1>1. PICK texts \in SUBSET batches[b].items :
         batches' = [batches EXCEPT ![b].ended = TRUE, ![b].answered = texts]
  BY <1>0
<1> DEFINE new == [batches[b] EXCEPT !.ended = TRUE, !.answered = texts]
<1>2. batches \in Seq(Batches) /\ b \in 1..Len(batches) /\ batches[b] \in Batches
  BY <1>1 DEF TypeInv, LibraryTypes
<1>3. texts \in SUBSET Nat
  BY <1>2 DEF Batches
<1>4. new \in Batches /\ new.items = batches[b].items /\ new.answered = texts
  BY <1>2, <1>3 DEF Batches
<1>5. batches' = [batches EXCEPT ![b] = new]
  <2>1. batches \in [1..Len(batches) -> Batches]
    BY <1>2, LenProperties
  <2> QED
    BY <1>1, <1>2, <2>1 DEF Batches
<1> HIDE DEF new
<1>6. /\ batches' \in Seq(Batches) /\ Len(batches') = Len(batches)
      /\ \A c \in 1..Len(batches) : batches'[c] = IF c = b THEN new ELSE batches[c]
  BY <1>2, <1>4, <1>5, ExceptSeq
<1>7. DOMAIN batches' = DOMAIN batches /\ DOMAIN batches = 1..Len(batches)
  BY <1>2, <1>6, LenProperties
<1> QED
  BY <1>0, <1>1, <1>4, <1>6, <1>7

-----------------------------------------------------------------------------
(***************************************************************************)
(* The pollers and the refresher.                                          *)
(***************************************************************************)
OthersPoll(p) ==
    /\ poller' \in [Pollers -> PollerStates]
    /\ \A q \in Pollers \ {p} : poller'[q] = poller[q]

LEMMA PollerWritten ==
    ASSUME TypeInv, NEW p \in Pollers, NEW new \in PollerStates, poller' = [poller EXCEPT ![p] = new]
    PROVE  OthersPoll(p) /\ poller'[p] = new
BY DEF TypeInv, WriterTypes, OthersPoll

LEMMA PollStarts ==
    ASSUME TypeInv, NEW p \in Pollers, PollStart(p)
    PROVE  /\ OthersPoll(p) /\ poller'[p].pc = "get" /\ poller'[p].rows = BriefsRead(Submitted)
           /\ poller'[p].groups = {tasks[i].batch : i \in Submitted}
<1> DEFINE new == [PollerIdle EXCEPT
               !.pc = "get", !.rows = BriefsRead(Submitted), !.groups = {tasks[i].batch : i \in Submitted}]
<1>1. Submitted \in SUBSET TaskIds
  BY DEF Submitted
<1>2. BriefsRead(Submitted) \in Readings
  BY <1>1, ReadingTyped DEF TypeInv
<1>3. {tasks[i].batch : i \in Submitted} \in SUBSET Nat
  BY <1>1, RowsTyped DEF TypeInv
<1>4. /\ new \in PollerStates /\ new.pc = "get" /\ new.rows = BriefsRead(Submitted)
      /\ new.groups = {tasks[i].batch : i \in Submitted}
  BY <1>2, <1>3, IdleTyped DEF PollerStates
<1>5. poller' = [poller EXCEPT ![p] = new]
  BY DEF PollStart
<1> HIDE DEF new
<1> QED
  BY <1>4, <1>5, PollerWritten

LEMMA PollGets ==
    ASSUME TypeInv, NEW p \in Pollers, PollGet(p)
    PROVE  /\ OthersPoll(p) /\ poller'[p].rows = poller[p].rows
           /\ \E b \in poller[p].groups :
                 /\ poller'[p].groups = poller[p].groups \ {b}
                 /\ poller'[p].batch = b
                 /\ poller'[p].pc = IF batches[b].ended THEN "apply" ELSE "get"
                 /\ poller'[p].left = IF batches[b].ended THEN OfGroup(p, b) ELSE {}
<1>1. PICK b \in poller[p].groups :
         poller' = [poller EXCEPT
              ![p].groups = @ \ {b},
              ![p].pc = IF batches[b].ended THEN "apply" ELSE @,
              ![p].batch = b,
              ![p].running = @ \/ ~batches[b].ended,
              ![p].left = IF batches[b].ended THEN OfGroup(p, b) ELSE {}]
  BY DEF PollGet
<1>2. poller[p] \in PollerStates /\ poller \in [Pollers -> PollerStates] /\ poller[p].pc = "get"
  BY DEF TypeInv, WriterTypes, PollGet
<1>3. b \in Nat /\ poller[p].groups \ {b} \in SUBSET Nat
  BY <1>2 DEF PollerStates
<1>4. PICK left \in SUBSET Nat : left = IF batches[b].ended THEN OfGroup(p, b) ELSE {}
  BY <1>2, ReadRowTyped DEF OfGroup, PollerStates
<1>5. PICK at \in {"get", "apply"} : at = IF batches[b].ended THEN "apply" ELSE "get"
  OBVIOUS
<1>6. PICK running \in BOOLEAN : running = (poller[p].running \/ ~batches[b].ended)
  OBVIOUS
<1> DEFINE new == [poller[p] EXCEPT !.groups = poller[p].groups \ {b}, !.pc = at, !.batch = b,
                                    !.running = running, !.left = left]
<1>7. /\ new \in PollerStates /\ new.rows = poller[p].rows /\ new.groups = poller[p].groups \ {b}
      /\ new.batch = b /\ new.pc = at /\ new.left = left
  BY <1>2, <1>3 DEF PollerStates
<1>8. poller' = [poller EXCEPT ![p] = new]
  BY <1>1, <1>2, <1>4, <1>5, <1>6
<1> HIDE DEF new
<1> QED
  BY <1>4, <1>5, <1>7, <1>8, PollerWritten

LEMMA PollApplies ==
    ASSUME TypeInv, PollersInv, NEW p \in Pollers, PollApply(p)
    PROVE  LET i == Min(poller[p].left)
               b == poller[p].batch
               row == poller[p].rows[i]
           IN  /\ i \in poller[p].left /\ i \in TaskIds
               /\ IF i \in batches[b].answered
                  THEN BriefWritten(i, b, "reverse_engineered", "done", b)
                  ELSE BriefWritten(i, row.brief, row.source, "errored", b)
               /\ OthersPoll(p) /\ poller'[p].rows = poller[p].rows /\ poller'[p].pc = poller[p].pc
               /\ poller'[p].groups = poller[p].groups /\ poller'[p].batch = b
               /\ poller'[p].left = poller[p].left \ {i}
<1> DEFINE i == Min(poller[p].left)
           b == poller[p].batch
           row == poller[p].rows[i]
           text == i \in batches[b].answered
<1>1. poller[p] \in PollerStates /\ poller[p].left \in SUBSET Nat /\ poller[p].left # {} /\ b \in Nat
  BY DEF PollApply, TypeInv, WriterTypes, PollerStates
<1>2. i \in poller[p].left
  BY <1>1, LeastIsIn
<1>3. i \in DOMAIN poller[p].rows /\ i \in TaskIds
  BY <1>2 DEF PollersInv, PollerSound, PollApply, OfGroup
<1>4. row.brief \in Nat /\ row.source \in Sources
  BY <1>1, <1>3, ReadRowTyped DEF PollerStates
<1>5. {"done", "errored"} \subseteq BriefStatuses /\ "reverse_engineered" \in Sources
  BY DEF BriefStatuses, Sources
<1>6. /\ tasks' = [tasks EXCEPT
                 ![i].brief = IF text THEN b ELSE row.brief,
                 ![i].source = IF text THEN "reverse_engineered" ELSE row.source,
                 ![i].status = IF text THEN "done" ELSE "errored",
                 ![i].batch = b]
      /\ poller' = [poller EXCEPT ![p].left = @ \ {i}]
  BY DEF PollApply
<1> DEFINE new == [poller[p] EXCEPT !.left = poller[p].left \ {i}]
<1>7. /\ new \in PollerStates /\ new.rows = poller[p].rows /\ new.groups = poller[p].groups
      /\ new.batch = b /\ new.pc = poller[p].pc /\ new.left = poller[p].left \ {i}
  BY <1>1 DEF PollerStates
<1>8. poller' = [poller EXCEPT ![p] = new]
  BY <1>6
<1> HIDE DEF new, i, b, row, text
<1>9. CASE text
  <2>1. tasks' = [tasks EXCEPT ![i].brief = b, ![i].source = "reverse_engineered",
                               ![i].status = "done", ![i].batch = b]
    BY <1>6, <1>9
  <2>2. BriefWritten(i, b, "reverse_engineered", "done", b)
    BY <2>1, <1>1, <1>3, <1>5, WritesBrief DEF TypeInv
  <2> QED
    BY <2>2, <1>2, <1>3, <1>7, <1>8, <1>9, PollerWritten DEF i, b, text
<1>10. CASE ~text
  <2>1. tasks' = [tasks EXCEPT ![i].brief = row.brief, ![i].source = row.source,
                               ![i].status = "errored", ![i].batch = b]
    BY <1>6, <1>10
  <2>2. BriefWritten(i, row.brief, row.source, "errored", b)
    BY <2>1, <1>1, <1>3, <1>4, <1>5, WritesBrief DEF TypeInv
  <2> QED
    BY <2>2, <1>2, <1>3, <1>7, <1>8, <1>10, PollerWritten DEF i, b, text, row
<1> QED
  BY <1>9, <1>10

LEMMA PollMoves ==
    ASSUME TypeInv, NEW p \in Pollers
    PROVE  /\ PollNextBatch(p) => /\ OthersPoll(p) /\ poller'[p].pc = "get"
                                  /\ poller'[p].rows = poller[p].rows /\ poller'[p].groups = poller[p].groups
           /\ PollEnd(p) \/ PollFails(p) => OthersPoll(p) /\ poller'[p] = PollerIdle
<1>1. ASSUME PollNextBatch(p)
      PROVE  /\ OthersPoll(p) /\ poller'[p].pc = "get"
             /\ poller'[p].rows = poller[p].rows /\ poller'[p].groups = poller[p].groups
  <2> DEFINE new == [poller[p] EXCEPT !.pc = "get"]
  <2>1. /\ new \in PollerStates /\ new.rows = poller[p].rows /\ new.groups = poller[p].groups
        /\ new.pc = "get"
    BY DEF TypeInv, WriterTypes, PollerStates
  <2>2. poller' = [poller EXCEPT ![p] = new]
    BY <1>1 DEF PollNextBatch
  <2> HIDE DEF new
  <2> QED
    BY <2>1, <2>2, PollerWritten
<1>2. ASSUME PollEnd(p) \/ PollFails(p) PROVE OthersPoll(p) /\ poller'[p] = PollerIdle
  BY <1>2, IdleTyped, PollerWritten DEF PollEnd, PollFails
<1> QED
  BY <1>1, <1>2

LEMMA RefreshStarts ==
    ASSUME TypeInv, RefreshStart
    PROVE  /\ refresher' \in Refreshers /\ refresher'.pc = "request"
           /\ refresher'.rows = BriefsRead(TaskIds) /\ refresher'.left = TaskIds
<1>1. BriefsRead(TaskIds) \in Readings /\ TaskIds \in SUBSET Nat
  BY ReadingTyped, TaskIdsAre DEF TypeInv
<1> QED
  BY <1>1 DEF RefreshStart, Refreshers

LEMMA RefreshesRequest ==
    ASSUME TypeInv, RefresherInv, RefreshRequest
    PROVE  LET i == Min(refresher.left)
           IN  /\ i \in refresher.left /\ i \in TaskIds
               /\ RequestWritten(i) /\ tasks'[i].request = refresher.rows[i].brief
               /\ refresher' \in Refreshers /\ refresher'.rows = refresher.rows
               /\ \/ refresher'.pc = "request" /\ refresher'.left = refresher.left \ {i}
                  \/ refresher'.pc = "holdout" /\ refresher'.left = refresher.left
<1> DEFINE i == Min(refresher.left)
<1>1. refresher \in Refreshers /\ refresher.left \in SUBSET Nat /\ refresher.left # {}
  BY DEF RefreshRequest, TypeInv, WriterTypes, Refreshers
<1>2. i \in refresher.left
  BY <1>1, LeastIsIn
<1>3. i \in TaskIds /\ refresher.rows[i].brief \in Nat
  BY <1>1, <1>2, ReadRowTyped DEF RefresherInv, Refreshers
<1>4. /\ tasks' = [tasks EXCEPT ![i].request = refresher.rows[i].brief]
      /\ refresher' = IF HoldoutOf[tasks[i].commit].files = {}
                      THEN [refresher EXCEPT !.left = @ \ {i}]
                      ELSE [refresher EXCEPT !.pc = "holdout"]
      /\ refresher.pc = "request"
  BY DEF RefreshRequest
<1> HIDE DEF i
<1>5. RequestWritten(i) /\ tasks'[i].request = refresher.rows[i].brief
  BY <1>3, <1>4, WritesRequest DEF TypeInv
<1>6. CASE refresher' = [refresher EXCEPT !.left = @ \ {i}]
  BY <1>1, <1>2, <1>3, <1>4, <1>5, <1>6 DEF i, Refreshers
<1>7. CASE refresher' = [refresher EXCEPT !.pc = "holdout"]
  BY <1>1, <1>2, <1>3, <1>4, <1>5, <1>7 DEF i, Refreshers
<1> QED
  BY <1>4, <1>6, <1>7

LEMMA RefreshPassesOver ==
    ASSUME TypeInv, RefreshSkips
    PROVE  /\ refresher' \in Refreshers /\ refresher'.rows = refresher.rows
           /\ refresher'.pc = "request" /\ refresher'.left \subseteq refresher.left
           /\ UNCHANGED library
BY DEF RefreshSkips, TypeInv, WriterTypes, Refreshers

LEMMA RefreshesHoldout ==
    ASSUME TypeInv, RefresherInv, RefreshHoldout
    PROVE  LET i == Min(refresher.left)
           IN  /\ i \in refresher.left /\ i \in TaskIds
               /\ RequestWritten(i) /\ tasks'[i].request = tasks[i].request
               /\ refresher' \in Refreshers /\ refresher'.rows = refresher.rows
               /\ refresher'.pc = "request" /\ refresher'.left = refresher.left \ {i}
<1> DEFINE i == Min(refresher.left)
<1>1. refresher \in Refreshers /\ refresher.left \in SUBSET Nat /\ refresher.left # {}
  BY DEF RefreshHoldout, TypeInv, WriterTypes, Refreshers, RefresherInv
<1>2. i \in refresher.left
  BY <1>1, LeastIsIn
<1>3. i \in TaskIds
  BY <1>2 DEF RefresherInv
<1>4. /\ tasks' = [tasks EXCEPT ![i].holdout = HoldoutOf[tasks[i].commit]]
      /\ refresher' = [refresher EXCEPT !.pc = "request", !.left = @ \ {i}]
  BY DEF RefreshHoldout
<1> HIDE DEF i
<1>5. RequestWritten(i) /\ tasks'[i].request = tasks[i].request
  BY <1>3, <1>4, WritesHoldout DEF TypeInv
<1> QED
  BY <1>1, <1>2, <1>3, <1>4, <1>5 DEF i, Refreshers

-----------------------------------------------------------------------------
(***************************************************************************)
(* The commands of the library keep its types.                             *)
(***************************************************************************)
LEMMA NewCommitTyped ==
    ASSUME TypeInv, NewCommit
    PROVE  LibraryTypes' /\ WriterTypes' /\ BoundTypes' /\ head' = head + 1 /\ head \in Nat
<1>1. head' \in FirstHead..Len(History) /\ head' = head + 1 /\ head \in Nat
  BY ConstantsTyped DEF NewCommit, TypeInv, LibraryTypes
<1> QED
  BY <1>1, CountsTyped DEF NewCommit, TypeInv, LibraryTypes, WriterTypes

LEMMA SubmitTyped ==
    ASSUME TypeInv, SubmittersInv, NEW s \in Submitters, SubmitNext(s)
    PROVE  LibraryTypes' /\ WriterTypes' /\ BoundTypes'
<1> USE DEF TypeInv
<1>1. CASE SubmitStart(s)
  BY <1>1, SubmitStarts, CountsTyped DEF SubmitStart, LibraryTypes, WriterTypes, OthersSubmit
<1>2. CASE SubmitBatch(s)
  BY <1>2, SubmitBatches, CountsTyped DEF SubmitBatch, LibraryTypes, WriterTypes, BatchMade, OthersSubmit
<1>3. CASE SubmitAnswerLost(s)
  BY <1>3, BatchIsMade, SubmitMoves, CountsTyped
     DEF SubmitAnswerLost, LibraryTypes, WriterTypes, BatchMade, OthersSubmit
<1>4. CASE SubmitMark(s)
  <2>1. tasks' \in Seq(TaskRows) /\ submitter' \in [Submitters -> SubmitterStates]
    BY <1>4, SubmitMarks DEF BriefWritten, OthersSubmit
  <2> QED
    BY <1>4, <2>1, CountsTyped DEF SubmitMark, LibraryTypes, WriterTypes
<1>5. CASE SubmitEnd(s)
  BY <1>5, SubmitMoves, CountsTyped DEF SubmitEnd, LibraryTypes, WriterTypes, OthersSubmit
<1>6. CASE SubmitFails(s)
  BY <1>6, SubmitMoves, CountsTyped DEF SubmitFails, LibraryTypes, WriterTypes, OthersSubmit
<1> QED
  BY <1>1, <1>2, <1>3, <1>4, <1>5, <1>6 DEF SubmitNext

LEMMA EndTyped ==
    ASSUME TypeInv, BatchEnds
    PROVE  LibraryTypes' /\ WriterTypes' /\ BoundTypes'
BY BatchAnswered, CountsTyped DEF BatchEnds, TypeInv, LibraryTypes, WriterTypes

LEMMA PollTyped ==
    ASSUME TypeInv, PollersInv, NEW p \in Pollers, PollNext(p)
    PROVE  LibraryTypes' /\ WriterTypes' /\ BoundTypes'
<1> USE DEF TypeInv
<1>1. CASE PollStart(p)
  BY <1>1, PollStarts, CountsTyped DEF PollStart, LibraryTypes, WriterTypes, OthersPoll
<1>2. CASE PollGet(p)
  BY <1>2, PollGets, CountsTyped DEF PollGet, LibraryTypes, WriterTypes, OthersPoll
<1>3. CASE PollApply(p)
  <2>1. tasks' \in Seq(TaskRows) /\ poller' \in [Pollers -> PollerStates]
    BY <1>3, PollApplies DEF BriefWritten, OthersPoll
  <2> QED
    BY <1>3, <2>1, CountsTyped DEF PollApply, LibraryTypes, WriterTypes
<1>4. CASE PollNextBatch(p)
  BY <1>4, PollMoves, CountsTyped DEF PollNextBatch, LibraryTypes, WriterTypes, OthersPoll
<1>5. CASE PollEnd(p)
  BY <1>5, PollMoves, CountsTyped DEF PollEnd, LibraryTypes, WriterTypes, OthersPoll
<1>6. CASE PollFails(p)
  BY <1>6, PollMoves, CountsTyped DEF PollFails, LibraryTypes, WriterTypes, OthersPoll
<1> QED
  BY <1>1, <1>2, <1>3, <1>4, <1>5, <1>6 DEF PollNext

LEMMA RefreshTyped ==
    ASSUME TypeInv, RefresherInv, RefreshNext
    PROVE  LibraryTypes' /\ WriterTypes' /\ BoundTypes'
<1> USE DEF TypeInv
<1>1. CASE RefreshStart
  BY <1>1, RefreshStarts, CountsTyped DEF RefreshStart, LibraryTypes, WriterTypes
<1>2. CASE RefreshRequest
  BY <1>2, RefreshesRequest, CountsTyped DEF RefreshRequest, LibraryTypes, WriterTypes, RequestWritten
<1>3. CASE RefreshHoldout
  BY <1>3, RefreshesHoldout, CountsTyped DEF RefreshHoldout, LibraryTypes, WriterTypes, RequestWritten
<1>4. CASE RefreshSkips
  BY <1>4, RefreshPassesOver, CountsTyped DEF RefreshSkips, LibraryTypes, WriterTypes
<1>5. CASE RefreshEnd
  BY <1>5, IdleTyped, CountsTyped DEF RefreshEnd, LibraryTypes, WriterTypes
<1>6. CASE RefreshFails
  BY <1>6, IdleTyped, CountsTyped DEF RefreshFails, LibraryTypes, WriterTypes
<1> QED
  BY <1>1, <1>2, <1>3, <1>4, <1>5, <1>6 DEF RefreshNext

-----------------------------------------------------------------------------
(***************************************************************************)
(* The ladder of a run, its evaluator and the graders.                     *)
(***************************************************************************)
LEMMA ScoredTyped ==
    ASSUME NEW tally \in Tallies, NEW passed \in BOOLEAN
    PROVE  Scored(tally, passed) \in Tallies
<1>1. tally.n \in Nat /\ tally.passed \in Nat /\ tally.consecutiveFails \in Nat
  BY DEF Tallies
<1>2. tally.n + 1 \in Nat /\ tally.consecutiveFails + 1 \in Nat /\ tally.passed + 1 \in Nat /\ tally.passed + 0 \in Nat
  BY <1>1
<1>3. CASE passed
  BY <1>1, <1>2, <1>3 DEF Scored, Tallies
<1>4. CASE ~passed
  BY <1>1, <1>2, <1>4 DEF Scored, Tallies
<1> QED
  BY <1>3, <1>4

LEMMA RecordTyped ==
    ASSUME NEW ts \in TrackStates, NEW rung \in Rungs, NEW passed \in BOOLEAN
    PROVE  Record(ts, rung, passed) \in TrackStates
<1> DEFINE tally == Scored(ts.rungs[rung], passed)
           counted == [ts EXCEPT !.rungs[rung] = tally]
           why == StopReason(tally)
<1>1. tally \in Tallies
  BY ScoredTyped DEF TrackStates
<1>2. counted \in TrackStates
  BY <1>1 DEF TrackStates
<1>3. why \in {"", "futility", "wilson_upper"}
  BY DEF StopReason
<1>4. Record(ts, rung, passed) = [counted EXCEPT !.abandonFrom = rung, !.abandonWhy = why]
      \/ Record(ts, rung, passed) = counted
  BY DEF Record
<1> HIDE DEF counted, why
<1> QED
  BY <1>2, <1>3, <1>4 DEF TrackStates

LEMMA PlaceTyped ==
    ASSUME NEW row \in TaskRows
    PROVE  RungOf(row) \in Rungs /\ TrackOfRow(row) \in Tracks
<1>1. row.difficulty \in {"simple", "challenging"} /\ row.commit \in Commits
  BY DEF TaskRows
<1>2. SmallOf[row.commit] \in BOOLEAN /\ TrackOf[row.commit] \in Tracks
  BY <1>1, ScoringAssumption
<1> DEFINE small == row.turnType = "single_file_edit" /\ SmallOf[row.commit]
<1>3. Rung(row.difficulty, small) \in Rungs
  <2> HIDE DEF small
  <2>1. CASE small
    BY <1>1, <2>1 DEF Rung, Rungs
  <2>2. CASE ~small
    BY <1>1, <2>2 DEF Rung, Rungs
  <2> QED
    BY <2>1, <2>2
<1> QED
  BY <1>2, <1>3 DEF RungOf, TrackOfRow

\* The row of a task of the run under way.
NewRow(i, new, scored) ==
    /\ new \in ResultRows /\ new.run = Len(runs) /\ new.task = i
    /\ new.scored = scored /\ new.verdict = Unjudged

LEMMA RowsAreNew ==
    ASSUME TypeInv, EvaluatorSound, evaluator.pc = "score", NEW i \in evaluator.left, NEW o \in Outcomes
    PROVE  /\ NewRow(i, ResultRow(i, o), TRUE) /\ NewRow(i, SkippedRow(i), FALSE)
           /\ i \in Nat /\ evaluator.rows[i] \in TaskRows
<1>1. evaluator.rows \in Seq(TaskRows) /\ evaluator.left \in SUBSET Nat
  BY DEF TypeInv, ScoringTypes, Evaluators
<1>2. i \in 1..Len(evaluator.rows)
  BY DEF EvaluatorSound
<1>3. evaluator.rows[i] \in TaskRows
  BY <1>1, <1>2, ElementOfSeq
<1>4. evaluator.rows[i].source \in Sources /\ evaluator.rows[i].request \in Nat
  BY <1>3 DEF TaskRows
<1>5. Len(runs) \in Nat /\ i \in Nat
  BY <1>1, LenProperties DEF TypeInv, ScoringTypes
<1>6. /\ (o \in {"exact", "close"}) \in BOOLEAN /\ (o = "error") \in BOOLEAN
      /\ ("error" \in {"exact", "close"}) \in BOOLEAN /\ ("error" = "error") \in BOOLEAN
      /\ {o, "error"} \subseteq Outcomes \cup {"judge"}
      /\ Unjudged \in Nat \cup {Unjudged}
  BY DEF Outcomes
<1>7. NewRow(i, ResultRow(i, o), TRUE)
  BY <1>4, <1>5, <1>6 DEF ResultRow, NewRow, ResultRows
<1>8. NewRow(i, ResultRow(i, "error"), TRUE)
  BY <1>4, <1>5, <1>6 DEF ResultRow, NewRow, ResultRows
<1>9. NewRow(i, SkippedRow(i), FALSE)
  <2> DEFINE base == ResultRow(i, "error")
  <2>1. base \in ResultRows /\ base.run = Len(runs) /\ base.task = i /\ base.verdict = Unjudged
    BY <1>8 DEF NewRow
  <2>2. SkippedRow(i) = [base EXCEPT !.scored = FALSE]
    BY DEF SkippedRow
  <2> HIDE DEF base
  <2> QED
    BY <2>1, <2>2 DEF NewRow, ResultRows
<1> QED
  BY <1>3, <1>5, <1>7, <1>9

LEMMA RunStarts ==
    ASSUME TypeInv, RunStart
    PROVE  /\ evaluator' \in Evaluators /\ evaluator'.pc = "score" /\ evaluator'.rows = tasks
           /\ evaluator'.left = 1..Len(tasks) /\ evaluator'.scored = 0 /\ evaluator'.passed = 0
           /\ runs' \in Seq(RunRows) /\ Len(runs') = Len(runs) + 1
           /\ Len(runs) \in Nat /\ DOMAIN runs = 1..Len(runs) /\ DOMAIN runs' = 1..Len(runs')
           /\ \A r \in DOMAIN runs : runs'[r] = runs[r]
           /\ runs'[Len(runs)+1] = [summary |-> FALSE, total |-> 0, passed |-> 0, tasks |-> Len(tasks)]
<1> DEFINE new == [summary |-> FALSE, total |-> 0, passed |-> 0, tasks |-> Len(tasks)]
<1>1. Len(tasks) \in Nat /\ TaskIds = 1..Len(tasks) /\ tasks \in Seq(TaskRows) /\ TaskIds \in SUBSET Nat
  BY TaskIdsAre DEF TypeInv, LibraryTypes
<1>2. new \in RunRows /\ runs \in Seq(RunRows)
  BY <1>1 DEF RunRows, TypeInv, ScoringTypes
<1>3. runs' = Append(runs, new)
  BY DEF RunStart
<1> HIDE DEF new
<1>4. /\ runs' \in Seq(RunRows) /\ Len(runs') = Len(runs) + 1 /\ runs'[Len(runs) + 1] = new
      /\ \A r \in 1..Len(runs) : runs'[r] = runs[r]
  BY <1>2, <1>3, AppendProperties
<1>5. Len(runs) \in Nat /\ DOMAIN runs = 1..Len(runs) /\ DOMAIN runs' = 1..Len(runs')
  BY <1>2, <1>4, LenProperties
<1>6. evaluator' = [EvaluatorIdle EXCEPT !.pc = "score", !.rows = tasks, !.left = TaskIds]
  BY DEF RunStart
<1>7. /\ evaluator' \in Evaluators /\ evaluator'.pc = "score" /\ evaluator'.rows = tasks
      /\ evaluator'.left = TaskIds
  BY <1>1, <1>6, IdleTyped DEF Evaluators
<1>8. evaluator'.scored = 0 /\ evaluator'.passed = 0
  BY <1>6 DEF EvaluatorIdle
<1> QED
  BY <1>1, <1>4, <1>5, <1>7, <1>8 DEF new

RowAppended(new) ==
    /\ results' \in Seq(ResultRows) /\ results' = Append(results, new)
    /\ Len(results) \in Nat /\ DOMAIN results = 1..Len(results)
    /\ DOMAIN results' = DOMAIN results \cup {Len(results) + 1}
    /\ \A k \in DOMAIN results : results'[k] = results[k]
    /\ results'[Len(results) + 1] = new

LEMMA RowIsAppended ==
    ASSUME TypeInv, NEW new \in ResultRows, results' = Append(results, new)
    PROVE  RowAppended(new)
<1>1. results \in Seq(ResultRows)
  BY DEF TypeInv, ScoringTypes
<1>2. /\ results' \in Seq(ResultRows) /\ Len(results') = Len(results) + 1
      /\ \A k \in 1..Len(results) : results'[k] = results[k]
      /\ results'[Len(results) + 1] = new
  BY <1>1, AppendProperties
<1>3. Len(results) \in Nat /\ DOMAIN results = 1..Len(results) /\ DOMAIN results' = 1..Len(results')
  BY <1>1, <1>2, LenProperties
<1>4. DOMAIN results' = DOMAIN results \cup {Len(results) + 1}
  BY <1>2, <1>3
<1> QED
  BY <1>2, <1>3, <1>4 DEF RowAppended

LEMMA RunScores ==
    ASSUME TypeInv, EvaluatorSound, RunScore
    PROVE  \E i \in evaluator.left, new \in ResultRows :
              /\ NewRow(i, new, TRUE) /\ RowAppended(new)
              /\ evaluator' \in Evaluators /\ evaluator'.pc = "score" /\ evaluator'.rows = evaluator.rows
              /\ evaluator'.left = evaluator.left \ {i}
              /\ evaluator'.scored = evaluator.scored + 1
              /\ evaluator'.passed = evaluator.passed + (IF new.passed THEN 1 ELSE 0)
<1>1. PICK i \in evaluator.left, o \in Outcomes, tokens \in {0, CallTokens} :
         LET row == evaluator.rows[i]
             new == ResultRow(i, o)
         IN  /\ results' = Append(results, new)
             /\ evaluator' = [evaluator EXCEPT
                    !.left = @ \ {i},
                    !.tallies[TrackOfRow(row)] = Record(@, RungOf(row), new.passed),
                    !.spent = @ + tokens,
                    !.over = TokenBudget > 0 /\ evaluator.spent + tokens >= TokenBudget,
                    !.scored = @ + 1,
                    !.passed = IF new.passed THEN @ + 1 ELSE @]
  BY DEF RunScore
<1> DEFINE row == evaluator.rows[i]
           new == ResultRow(i, o)
<1>2. evaluator.pc = "score" /\ evaluator \in Evaluators
  BY DEF RunScore, TypeInv, ScoringTypes
<1>3. NewRow(i, new, TRUE) /\ i \in Nat /\ row \in TaskRows
  BY <1>2, RowsAreNew
<1>4. new \in ResultRows /\ new.passed \in BOOLEAN
  BY <1>3 DEF NewRow, ResultRows
<1>5. RungOf(row) \in Rungs /\ TrackOfRow(row) \in Tracks
  BY <1>3, PlaceTyped
<1>6. evaluator.tallies \in [Tracks -> TrackStates] /\ evaluator.spent \in Nat /\ evaluator.scored \in Nat
      /\ evaluator.passed \in Nat /\ evaluator.left \in SUBSET Nat
  BY <1>2 DEF Evaluators
<1>7. PICK tallies \in [Tracks -> TrackStates] :
         tallies = [evaluator.tallies EXCEPT ![TrackOfRow(row)] = Record(@, RungOf(row), new.passed)]
  BY <1>4, <1>5, <1>6, RecordTyped
<1>8. PICK spent \in Nat : spent = evaluator.spent + tokens
  BY <1>6, ConstantsTyped
<1>9. PICK over \in BOOLEAN : over = (TokenBudget > 0 /\ spent >= TokenBudget)
  OBVIOUS
<1>10. PICK passed \in Nat : passed = IF new.passed THEN evaluator.passed + 1 ELSE evaluator.passed
  BY <1>4, <1>6
<1>11. RowAppended(new)
  BY <1>1, <1>4, RowIsAppended
<1>12. evaluator' = [evaluator EXCEPT !.left = evaluator.left \ {i}, !.tallies = tallies, !.spent = spent,
                        !.over = over, !.scored = evaluator.scored + 1, !.passed = passed]
  BY <1>1, <1>7, <1>8, <1>9, <1>10
<1> HIDE DEF new, row
<1>13. /\ evaluator' \in Evaluators /\ evaluator'.pc = "score" /\ evaluator'.rows = evaluator.rows
       /\ evaluator'.left = evaluator.left \ {i} /\ evaluator'.scored = evaluator.scored + 1
       /\ evaluator'.passed = passed
  <2>1. PICK left \in SUBSET Nat : left = evaluator.left \ {i}
    BY <1>6
  <2>2. PICK scored \in Nat : scored = evaluator.scored + 1
    BY <1>6
  <2>3. evaluator' = [evaluator EXCEPT !.left = left, !.tallies = tallies, !.spent = spent,
                         !.over = over, !.scored = scored, !.passed = passed]
    BY <1>12, <2>1, <2>2
  <2>4. evaluator' \in Evaluators
    BY <1>2, <2>3 DEF Evaluators
  <2>5. /\ evaluator'.pc = evaluator.pc /\ evaluator'.rows = evaluator.rows /\ evaluator'.left = left
        /\ evaluator'.scored = scored /\ evaluator'.passed = passed
    BY <1>2, <2>3 DEF Evaluators
  <2> QED
    BY <1>2, <2>1, <2>2, <2>4, <2>5
<1>14. evaluator'.passed = evaluator.passed + (IF new.passed THEN 1 ELSE 0)
  BY <1>6, <1>10, <1>13
<1> QED
  BY <1>3, <1>4, <1>11, <1>13, <1>14

LEMMA RunSkips ==
    ASSUME TypeInv, EvaluatorSound, RunSkip
    PROVE  \E i \in evaluator.left, new \in ResultRows :
              /\ NewRow(i, new, FALSE) /\ RowAppended(new)
              /\ evaluator' \in Evaluators /\ evaluator'.pc = "score" /\ evaluator'.rows = evaluator.rows
              /\ evaluator'.left = evaluator.left \ {i}
              /\ evaluator'.scored = evaluator.scored /\ evaluator'.passed = evaluator.passed
<1>1. PICK i \in evaluator.left :
         /\ results' = Append(results, SkippedRow(i))
         /\ evaluator' = [evaluator EXCEPT !.left = @ \ {i}]
  BY DEF RunSkip
<1>2. evaluator.pc = "score" /\ evaluator \in Evaluators
  BY DEF RunSkip, TypeInv, ScoringTypes
<1>3. "error" \in Outcomes
  BY DEF Outcomes
<1>4. NewRow(i, SkippedRow(i), FALSE)
  BY <1>2, <1>3, RowsAreNew
<1>5. SkippedRow(i) \in ResultRows
  BY <1>4 DEF NewRow
<1>6. RowAppended(SkippedRow(i))
  BY <1>1, <1>5, RowIsAppended
<1>7. /\ evaluator' \in Evaluators /\ evaluator'.pc = "score" /\ evaluator'.rows = evaluator.rows
      /\ evaluator'.left = evaluator.left \ {i}
      /\ evaluator'.scored = evaluator.scored /\ evaluator'.passed = evaluator.passed
  BY <1>1, <1>2 DEF Evaluators
<1> QED
  BY <1>4, <1>5, <1>6, <1>7

LEMMA RunFinishes ==
    ASSUME TypeInv, EvaluatorSound, RunFinish
    PROVE  LET r == Len(runs)
           IN  /\ evaluator' = EvaluatorIdle /\ evaluator.left = {}
               /\ r \in DOMAIN runs
               /\ runs' \in Seq(RunRows) /\ DOMAIN runs' = DOMAIN runs /\ Len(runs') = r
               /\ \A q \in DOMAIN runs \ {r} : runs'[q] = runs[q]
               /\ runs'[r].summary /\ runs'[r].total = evaluator.scored
               /\ runs'[r].passed = evaluator.passed /\ runs'[r].tasks = runs[r].tasks
<1> DEFINE r == Len(runs)
           new == [runs[r] EXCEPT !.summary = TRUE, !.total = evaluator.scored, !.passed = evaluator.passed]
<1>1. r \in DOMAIN runs /\ runs \in Seq(RunRows) /\ evaluator.scored \in Nat /\ evaluator.passed \in Nat
  BY DEF EvaluatorSound, RunFinish, TypeInv, ScoringTypes, Evaluators
<1>2. r \in 1..Len(runs) /\ runs[r] \in RunRows /\ runs \in [1..Len(runs) -> RunRows]
  BY <1>1, LenProperties, ElementOfSeq
<1>3. /\ new \in RunRows /\ new.summary /\ new.total = evaluator.scored
      /\ new.passed = evaluator.passed /\ new.tasks = runs[r].tasks
  BY <1>1, <1>2 DEF RunRows
<1>4. runs' = [runs EXCEPT ![r] = new]
  <2>1. runs' = [runs EXCEPT ![r].summary = TRUE, ![r].total = evaluator.scored, ![r].passed = evaluator.passed]
    BY DEF RunFinish
  <2> HIDE DEF r
  <2> QED
    BY <1>2, <2>1 DEF RunRows
<1> HIDE DEF new
<1>5. /\ runs' \in Seq(RunRows) /\ Len(runs') = Len(runs)
      /\ \A q \in 1..Len(runs) : runs'[q] = IF q = r THEN new ELSE runs[q]
  BY <1>1, <1>2, <1>3, <1>4, ExceptSeq
<1>6. DOMAIN runs' = DOMAIN runs /\ DOMAIN runs = 1..Len(runs)
  BY <1>1, <1>5, LenProperties
<1>7. evaluator' = EvaluatorIdle /\ evaluator.left = {}
  BY DEF RunFinish
<1>8. \A q \in DOMAIN runs \ {r} : runs'[q] = runs[q]
  BY <1>5, <1>6
<1>9. runs'[r] = new
  BY <1>2, <1>5
<1> QED
  BY <1>1, <1>3, <1>5, <1>6, <1>7, <1>8, <1>9

LEMMA ResultTyped ==
    ASSUME TypeInv, NEW k \in DOMAIN results
    PROVE  /\ results[k] \in ResultRows /\ k \in Nat /\ results[k].run \in Nat /\ results[k].task \in Nat
           /\ results[k].passed \in BOOLEAN /\ results[k].scored \in BOOLEAN
<1>1. results \in Seq(ResultRows) /\ k \in 1..Len(results) /\ Len(results) \in Nat
  BY LenProperties DEF TypeInv, ScoringTypes
<1>2. results[k] \in ResultRows
  BY <1>1, ElementOfSeq
<1> QED
  BY <1>1, <1>2 DEF ResultRows

OthersGrade(g) ==
    /\ grader' \in [Graders -> GraderStates]
    /\ \A h \in Graders \ {g} : grader'[h] = grader[h]

LEMMA GraderWritten ==
    ASSUME TypeInv, NEW g \in Graders, NEW new \in GraderStates, grader' = [grader EXCEPT ![g] = new]
    PROVE  OthersGrade(g) /\ grader'[g] = new
BY DEF TypeInv, ScoringTypes, OthersGrade

LEMMA GraderTyped ==
    ASSUME TypeInv, NEW g \in Graders
    PROVE  /\ grader[g] \in GraderStates /\ grader[g].left \in SUBSET Nat
           /\ grader[g].shown \in Nat \cup {Unjudged}
BY DEF TypeInv, ScoringTypes, GraderStates

\* The judge's answer about the first result the grader has left.
LEMMA GradeApplies ==
    ASSUME TypeInv, GradersInv, NEW g \in Graders, GradeApply(g)
    PROVE  LET k == Min(grader[g].left)
           IN  /\ k \in grader[g].left /\ k \in DOMAIN results /\ (OneGrader => Ungraded(results[k]))
               /\ results' \in Seq(ResultRows) /\ DOMAIN results' = DOMAIN results
               /\ \A j \in DOMAIN results \ {k} : results'[j] = results[j]
               /\ results'[k].verdict # Unjudged
               /\ results'[k].run = results[k].run /\ results'[k].task = results[k].task
               /\ results'[k].scored = results[k].scored
               /\ OthersGrade(g) /\ grader'[g].left = grader[g].left \ {k} /\ grader'[g].shown = Unjudged
<1> DEFINE k == Min(grader[g].left)
           shown == grader[g].shown
           state == [grader[g] EXCEPT !.left = grader[g].left \ {k}, !.shown = Unjudged]
<1>1. grader[g].left # {} /\ shown # Unjudged /\ shown \in Nat \cup {Unjudged}
  BY GraderTyped DEF GradeApply, GradersInv, GraderSound
<1>2. k \in grader[g].left
  BY <1>1, GraderTyped, LeastIsIn
<1>3. k \in DOMAIN results /\ (OneGrader => Ungraded(results[k]))
  BY <1>2 DEF GradersInv, GraderSound
<1>4. PICK equivalent \in BOOLEAN :
         results' = [results EXCEPT ![k].passed = equivalent, ![k].stage = "judge", ![k].verdict = shown]
  BY DEF GradeApply
<1> DEFINE new == [results[k] EXCEPT !.passed = equivalent, !.stage = "judge", !.verdict = shown]
<1>5. results[k] \in ResultRows /\ results \in Seq(ResultRows) /\ k \in 1..Len(results)
  BY <1>3, ResultTyped DEF TypeInv, ScoringTypes
<1>6. new \in ResultRows
  <2>1. "judge" \in Outcomes \cup {"judge"}
    OBVIOUS
  <2> QED
    BY <1>1, <1>5, <2>1 DEF ResultRows
<1>7. /\ new.verdict = shown /\ new.run = results[k].run /\ new.task = results[k].task
      /\ new.scored = results[k].scored
  BY <1>1, <1>5 DEF ResultRows
<1>8. results' = [results EXCEPT ![k] = new]
  <2>1. results \in [1..Len(results) -> ResultRows]
    BY <1>5, LenProperties
  <2> HIDE DEF k, shown
  <2> QED
    BY <1>4, <1>5, <2>1 DEF ResultRows
<1>9. /\ state \in GraderStates /\ state.left = grader[g].left \ {k} /\ state.shown = Unjudged
      /\ grader' = [grader EXCEPT ![g] = state]
  <2>1. grader' = [grader EXCEPT ![g].left = @ \ {k}, ![g].shown = Unjudged]
    BY DEF GradeApply
  <2> HIDE DEF k
  <2>2. grader' = [grader EXCEPT ![g] = state]
    BY <2>1
  <2>3. state \in GraderStates /\ state.left = grader[g].left \ {k} /\ state.shown = Unjudged
    BY GraderTyped DEF GraderStates
  <2> QED
    BY <2>2, <2>3
<1> HIDE DEF new, k, shown, state
<1>10. /\ results' \in Seq(ResultRows) /\ Len(results') = Len(results)
       /\ \A j \in 1..Len(results) : results'[j] = IF j = k THEN new ELSE results[j]
  BY <1>5, <1>6, <1>8, ExceptSeq
<1>11. DOMAIN results' = DOMAIN results /\ DOMAIN results = 1..Len(results)
  BY <1>5, <1>10, LenProperties
<1>12. OthersGrade(g) /\ grader'[g].left = grader[g].left \ {k} /\ grader'[g].shown = Unjudged
  BY <1>9, GraderWritten
<1> QED
  BY <1>1, <1>2, <1>3, <1>5, <1>7, <1>10, <1>11, <1>12 DEF k

LEMMA GraderMoves ==
    ASSUME TypeInv, GradersInv, ResultsSound, NEW g \in Graders, GradeNext(g), ~GradeApply(g)
    PROVE  /\ OthersGrade(g) /\ UNCHANGED <<library, writers, runs, results, evaluator>>
           /\ \A k \in grader'[g].left : k \in DOMAIN results /\ (OneGrader => Ungraded(results[k]))
           /\ grader'[g].shown # Unjudged => grader'[g].left # {}
<1>1. \A k \in DOMAIN results : k \in Nat
  BY ResultTyped
<1>2. GraderSound(g)
  BY DEF GradersInv
<1>3. CASE GradeStart(g)
  <2> DEFINE left == {k \in DOMAIN results : Ungraded(results[k])}
             new == [GraderIdle EXCEPT !.pc = "grade", !.left = left]
  <2>1. left \in SUBSET Nat /\ GraderIdle.shown = Unjudged
    BY <1>1 DEF GraderIdle
  <2>2. grader' = [grader EXCEPT ![g] = new]
    BY <1>3 DEF GradeStart
  <2>3. \A k \in left : k \in DOMAIN results /\ Ungraded(results[k])
    OBVIOUS
  <2> HIDE DEF left
  <2>4. new \in GraderStates /\ new.left = left /\ new.shown = Unjudged
    BY <2>1, IdleTyped DEF GraderStates
  <2> HIDE DEF new
  <2>5. OthersGrade(g) /\ grader'[g].left = left /\ grader'[g].shown = Unjudged
    BY <2>2, <2>4, GraderWritten
  <2> QED
    BY <1>3, <2>3, <2>5 DEF GradeStart
<1>4. CASE GradeAsk(g)
  <2> DEFINE brief == tasks[results[Min(grader[g].left)].task].brief
             new == [grader[g] EXCEPT !.shown = brief]
  <2>1. Min(grader[g].left) \in DOMAIN results
    BY <1>2, <1>4, GraderTyped, LeastIsIn DEF GradeAsk, GraderSound
  <2>2. brief \in Nat
    BY <2>1, RowsTyped DEF ResultsSound, TypeInv
  <2>3. grader' = [grader EXCEPT ![g] = new]
    BY <1>4 DEF GradeAsk
  <2> HIDE DEF brief
  <2>4. new \in GraderStates /\ new.left = grader[g].left
    BY <2>2, GraderTyped DEF GraderStates
  <2> HIDE DEF new
  <2>5. OthersGrade(g) /\ grader'[g].left = grader[g].left
    BY <2>3, <2>4, GraderWritten
  <2> QED
    BY <1>2, <1>4, <2>5 DEF GradeAsk, GraderSound
<1>5. CASE GradeErrs(g)
  <2> DEFINE new == [grader[g] EXCEPT !.left = grader[g].left \ {Min(grader[g].left)}, !.shown = Unjudged]
  <2>1. new \in GraderStates /\ new.left \subseteq grader[g].left /\ new.shown = Unjudged
    BY GraderTyped DEF GraderStates
  <2>2. grader' = [grader EXCEPT ![g] = new]
    BY <1>5 DEF GradeErrs
  <2> HIDE DEF new
  <2>3. OthersGrade(g) /\ grader'[g].left \subseteq grader[g].left /\ grader'[g].shown = Unjudged
    BY <2>1, <2>2, GraderWritten
  <2> QED
    BY <1>2, <1>5, <2>3 DEF GradeErrs, GraderSound
<1>6. CASE GradeEnd(g) \/ GradeFails(g)
  <2>1. OthersGrade(g) /\ grader'[g] = GraderIdle
    BY <1>6, IdleTyped, GraderWritten DEF GradeEnd, GradeFails
  <2> QED
    BY <1>6, <2>1 DEF GradeEnd, GradeFails, GraderIdle
<1> QED
  BY <1>3, <1>4, <1>5, <1>6 DEF GradeNext

\* Runs and gradings write nothing of the library.
LEMMA ScoringFrame ==
    ASSUME RunNext \/ \E g \in Graders : GradeNext(g)
    PROVE  UNCHANGED <<library, writers>>
BY DEF RunNext, RunStart, RunScore, RunSkip, RunFinish, RunFails,
       GradeNext, GradeStart, GradeAsk, GradeApply, GradeErrs, GradeEnd, GradeFails

LEMMA ScoringTyped ==
    ASSUME TypeInv, RunInv, GradersInv, RunNext \/ \E g \in Graders : GradeNext(g)
    PROVE  TypeInv'
<1>1. BoundTypes'
  BY CountsTyped DEF TypeInv, RunNext, RunStart, RunScore, RunSkip, RunFinish, RunFails,
       GradeNext, GradeStart, GradeAsk, GradeApply, GradeErrs, GradeEnd, GradeFails
<1>2. LibraryTypes' /\ WriterTypes'
  BY ScoringFrame DEF TypeInv, LibraryTypes, WriterTypes
<1>3. ScoringTypes'
  <2> USE DEF TypeInv, ScoringTypes, RunInv
  <2>1. CASE RunStart
    BY <2>1, RunStarts DEF RunStart
  <2>2. CASE RunScore
    BY <2>2, RunScores DEF RunScore, RowAppended
  <2>3. CASE RunSkip
    BY <2>3, RunSkips DEF RunSkip, RowAppended
  <2>4. CASE RunFinish
    BY <2>4, RunFinishes, IdleTyped DEF RunFinish
  <2>5. CASE RunFails
    BY <2>5, IdleTyped DEF RunFails
  <2>6. ASSUME NEW g \in Graders, GradeApply(g) PROVE ScoringTypes'
    <3>1. results' \in Seq(ResultRows) /\ grader' \in [Graders -> GraderStates]
      BY <2>6, GradeApplies DEF OthersGrade
    <3> QED
      BY <2>6, <3>1 DEF GradeApply
  <2>7. ASSUME NEW g \in Graders, GradeNext(g), ~GradeApply(g) PROVE ScoringTypes'
    BY <2>7, GraderMoves DEF OthersGrade
  <2> QED
    BY <2>1, <2>2, <2>3, <2>4, <2>5, <2>6, <2>7 DEF RunNext
<1> QED
  BY <1>1, <1>2, <1>3 DEF TypeInv

\* Every step of a command keeps the types.
LEMMA StepTyped ==
    ASSUME TypeInv, IInv, ScoringNext
    PROVE  TypeInv'
<1>1. ASSUME LibraryNext, UNCHANGED scoring PROVE TypeInv'
  <2>1. LibraryTypes' /\ WriterTypes' /\ BoundTypes'
    BY <1>1, NewCommitTyped, EndTyped, SeedTyped, SubmitTyped, PollTyped, RefreshTyped
       DEF LibraryNext, IInv, SeederInv
  <2>2. ScoringTypes'
    BY <1>1 DEF TypeInv, ScoringTypes
  <2> QED
    BY <2>1, <2>2 DEF TypeInv
<1>2. ASSUME RunNext \/ \E g \in Graders : GradeNext(g) PROVE TypeInv'
  BY <1>2, ScoringTyped DEF IInv
<1> QED
  BY <1>1, <1>2 DEF ScoringNext

-----------------------------------------------------------------------------
(***************************************************************************)
(* What no step takes back: the commit of a row, that it was submitted,    *)
(* the items of a batch and what it has once it ended; and, where          *)
(* submissions do not overlap, with which batch, and a rewritten brief.    *)
(***************************************************************************)
BatchesKept ==
    /\ Len(batches) \in Nat /\ Len(batches') \in Nat /\ Len(batches) <= Len(batches')
    /\ DOMAIN batches \subseteq DOMAIN batches'
    /\ \A b \in DOMAIN batches :
          /\ batches'[b].items = batches[b].items
          /\ batches[b].ended => batches'[b] = batches[b]

BriefKept(i) ==
    /\ tasks[i].status # "none" => tasks'[i].batch = tasks[i].batch
    /\ tasks[i].brief # NoBatch => tasks'[i].brief = tasks[i].brief /\ tasks'[i].source = tasks[i].source

TasksKept ==
    \A i \in TaskIds :
        /\ i \in TaskIds' /\ tasks'[i].commit = tasks[i].commit /\ tasks'[i].nature = tasks[i].nature
        /\ tasks[i].status # "none" => tasks'[i].status # "none"
        /\ OneSubmitter => BriefKept(i)

NoneMarked == \A i \in TaskIds : tasks[i].status = "none" => tasks'[i].status = "none"

HeadKept == head \in Nat /\ head' \in Nat /\ head <= head'

LEMMA BatchesTyped == ASSUME TypeInv PROVE Len(batches) \in Nat /\ DOMAIN batches = 1..Len(batches)
BY LenProperties DEF TypeInv, LibraryTypes

LEMMA SameBatches == ASSUME TypeInv, UNCHANGED batches PROVE BatchesKept
BY BatchesTyped DEF BatchesKept

LEMMA SameHead == ASSUME TypeInv, UNCHANGED head PROVE HeadKept
BY ConstantsTyped DEF HeadKept, TypeInv, LibraryTypes

\* A row whose brief nobody writes stays sound while batches come and end.
LEMMA RowStays ==
    ASSUME HeadKept, BatchesKept, NEW i, RowSound(i), Answered(i),
           tasks'[i].commit = tasks[i].commit, tasks'[i].brief = tasks[i].brief,
           tasks'[i].source = tasks[i].source, tasks'[i].status = tasks[i].status,
           tasks'[i].batch = tasks[i].batch, tasks'[i].request \in Texts'
    PROVE  RowSound(i)' /\ Answered(i)'
<1>1. tasks'[i].commit \in 1..head'
  BY DEF RowSound, HeadKept
<1>2. tasks[i].status = "none" => Mechanical(i)' /\ tasks'[i].batch = NoBatch
  BY DEF RowSound, Mechanical
<1>3. tasks[i].status # "none" => MarkedWith(i, tasks[i].batch)'
  BY DEF RowSound, MarkedWith, BatchesKept
<1>4. tasks[i].status \in {"submitted", "errored"} => Mechanical(i)'
  BY DEF RowSound, Mechanical
<1>5. ASSUME tasks[i].status = "done"
      PROVE  /\ tasks'[i].source = "reverse_engineered" /\ tasks'[i].brief = tasks[i].batch
             /\ i \in batches'[tasks[i].batch].answered /\ batches'[tasks[i].batch].ended
  <2>1. tasks[i].batch \in DOMAIN batches /\ batches[tasks[i].batch].ended
    BY <1>5 DEF RowSound, MarkedWith, Answered
  <2>2. batches'[tasks[i].batch] = batches[tasks[i].batch]
    BY <2>1 DEF BatchesKept
  <2> QED
    BY <1>5, <2>1, <2>2 DEF RowSound
<1>6. Answered(i)'
  BY <1>5 DEF Answered
<1> QED
  BY <1>1, <1>2, <1>3, <1>4, <1>5, <1>6 DEF RowSound, MarkedWith

\* A row nothing was written of.
LEMMA RowUntouched ==
    ASSUME HeadKept, BatchesKept, NEW i, RowSound(i), Answered(i), tasks'[i] = tasks[i]
    PROVE  RowSound(i)' /\ Answered(i)'
<1>1. tasks'[i].request \in Texts'
  BY DEF RowSound, Texts, BatchesKept
<1> QED
  BY <1>1, RowStays

\* Sound batches stay sound while tasks are added and texts arrive.
LEMMA BatchStays ==
    ASSUME TaskIds \subseteq TaskIds', NEW b, BatchSound(b), batches'[b].items = batches[b].items,
           batches'[b].answered = batches[b].answered \/ batches'[b].answered \subseteq batches[b].items
    PROVE  BatchSound(b)'
BY DEF BatchSound

\* The tables of the library are not written.
LEMMA LibraryFrame ==
    ASSUME TypeInv, LibraryInv, UNCHANGED library
    PROVE  LibraryInv' /\ BatchesKept /\ TasksKept /\ NoneMarked /\ HeadKept
<1>1. LibraryInv'
  BY DEF LibraryInv, RowSound, Answered, BatchSound, Mechanical, MarkedWith, TaskIds, Texts
<1>2. BatchesKept /\ HeadKept
  BY SameBatches, SameHead
<1> QED
  BY <1>1, <1>2 DEF TasksKept, BriefKept, NoneMarked, TaskIds

\* One row is written and the others stay: it is enough that this one is sound.
LEMMA LibraryRowStep ==
    ASSUME TypeInv, LibraryInv, NEW i \in TaskIds, TaskIds' = TaskIds,
           \A j \in TaskIds \ {i} : tasks'[j] = tasks[j], UNCHANGED <<head, batches>>,
           tasks'[i].commit = tasks[i].commit, tasks'[i].nature = tasks[i].nature,
           tasks[i].status # "none" => tasks'[i].status # "none", OneSubmitter => BriefKept(i),
           RowSound(i)', Answered(i)'
    PROVE  LibraryInv' /\ BatchesKept /\ TasksKept /\ HeadKept
<1>1. BatchesKept /\ HeadKept
  BY SameBatches, SameHead
<1>2. \A j \in TaskIds : RowSound(j)' /\ Answered(j)'
  BY <1>1, RowUntouched DEF LibraryInv
<1>3. \A b \in DOMAIN batches' : BatchSound(b)'
  BY DEF LibraryInv, BatchSound
<1>4. TasksKept
  BY DEF TasksKept, BriefKept
<1> QED
  BY <1>1, <1>2, <1>3, <1>4 DEF LibraryInv

LEMMA SeedKeepsLibrary ==
    ASSUME TypeInv, LibraryInv, ListSound, SeedCommitStep
    PROVE  /\ LibraryInv' /\ BatchesKept /\ TasksKept /\ NoneMarked /\ HeadKept
<1>0. PICK c : c = Head(seeder.left)
  OBVIOUS
<1>1. BatchesKept /\ HeadKept /\ UNCHANGED <<head, batches>>
  BY SameBatches, SameHead DEF SeedCommitStep
<1>2. CASE UNCHANGED tasks
  BY <1>1, <1>2, LibraryFrame
<1>3. CASE tasks' = Append(tasks, NewTask(c))
  <2>0. PICK n : n = Len(tasks) + 1
    OBVIOUS
  <2>1. c \in 1..head
    BY <1>0, SeedCommitTyped
  <2>2. /\ NewTask(c) \in TaskRows /\ NewTask(c).commit = c
        /\ NewTask(c).brief = NoBatch /\ NewTask(c).source = "commit_subject"
        /\ NewTask(c).status = "none" /\ NewTask(c).batch = NoBatch /\ NewTask(c).request = NoBatch
    BY <2>1, NewTaskTyped DEF TypeInv
  <2>3. tasks \in Seq(TaskRows) /\ TaskIds = 1..Len(tasks) /\ Len(tasks) \in Nat
    BY TaskIdsAre DEF TypeInv, LibraryTypes
  <2>4. tasks' \in Seq(TaskRows) /\ Len(tasks') = n /\ tasks'[n] = NewTask(c)
        /\ \A i \in 1..Len(tasks) : tasks'[i] = tasks[i]
    BY <2>0, <2>2, <2>3, <1>3, AppendProperties
  <2>5. TaskIds' = TaskIds \cup {n}
    BY <2>0, <2>3, <2>4, LenProperties DEF TaskIds
  <2>6. \A i \in TaskIds : RowSound(i)' /\ Answered(i)'
    BY <1>1, <2>3, <2>4, RowUntouched DEF LibraryInv
  <2>7. RowSound(n)' /\ Answered(n)'
    <3>1. NoBatch \in Texts'
      BY <1>1 DEF NoBatch, Texts, BatchesKept
    <3> QED
      BY <3>1, <1>1, <2>1, <2>2, <2>4 DEF RowSound, Answered, Mechanical
  <2>8. \A b \in DOMAIN batches : BatchSound(b)'
    BY <1>1, <2>5, BatchStays DEF LibraryInv
  <2>9. TasksKept /\ NoneMarked
    BY <2>3, <2>4, <2>5 DEF TasksKept, BriefKept, NoneMarked
  <2> QED
    BY <1>1, <2>5, <2>6, <2>7, <2>8, <2>9 DEF LibraryInv
<1> QED
  BY <1>0, <1>2, <1>3 DEF SeedCommitStep

LEMMA MarkKeepsLibrary ==
    ASSUME TypeInv, LibraryInv, SubmittersInv, NEW s \in Submitters, SubmitMark(s)
    PROVE  LibraryInv' /\ BatchesKept /\ TasksKept /\ HeadKept
<1>0. PICK i, b, row : i = Min(submitter[s].left) /\ b = submitter[s].batch /\ row = submitter[s].rows[i]
  OBVIOUS
<1>1. /\ i \in submitter[s].left /\ i \in TaskIds
      /\ BriefWritten(i, row.brief, row.source, "submitted", b)
  BY <1>0, SubmitMarks DEF SubmittersInv, SubmitterSound
<1>2. /\ row.brief = NoBatch /\ row.source = "commit_subject"
      /\ b \in DOMAIN batches /\ i \in batches[b].items
      /\ OneSubmitter => tasks[i].status = "none"
  BY <1>0, <1>1 DEF SubmittersInv, SubmitterSound, SubmitMark, Stale
<1>3. UNCHANGED <<head, batches>>
  BY DEF SubmitMark
<1>4. RowSound(i)
  BY <1>1 DEF LibraryInv
<1>5. RowSound(i)' /\ Answered(i)'
  BY <1>1, <1>2, <1>3, <1>4 DEF RowSound, Answered, BriefWritten, Mechanical, MarkedWith, Texts
<1>6. OneSubmitter => BriefKept(i)
  BY <1>2, <1>4 DEF RowSound, Mechanical, BriefKept
<1> QED
  BY <1>1, <1>3, <1>5, <1>6, LibraryRowStep DEF BriefWritten

LEMMA ApplyKeepsLibrary ==
    ASSUME TypeInv, LibraryInv, PollersInv, NEW p \in Pollers, PollApply(p)
    PROVE  LibraryInv' /\ BatchesKept /\ TasksKept /\ NoneMarked /\ HeadKept
<1>0. PICK i, b, row : i = Min(poller[p].left) /\ b = poller[p].batch /\ row = poller[p].rows[i]
  OBVIOUS
<1>1. /\ i \in poller[p].left /\ i \in TaskIds
      /\ IF i \in batches[b].answered
         THEN BriefWritten(i, b, "reverse_engineered", "done", b)
         ELSE BriefWritten(i, row.brief, row.source, "errored", b)
  BY <1>0, PollApplies
<1>2. /\ i \in DOMAIN poller[p].rows /\ row.batch = b
      /\ b \in DOMAIN batches /\ batches[b].ended
  BY <1>0, <1>1 DEF PollersInv, PollerSound, PollApply, OfGroup
<1>3. /\ Stale(poller[p].rows, i) /\ tasks[i].status # "none" /\ MarkedWith(i, b)
      /\ OneSubmitter => tasks[i].batch = b
  BY <1>0, <1>2 DEF PollersInv, PollerSound
<1>4. UNCHANGED <<head, batches>>
  BY DEF PollApply
<1>5. row.brief = NoBatch /\ row.source = "commit_subject"
  BY <1>0, <1>3 DEF Stale
<1>6. RowSound(i) /\ Answered(i)
  BY <1>1 DEF LibraryInv
<1>7. tasks[i].brief # NoBatch => tasks[i].status = "done"
  BY <1>1, <1>3, <1>6, RowsTyped DEF RowSound, Mechanical, BriefStatuses, TypeInv
<1>8. OneSubmitter => BriefKept(i)
  <2>1. ASSUME OneSubmitter, tasks[i].status = "done"
        PROVE  i \in batches[b].answered /\ tasks[i].brief = b /\ tasks[i].source = "reverse_engineered"
    BY <2>1, <1>3, <1>6 DEF RowSound
  <2> QED
    BY <2>1, <1>1, <1>3, <1>7 DEF BriefKept, BriefWritten
<1>9. RowSound(i)' /\ Answered(i)'
  BY <1>1, <1>2, <1>3, <1>4, <1>5, <1>6 DEF RowSound, Answered, BriefWritten, Mechanical, MarkedWith, Texts
<1>10. LibraryInv' /\ BatchesKept /\ TasksKept /\ HeadKept
  BY <1>1, <1>4, <1>8, <1>9, LibraryRowStep DEF BriefWritten
<1>11. NoneMarked
  BY <1>1, <1>3 DEF NoneMarked, BriefWritten
<1> QED
  BY <1>10, <1>11

LEMMA RefreshKeepsLibrary ==
    ASSUME TypeInv, LibraryInv, RefresherInv, RefreshRequest \/ RefreshHoldout
    PROVE  LibraryInv' /\ BatchesKept /\ TasksKept /\ NoneMarked /\ HeadKept
<1>0. PICK i : i = Min(refresher.left)
  OBVIOUS
<1>1. UNCHANGED <<head, batches>>
  BY DEF RefreshRequest, RefreshHoldout
<1>2. i \in refresher.left /\ i \in TaskIds /\ RequestWritten(i)
  BY <1>0, RefreshesRequest, RefreshesHoldout
<1>3. tasks'[i].request \in Texts
  <2>1. CASE RefreshRequest
    BY <2>1, <1>0, <1>2, RefreshesRequest DEF RefresherInv
  <2>2. CASE RefreshHoldout
    BY <2>2, <1>0, <1>2, RefreshesHoldout DEF LibraryInv, RowSound
  <2> QED
    BY <2>1, <2>2
<1>4. BatchesKept /\ HeadKept
  BY <1>1, SameBatches, SameHead
<1>5. tasks'[i].request \in Texts'
  BY <1>1, <1>3 DEF Texts
<1>6. RowSound(i)' /\ Answered(i)'
  BY <1>2, <1>4, <1>5, RowStays DEF LibraryInv, RequestWritten
<1>7. LibraryInv' /\ TasksKept
  BY <1>1, <1>2, <1>6, LibraryRowStep DEF RequestWritten, BriefKept
<1>8. NoneMarked
  BY <1>2 DEF NoneMarked, RequestWritten
<1> QED
  BY <1>4, <1>7, <1>8

\* Batches are made and end, commits are made: no row is written.
LEMMA ServiceKeepsLibrary ==
    ASSUME TypeInv, LibraryInv, UNCHANGED tasks, HeadKept, BatchesKept,
           \A b \in DOMAIN batches' : BatchSound(b)'
    PROVE  LibraryInv' /\ TasksKept /\ NoneMarked
<1>1. \A i \in TaskIds : RowSound(i)' /\ Answered(i)'
  BY RowUntouched DEF LibraryInv
<1> QED
  BY <1>1 DEF LibraryInv, TaskIds, TasksKept, BriefKept, NoneMarked

LEMMA MadeKeepsLibrary ==
    ASSUME TypeInv, LibraryInv, NEW s \in Submitters, submitter[s].left \subseteq TaskIds, BatchMade(s),
           UNCHANGED <<head, tasks>>
    PROVE  LibraryInv' /\ BatchesKept /\ TasksKept /\ NoneMarked /\ HeadKept
<1>1. HeadKept
  BY SameHead
<1>2. BatchesKept
  BY BatchesTyped DEF BatchesKept, BatchMade
<1>3. \A b \in DOMAIN batches : BatchSound(b)'
  BY BatchStays DEF LibraryInv, BatchMade, TaskIds
<1>4. PICK n : n = Len(batches) + 1
  OBVIOUS
<1>5. BatchSound(n)'
  BY <1>4 DEF BatchSound, BatchMade, TaskIds
<1> QED
  BY <1>1, <1>2, <1>3, <1>4, <1>5, ServiceKeepsLibrary DEF BatchMade

LEMMA EndKeepsLibrary ==
    ASSUME TypeInv, LibraryInv, BatchEnds
    PROVE  LibraryInv' /\ BatchesKept /\ TasksKept /\ NoneMarked /\ HeadKept
<1>1. HeadKept /\ UNCHANGED <<head, tasks>>
  BY SameHead DEF BatchEnds
<1>2. BatchesKept
  BY BatchesTyped, BatchAnswered DEF BatchesKept
<1>3. \A b \in DOMAIN batches' : BatchSound(b)'
  BY <1>1, BatchAnswered, BatchStays DEF LibraryInv, TaskIds
<1> QED
  BY <1>1, <1>2, <1>3, ServiceKeepsLibrary

LEMMA CommitKeepsLibrary ==
    ASSUME TypeInv, LibraryInv, NewCommit
    PROVE  LibraryInv' /\ BatchesKept /\ TasksKept /\ NoneMarked /\ HeadKept
<1>1. HeadKept
  BY NewCommitTyped DEF HeadKept
<1>2. BatchesKept /\ UNCHANGED <<tasks, batches>>
  BY SameBatches DEF NewCommit
<1>3. \A b \in DOMAIN batches' : BatchSound(b)'
  BY <1>2 DEF LibraryInv, BatchSound, TaskIds
<1> QED
  BY <1>1, <1>2, <1>3, ServiceKeepsLibrary

\* What the library's tables keep through every step of a command.
LEMMA StepKeepsLibrary ==
    ASSUME TypeInv, IInv, ScoringNext
    PROVE  /\ LibraryInv' /\ BatchesKept /\ TasksKept /\ HeadKept
           /\ (\E s \in Submitters : SubmitMark(s)) \/ NoneMarked
<1> USE DEF IInv, SeederInv
<1>1. CASE RunNext \/ \E g \in Graders : GradeNext(g)
  BY <1>1, ScoringFrame, LibraryFrame
<1>2. CASE NewCommit
  BY <1>2, CommitKeepsLibrary
<1>3. CASE BatchEnds
  BY <1>3, EndKeepsLibrary
<1>4. CASE SeedNext
  <2>1. CASE SeedCommitStep
    BY <2>1, SeedKeepsLibrary
  <2>2. CASE SeedStart \/ SeedEnd \/ SeedFails
    BY <2>2, LibraryFrame DEF SeedStart, SeedEnd, SeedFails
  <2> QED
    BY <1>4, <2>1, <2>2 DEF SeedNext
<1>5. ASSUME NEW s \in Submitters, SubmitNext(s)
      PROVE  LibraryInv' /\ BatchesKept /\ TasksKept /\ HeadKept /\ (SubmitMark(s) \/ NoneMarked)
  <2>1. CASE SubmitBatch(s) \/ SubmitAnswerLost(s)
    <3>1. BatchMade(s) /\ UNCHANGED <<head, tasks>>
      BY <2>1, BatchIsMade DEF SubmitBatch, SubmitAnswerLost
    <3> QED
      BY <3>1, MadeKeepsLibrary DEF SubmittersInv, SubmitterSound
  <2>2. CASE SubmitMark(s)
    BY <2>2, MarkKeepsLibrary
  <2>3. CASE SubmitStart(s) \/ SubmitEnd(s) \/ SubmitFails(s)
    BY <2>3, LibraryFrame DEF SubmitStart, SubmitEnd, SubmitFails
  <2> QED
    BY <1>5, <2>1, <2>2, <2>3 DEF SubmitNext
<1>6. ASSUME NEW p \in Pollers, PollNext(p)
      PROVE  LibraryInv' /\ BatchesKept /\ TasksKept /\ HeadKept /\ NoneMarked
  <2>1. CASE PollApply(p)
    BY <2>1, ApplyKeepsLibrary
  <2>2. CASE ~PollApply(p)
    BY <1>6, <2>2, LibraryFrame DEF PollNext, PollStart, PollGet, PollNextBatch, PollEnd, PollFails
  <2> QED
    BY <2>1, <2>2
<1>7. CASE RefreshNext
  <2>1. CASE RefreshRequest \/ RefreshHoldout
    BY <2>1, RefreshKeepsLibrary
  <2>2. CASE RefreshStart \/ RefreshSkips \/ RefreshEnd \/ RefreshFails
    BY <2>2, LibraryFrame DEF RefreshStart, RefreshSkips, RefreshEnd, RefreshFails
  <2> QED
    BY <1>7, <2>1, <2>2 DEF RefreshNext
<1> QED
  BY <1>1, <1>2, <1>3, <1>4, <1>5, <1>6, <1>7 DEF ScoringNext, LibraryNext

-----------------------------------------------------------------------------
(***************************************************************************)
(* The submitters, the pollers and the refresher.                          *)
(***************************************************************************)
LEMMA SubmitterStays ==
    ASSUME NEW s \in Submitters, SubmitterSound(s), TasksKept, BatchesKept, OneSubmitter => NoneMarked,
           submitter'[s] = submitter[s]
    PROVE  SubmitterSound(s)'
<1>1. submitter[s].left \subseteq TaskIds'
  BY DEF SubmitterSound, TasksKept
<1>2. \A i \in submitter[s].left : OneSubmitter => tasks'[i].status = "none"
  BY DEF SubmitterSound, NoneMarked
<1>3. submitter[s].pc = "mark" =>
        /\ submitter[s].batch \in DOMAIN batches'
        /\ submitter[s].left \subseteq batches'[submitter[s].batch].items
  BY DEF SubmitterSound, BatchesKept
<1> QED
  BY <1>1, <1>2, <1>3 DEF SubmitterSound, Stale

LEMMA SubmitterKept ==
    ASSUME TypeInv, LibraryInv, SubmittersInv, BatchesKept, NEW s \in Submitters, SubmitNext(s)
    PROVE  SubmitterSound(s)'
<1>0. SubmitterSound(s)
  BY DEF SubmittersInv
<1>1. CASE SubmitStart(s)
  <2>1. /\ submitter'[s].pc = "submit" /\ submitter'[s].left = Eligible /\ UNCHANGED tasks
        /\ submitter'[s].rows = BriefsRead(Eligible) /\ Eligible \in SUBSET TaskIds
    BY <1>1, SubmitStarts DEF SubmitStart, Eligible
  <2>2. \A i \in Eligible : /\ i \in DOMAIN submitter'[s].rows /\ submitter'[s].rows[i].brief = tasks[i].brief
                            /\ submitter'[s].rows[i].source = tasks[i].source
    BY <2>1, ReadingTyped DEF TypeInv
  <2>3. \A i \in Eligible : Mechanical(i) /\ tasks[i].status = "none"
    BY DEF Eligible, LibraryInv, RowSound
  <2> QED
    BY <2>1, <2>2, <2>3 DEF SubmitterSound, Stale, Mechanical, TaskIds
<1>2. CASE SubmitBatch(s)
  <2>1. /\ BatchMade(s) /\ UNCHANGED tasks /\ submitter'[s].pc = "mark"
        /\ submitter'[s].batch = Len(batches) + 1
        /\ submitter'[s].rows = submitter[s].rows /\ submitter'[s].left = submitter[s].left
    BY <1>2, SubmitBatches DEF SubmitBatch
  <2>2. submitter'[s].batch \in DOMAIN batches' /\ batches'[submitter'[s].batch].items = submitter[s].left
    BY <2>1 DEF BatchMade
  <2> QED
    BY <1>0, <2>1, <2>2 DEF SubmitterSound, Stale, TaskIds
<1>3. CASE SubmitMark(s)
  <2>1. PICK i : i = Min(submitter[s].left)
    OBVIOUS
  <2>2. /\ i \in submitter[s].left /\ submitter'[s].left = submitter[s].left \ {i}
        /\ submitter'[s].rows = submitter[s].rows /\ submitter'[s].batch = submitter[s].batch
        /\ submitter[s].pc = "mark" /\ UNCHANGED batches
        /\ TaskIds' = TaskIds /\ \A j \in TaskIds \ {i} : tasks'[j] = tasks[j]
    BY <1>3, <2>1, SubmitMarks DEF BriefWritten, SubmitMark
  <2> QED
    BY <1>0, <2>2 DEF SubmitterSound, Stale
<1>4. CASE SubmitEnd(s) \/ SubmitFails(s) \/ SubmitAnswerLost(s)
  <2>1. submitter'[s] = SubmitterIdle
    BY <1>4, SubmitMoves
  <2> QED
    BY <2>1 DEF SubmitterIdle, SubmitterSound, Idle
<1> QED
  BY <1>1, <1>2, <1>3, <1>4 DEF SubmitNext

LEMMA PollerStays ==
    ASSUME NEW p \in Pollers, PollerSound(p), TasksKept, BatchesKept, poller'[p] = poller[p]
    PROVE  PollerSound(p)'
<1>1. /\ DOMAIN poller[p].rows \subseteq TaskIds'
      /\ poller[p].groups \subseteq DOMAIN batches'
  BY DEF PollerSound, TasksKept, BatchesKept
<1>2. \A i \in DOMAIN poller[p].rows :
         /\ Stale(poller[p].rows, i) /\ tasks'[i].status # "none"
         /\ MarkedWith(i, poller[p].rows[i].batch)'
         /\ OneSubmitter => poller[p].rows[i].batch = tasks'[i].batch
  <2>1. \A i \in DOMAIN poller[p].rows : MarkedWith(i, poller[p].rows[i].batch)'
    BY DEF PollerSound, MarkedWith, BatchesKept
  <2> QED
    BY <2>1 DEF PollerSound, TasksKept, BriefKept
<1>3. poller[p].pc = "apply" =>
         /\ poller[p].batch \in DOMAIN batches' /\ batches'[poller[p].batch].ended
         /\ poller[p].left \subseteq OfGroup(p, poller[p].batch)
  BY DEF PollerSound, BatchesKept
<1>4. OfGroup(p, poller[p].batch)' = OfGroup(p, poller[p].batch)
  BY DEF OfGroup
<1> QED
  BY <1>1, <1>2, <1>3, <1>4 DEF PollerSound, Stale, MarkedWith

LEMMA PollerKept ==
    ASSUME TypeInv, LibraryInv, PollersInv, NEW p \in Pollers, PollNext(p), TasksKept, BatchesKept
    PROVE  PollerSound(p)'
<1>1. CASE PollStart(p)
  <2>1. /\ poller'[p].pc = "get" /\ poller'[p].rows = BriefsRead(Submitted)
        /\ poller'[p].groups = {tasks[i].batch : i \in Submitted}
        /\ Submitted \in SUBSET TaskIds /\ UNCHANGED <<tasks, batches>>
    BY <1>1, PollStarts DEF PollStart, Submitted
  <2>2. /\ DOMAIN poller'[p].rows = Submitted
        /\ \A i \in Submitted : /\ poller'[p].rows[i].brief = tasks[i].brief
                                /\ poller'[p].rows[i].source = tasks[i].source
                                /\ poller'[p].rows[i].batch = tasks[i].batch
    BY <2>1, ReadingTyped DEF TypeInv
  <2>3. \A i \in Submitted : Mechanical(i) /\ tasks[i].status # "none" /\ MarkedWith(i, tasks[i].batch)
    BY DEF Submitted, LibraryInv, RowSound
  <2> QED
    BY <2>1, <2>2, <2>3 DEF PollerSound, Stale, Mechanical, MarkedWith, TaskIds
<1>2. CASE PollGet(p)
  <2>1. PICK b \in poller[p].groups :
           /\ poller'[p].rows = poller[p].rows /\ poller'[p].groups = poller[p].groups \ {b}
           /\ poller'[p].batch = b
           /\ poller'[p].pc = IF batches[b].ended THEN "apply" ELSE "get"
           /\ poller'[p].left = IF batches[b].ended THEN OfGroup(p, b) ELSE {}
    BY <1>2, PollGets
  <2>2. b \in DOMAIN batches /\ UNCHANGED <<tasks, batches>>
    BY <1>2 DEF PollGet, PollersInv, PollerSound
  <2>3. OfGroup(p, b)' = OfGroup(p, b)
    BY <2>1 DEF OfGroup
  <2> QED
    BY <2>1, <2>2, <2>3 DEF PollersInv, PollerSound, Stale, MarkedWith, TaskIds
<1>3. CASE PollApply(p)
  <2>1. /\ poller'[p].rows = poller[p].rows /\ poller'[p].pc = poller[p].pc
        /\ poller'[p].groups = poller[p].groups /\ poller'[p].batch = poller[p].batch
        /\ poller'[p].left \subseteq poller[p].left /\ UNCHANGED batches
    BY <1>3, PollApplies DEF PollApply
  <2>2. OfGroup(p, poller[p].batch)' = OfGroup(p, poller[p].batch)
    BY <2>1 DEF OfGroup
  <2>3. PollerSound(p)
    BY DEF PollersInv
  <2> QED
    BY <2>1, <2>2, <2>3 DEF PollerSound, Stale, MarkedWith, TasksKept, BriefKept
<1>4. CASE PollNextBatch(p)
  <2>1. /\ poller'[p].rows = poller[p].rows /\ poller'[p].groups = poller[p].groups
        /\ poller'[p].pc = "get" /\ UNCHANGED <<tasks, batches>>
    BY <1>4, PollMoves DEF PollNextBatch
  <2> QED
    BY <2>1 DEF PollersInv, PollerSound, Stale, MarkedWith, TaskIds
<1>5. CASE PollEnd(p) \/ PollFails(p)
  <2>1. poller'[p] = PollerIdle
    BY <1>5, PollMoves
  <2> QED
    BY <2>1, NothingRead DEF PollerSound, PollerIdle, Idle
<1> QED
  BY <1>1, <1>2, <1>3, <1>4, <1>5 DEF PollNext

LEMMA RefresherStays ==
    ASSUME RefresherInv, TasksKept, BatchesKept, UNCHANGED refresher
    PROVE  RefresherInv'
BY DEF RefresherInv, TasksKept, BatchesKept, Texts

LEMMA RefresherKept ==
    ASSUME TypeInv, LibraryInv, RefresherInv, RefreshNext
    PROVE  RefresherInv'
<1>1. CASE RefreshStart
  <2>1. /\ refresher'.pc = "request" /\ refresher'.rows = BriefsRead(TaskIds)
        /\ refresher'.left = TaskIds /\ UNCHANGED <<tasks, batches>>
    BY <1>1, RefreshStarts DEF RefreshStart
  <2>2. DOMAIN refresher'.rows = TaskIds /\ \A i \in TaskIds : refresher'.rows[i].brief = tasks[i].brief
    BY <2>1, ReadingTyped DEF TypeInv
  <2>3. \A i \in TaskIds : tasks[i].brief \in Texts
    <3> SUFFICES ASSUME NEW i \in TaskIds PROVE tasks[i].brief \in Texts
      OBVIOUS
    <3>1. RowSound(i) /\ tasks[i].status \in BriefStatuses
      BY RowsTyped DEF LibraryInv, TypeInv
    <3>2. CASE tasks[i].brief = NoBatch
      BY <3>2, BatchesTyped DEF NoBatch, Texts
    <3>3. CASE tasks[i].brief # NoBatch
      <4>1. tasks[i].brief = tasks[i].batch /\ tasks[i].batch \in DOMAIN batches
        BY <3>1, <3>3 DEF RowSound, Mechanical, MarkedWith, BriefStatuses
      <4> QED
        BY <4>1, BatchesTyped DEF Texts
    <3> QED
      BY <3>2, <3>3
  <2> QED
    BY <2>1, <2>2, <2>3 DEF RefresherInv, TaskIds, Texts
<1>2. CASE RefreshRequest
  <2>1. PICK i : i = Min(refresher.left)
    OBVIOUS
  <2>2. /\ i \in refresher.left /\ TaskIds' = TaskIds /\ refresher'.rows = refresher.rows
        /\ \/ refresher'.pc = "request" /\ refresher'.left = refresher.left \ {i}
           \/ refresher'.pc = "holdout" /\ refresher'.left = refresher.left
        /\ UNCHANGED batches
    BY <1>2, <2>1, RefreshesRequest DEF RequestWritten, RefreshRequest
  <2> QED
    BY <2>2 DEF RefresherInv, Texts
<1>3. CASE RefreshHoldout
  <2>1. PICK i : i = Min(refresher.left)
    OBVIOUS
  <2>2. /\ TaskIds' = TaskIds /\ refresher'.rows = refresher.rows
        /\ refresher'.pc = "request" /\ refresher'.left = refresher.left \ {i}
        /\ UNCHANGED batches
    BY <1>3, <2>1, RefreshesHoldout DEF RequestWritten, RefreshHoldout
  <2> QED
    BY <2>2 DEF RefresherInv, Texts
<1>4. CASE RefreshSkips
  BY <1>4, RefreshPassesOver DEF RefresherInv, TaskIds, Texts
<1>5. CASE RefreshEnd \/ RefreshFails
  BY <1>5, NothingRead DEF RefreshEnd, RefreshFails, RefresherIdle, RefresherInv, Idle
<1> QED
  BY <1>1, <1>2, <1>3, <1>4, <1>5 DEF RefreshNext

-----------------------------------------------------------------------------
(***************************************************************************)
(* The seeder: one task per commit, and the share of documentation.        *)
(***************************************************************************)
\* Only a seeder adds rows.
SameTasks ==
    /\ TaskIds' = TaskIds /\ Len(tasks') = Len(tasks)
    /\ \A i \in TaskIds : tasks'[i].commit = tasks[i].commit /\ tasks'[i].nature = tasks[i].nature

LEMMA OthersAddNothing ==
    ASSUME TypeInv, IInv, ScoringNext, ~SeedCommitStep
    PROVE  SameTasks
<1> USE DEF IInv
<1>1. CASE UNCHANGED tasks
  BY <1>1 DEF SameTasks, TaskIds
<1>2. ASSUME NEW s \in Submitters, SubmitMark(s) PROVE SameTasks
  <2>1. PICK i : i = Min(submitter[s].left)
    OBVIOUS
  <2>2. /\ TaskIds' = TaskIds /\ Len(tasks') = Len(tasks)
        /\ \A j \in TaskIds \ {i} : tasks'[j] = tasks[j]
        /\ tasks'[i].commit = tasks[i].commit /\ tasks'[i].nature = tasks[i].nature
    BY <1>2, <2>1, SubmitMarks DEF BriefWritten
  <2> QED
    BY <2>2 DEF SameTasks
<1>3. ASSUME NEW p \in Pollers, PollApply(p) PROVE SameTasks
  <2>1. PICK i : i = Min(poller[p].left)
    OBVIOUS
  <2>2. /\ TaskIds' = TaskIds /\ Len(tasks') = Len(tasks)
        /\ \A j \in TaskIds \ {i} : tasks'[j] = tasks[j]
        /\ tasks'[i].commit = tasks[i].commit /\ tasks'[i].nature = tasks[i].nature
    BY <1>3, <2>1, PollApplies DEF BriefWritten
  <2> QED
    BY <2>2 DEF SameTasks
<1>4. CASE RefreshRequest \/ RefreshHoldout
  <2>1. PICK i : i = Min(refresher.left)
    OBVIOUS
  <2>2. RequestWritten(i)
    BY <1>4, <2>1, RefreshesRequest, RefreshesHoldout
  <2> QED
    BY <2>2 DEF SameTasks, RequestWritten
<1>5. ASSUME LibraryNext
      PROVE  \/ UNCHANGED tasks \/ RefreshRequest \/ RefreshHoldout
             \/ \E s \in Submitters : SubmitMark(s)
             \/ \E p \in Pollers : PollApply(p)
  <2>1. CASE NewCommit \/ BatchEnds \/ SeedNext
    BY <2>1 DEF NewCommit, BatchEnds, SeedNext, SeedStart, SeedEnd, SeedFails
  <2>2. CASE \E s \in Submitters : SubmitNext(s)
    BY <2>2 DEF SubmitNext, SubmitStart, SubmitBatch, SubmitAnswerLost, SubmitEnd, SubmitFails
  <2>3. CASE \E p \in Pollers : PollNext(p)
    BY <2>3 DEF PollNext, PollStart, PollGet, PollNextBatch, PollEnd, PollFails
  <2>4. CASE RefreshNext
    BY <2>4 DEF RefreshNext, RefreshStart, RefreshSkips, RefreshEnd, RefreshFails
  <2> QED
    BY <1>5, <2>1, <2>2, <2>3, <2>4 DEF LibraryNext
<1>6. CASE RunNext \/ \E g \in Graders : GradeNext(g)
  BY <1>1, <1>6, ScoringFrame
<1> QED
  BY <1>1, <1>2, <1>3, <1>4, <1>5, <1>6 DEF ScoringNext

LEMMA DocsFinite ==
    ASSUME TypeInv
    PROVE  IsFiniteSet(DocsOf) /\ Cardinality(DocsOf) \in Nat /\ Len(tasks) \in Nat
<1>1. Len(tasks) \in Nat /\ DocsOf \subseteq 1..Len(tasks)
  BY TaskIdsAre DEF DocsOf, TypeInv
<1>2. IsFiniteSet(1..Len(tasks))
  BY <1>1, FS_Interval
<1> QED
  BY <1>1, <1>2, FS_Subset, FS_CardinalityType

\* Shares of parts that keep the limit add up to one that does.
LEMMA SharesAdd ==
    ASSUME NEW d \in Int, NEW n \in Int, NEW e \in Int, NEW m \in Int, NEW s \in Nat,
           100 * e <= s * m, 100 * (d - e) <= s * (n - m)
    PROVE  100 * d <= s * n
<1>1. s * (n - m) + s * m = s * n
  OBVIOUS
<1>2. 100 * (d - e) + 100 * e = 100 * d
  OBVIOUS
<1>3. s * (n - m) \in Int /\ s * m \in Int
  OBVIOUS
<1> QED
  BY <1>1, <1>2, <1>3

LEMMA SeederStays ==
    ASSUME TypeInv, SeederInv, NaturesSound, HeadKept, SameTasks, UNCHANGED seeder
    PROVE  SeederInv' /\ NaturesSound'
<1>1. Seeded' = Seeded /\ DocsOf' = DocsOf
  BY DEF Seeded, DocsOf, SameTasks
<1>2. ListSound'
  BY <1>1 DEF SeederInv, ListSound, HeadKept
<1>3. SharesSound'
  BY <1>1 DEF SeederInv, SharesSound, SameTasks
<1>4. OneTaskPerCommit'
  BY DEF SeederInv, OneTaskPerCommit, SameTasks
<1>5. NaturesSound'
  BY DEF NaturesSound, SameTasks
<1> QED
  BY <1>2, <1>3, <1>4, <1>5 DEF SeederInv

\* A seeder that is idle has nothing left, and its tasks are the library's.
LEMMA SeederRests ==
    ASSUME TypeInv, SeederInv, NaturesSound, UNCHANGED <<head, tasks>>, seeder' = SeederIdle
    PROVE  SeederInv' /\ NaturesSound'
<1>1. DocsOf' = DocsOf /\ Len(tasks') = Len(tasks)
  BY DEF DocsOf, TaskIds
<1>2. /\ seeder'.left = <<>> /\ seeder'.inserted = 0 /\ seeder'.docs = 0
  BY DEF SeederIdle
<1>3. ListSound'
  BY <1>2, NothingRead DEF ListSound
<1>4. SharesSound'
  <2> SUFFICES ASSUME DocsShare > 0
               PROVE  /\ 100 * 0 <= DocsShare * 0
                      /\ 100 * (Cardinality(DocsOf) - 0) <= DocsShare * (Len(tasks) - 0)
    BY <1>1, <1>2 DEF SharesSound
  <2>1. /\ Cardinality(DocsOf) \in Nat /\ Len(tasks) \in Nat /\ DocsShare \in Nat
        /\ seeder.docs \in Nat /\ seeder.inserted \in Nat
    BY DocsFinite, ConstantsTyped DEF TypeInv, WriterTypes, Seeders
  <2>2. 100 * Cardinality(DocsOf) <= DocsShare * Len(tasks)
    BY <2>1, SharesAdd DEF SeederInv, SharesSound
  <2> QED
    BY <2>1, <2>2
<1> QED
  BY <1>2, <1>3, <1>4 DEF SeederInv, NaturesSound, OneTaskPerCommit, TaskIds

LEMMA SeederStarts ==
    ASSUME TypeInv, LibraryInv, SeederInv, NaturesSound, SeedStart
    PROVE  SeederInv' /\ NaturesSound'
<1>1. /\ seeder'.pc = "seed" /\ seeder'.known = Seeded /\ seeder'.left = Listed
      /\ seeder'.inserted = 0 /\ seeder'.docs = 0
  BY SeedStartTyped
<1>2. UNCHANGED <<head, tasks>> /\ seeder.pc = Idle
  BY DEF SeedStart
<1>3. Seeded' = Seeded /\ DocsOf' = DocsOf /\ head \in Nat
  BY <1>2, ConstantsTyped DEF Seeded, DocsOf, TaskIds, TypeInv, LibraryTypes
<1>4. ListSound'
  <2>1. DOMAIN Listed = 1..head /\ \A k \in 1..head : Listed[k] = head + 1 - k
    BY ListedTyped DEF TypeInv
  <2>2. \A k \in 1..head : Listed[k] \in 1..head
    BY <2>1, <1>3
  <2>3. \A j, k \in 1..head : Listed[j] = Listed[k] => j = k
    BY <2>1, <1>3
  <2> QED
    BY <1>1, <1>2, <1>3, <2>1, <2>2, <2>3 DEF ListSound
<1>5. SharesSound'
  BY <1>1, <1>2, <1>3 DEF SeederInv, SharesSound
<1> QED
  BY <1>1, <1>2, <1>4, <1>5 DEF SeederInv, NaturesSound, OneTaskPerCommit, TaskIds, Idle

\* The rest of the list holds other commits than its head.
LEMMA ListShortens ==
    ASSUME TypeInv, ListSound, SeedCommitStep, seeder'.left = Tail(seeder.left), UNCHANGED head
    PROVE  /\ \A j, k \in DOMAIN seeder'.left : seeder'.left[j] = seeder'.left[k] => j = k
           /\ \A k \in DOMAIN seeder'.left :
                 /\ seeder'.left[k] \in 1..head /\ seeder'.left[k] # Head(seeder.left)
                 /\ seeder'.left[k] \in Seeded => seeder'.left[k] \in seeder.known
           /\ Head(seeder.left) \in Seeded => Head(seeder.left) \in seeder.known
<1> DEFINE s == seeder.left
<1>1. s \in Seq(Commits) /\ s # <<>>
  BY DEF TypeInv, WriterTypes, Seeders, SeedCommitStep, SeedsMore
<1>2. Len(s) \in Nat /\ DOMAIN s = 1..Len(s) /\ Len(s) # 0
  BY <1>1, LenProperties, EmptySeq
<1>3. Tail(s) \in Seq(Commits) /\ Len(Tail(s)) = Len(s) - 1 /\ \A k \in 1..Len(Tail(s)) : Tail(s)[k] = s[k + 1]
  BY <1>1, HeadTailProperties
<1>4. DOMAIN Tail(s) = 1..(Len(s) - 1)
  BY <1>3, LenProperties
<1>5. Head(s) = s[1] /\ 1 \in DOMAIN s
  BY <1>1, <1>2
<1>6. \A k \in DOMAIN Tail(s) : k + 1 \in DOMAIN s /\ k + 1 # 1 /\ Tail(s)[k] = s[k + 1]
  BY <1>2, <1>3, <1>4
<1>7. \A j, k \in DOMAIN s : s[j] = s[k] => j = k
  BY DEF ListSound
<1>8. \A k \in DOMAIN s : s[k] \in 1..head /\ (s[k] \in Seeded => s[k] \in seeder.known)
  BY DEF ListSound
<1> HIDE DEF s
<1>9. \A j, k \in DOMAIN Tail(s) : Tail(s)[j] = Tail(s)[k] => j = k
  <2> SUFFICES ASSUME NEW j \in DOMAIN Tail(s), NEW k \in DOMAIN Tail(s), Tail(s)[j] = Tail(s)[k] PROVE j = k
    OBVIOUS
  <2>1. j + 1 = k + 1
    BY <1>6, <1>7
  <2>2. j \in Nat /\ k \in Nat
    BY <1>2, <1>4
  <2> QED
    BY <2>1, <2>2
<1>10. \A k \in DOMAIN Tail(s) :
          Tail(s)[k] \in 1..head /\ Tail(s)[k] # Head(s) /\ (Tail(s)[k] \in Seeded => Tail(s)[k] \in seeder.known)
  BY <1>5, <1>6, <1>7, <1>8
<1> QED
  BY <1>5, <1>8, <1>9, <1>10 DEF s

\* A commit that is refused only shortens the list.
LEMMA SeederRefuses ==
    ASSUME TypeInv, SeederInv, NaturesSound, SeedCommitStep, seeder'.left = Tail(seeder.left),
           UNCHANGED tasks, seeder'.pc = "seed", seeder'.known = seeder.known,
           seeder'.inserted = seeder.inserted, seeder'.docs = seeder.docs
    PROVE  SeederInv' /\ NaturesSound'
<1>1. UNCHANGED head /\ Seeded' = Seeded /\ DocsOf' = DocsOf
  BY DEF SeedCommitStep, Seeded, DocsOf, TaskIds
<1>2. ListSound'
  BY <1>1, ListShortens DEF SeederInv, ListSound
<1>3. SharesSound'
  BY <1>1 DEF SeederInv, SharesSound
<1> QED
  BY <1>1, <1>2, <1>3 DEF SeederInv, NaturesSound, OneTaskPerCommit, TaskIds, Idle

LEMMA SeederInserts ==
    ASSUME TypeInv, SeederInv, NaturesSound, SeedCommitStep, NEW c, c = Head(seeder.left),
           tasks' = Append(tasks, NewTask(c)), c \notin seeder.known, OutcomeOf[c][AllowDocs] = "insert",
           seeder'.left = Tail(seeder.left), seeder'.pc = "seed", seeder'.known = seeder.known,
           seeder'.inserted = seeder.inserted + 1,
           seeder'.docs = IF NatureOf[c] = "docs" THEN seeder.docs + 1 ELSE seeder.docs
    PROVE  SeederInv' /\ NaturesSound'
<1>1. PICK n : n = Len(tasks) + 1
  OBVIOUS
<1>2. c \in 1..head /\ UNCHANGED head /\ c \in Commits
  BY SeedCommitTyped, ConstantsTyped DEF SeederInv, SeedCommitStep, TypeInv, LibraryTypes
<1>3. NewTask(c) \in TaskRows /\ NewTask(c).commit = c /\ NewTask(c).nature = NatureOf[c]
  BY <1>2, NewTaskTyped DEF TypeInv
<1>4. tasks \in Seq(TaskRows) /\ TaskIds = 1..Len(tasks) /\ Len(tasks) \in Nat
  BY TaskIdsAre DEF TypeInv, LibraryTypes
<1>5. tasks' \in Seq(TaskRows) /\ Len(tasks') = n /\ tasks'[n] = NewTask(c)
      /\ \A i \in 1..Len(tasks) : tasks'[i] = tasks[i]
  BY <1>1, <1>3, <1>4, AppendProperties
<1>6. TaskIds' = TaskIds \cup {n} /\ n \notin TaskIds
  BY <1>1, <1>4, <1>5, LenProperties DEF TaskIds
<1>7. Seeded' = Seeded \cup {c}
  BY <1>3, <1>4, <1>5, <1>6 DEF Seeded
<1>8. c \notin Seeded /\ \A k \in DOMAIN seeder'.left : seeder'.left[k] # c
  BY <1>2, ListShortens DEF SeederInv
<1>9. ListSound'
  BY <1>2, <1>7, <1>8, ListShortens DEF SeederInv, ListSound
<1>10. OneTaskPerCommit'
  BY <1>3, <1>4, <1>5, <1>6, <1>8 DEF SeederInv, OneTaskPerCommit, Seeded
<1>11. NaturesSound'
  BY <1>3, <1>4, <1>5, <1>6 DEF NaturesSound
<1>12. Len(tasks') - seeder'.inserted = Len(tasks) - seeder.inserted
  <2>1. seeder.inserted \in Nat /\ Len(tasks) \in Nat
    BY <1>4 DEF TypeInv, WriterTypes, Seeders
  <2>2. (Len(tasks) + 1) - (seeder.inserted + 1) = Len(tasks) - seeder.inserted
    BY <2>1
  <2> QED
    BY <2>2, <1>1, <1>5
<1>13. SharesSound'
  <2>1. /\ Cardinality(DocsOf) \in Nat /\ IsFiniteSet(DocsOf) /\ DocsShare \in Nat
        /\ seeder.docs \in Nat /\ seeder.inserted \in Nat
    BY DocsFinite, ConstantsTyped DEF TypeInv, WriterTypes, Seeders
  <2>2. CASE NatureOf[c] = "docs"
    <3>1. DocsOf' = DocsOf \cup {n} /\ n \notin DocsOf
      BY <2>2, <1>3, <1>4, <1>5, <1>6 DEF DocsOf
    <3>2. Cardinality(DocsOf') = Cardinality(DocsOf) + 1
      BY <2>1, <3>1, FS_AddElement
    <3>3. AllowDocs
      <4>1. OutcomeOf[c][AllowDocs] = SeedOutcome(History[c], AllowDocs) /\ NatureOf[c] = Nature(History[c])
        BY <1>2 DEF OutcomeOf, NatureOf, AllowDocs
      <4> QED
        BY <4>1, <2>2 DEF SeedOutcome
    <3>4. DocsShare > 0 => 100 * (seeder.docs + 1) <= DocsShare * (seeder.inserted + 1)
      BY <3>3, <2>1 DEF AllowDocs
    <3>5. /\ Cardinality(DocsOf') - seeder'.docs = Cardinality(DocsOf) - seeder.docs
          /\ Len(tasks') - seeder'.inserted = Len(tasks) - seeder.inserted
      <4>1. \A m, d \in Nat : (m + 1) - (d + 1) = m - d
        OBVIOUS
      <4>2. (Cardinality(DocsOf) + 1) - (seeder.docs + 1) = Cardinality(DocsOf) - seeder.docs
        BY <4>1, <2>1
      <4> QED
        BY <4>2, <3>2, <2>2, <1>12
    <3> QED
      BY <3>4, <3>5, <2>2 DEF SeederInv, SharesSound
  <2>3. CASE NatureOf[c] # "docs"
    <3>1. DocsOf' = DocsOf
      BY <2>3, <1>3, <1>4, <1>5, <1>6 DEF DocsOf
    <3>2. DocsShare * (seeder.inserted + 1) = DocsShare * seeder.inserted + DocsShare
      BY <2>1
    <3>3. DocsShare * seeder.inserted \in Nat
      BY <2>1
    <3>4. DocsShare > 0 => 100 * seeder.docs <= DocsShare * (seeder.inserted + 1)
      <4>1. DocsShare > 0 => 100 * seeder.docs <= DocsShare * seeder.inserted
        BY DEF SeederInv, SharesSound
      <4> DEFINE before == DocsShare * seeder.inserted
                 after == DocsShare * (seeder.inserted + 1)
                 docs == 100 * seeder.docs
      <4>2. after = before + DocsShare /\ before \in Nat /\ docs \in Nat
        BY <3>2, <3>3, <2>1
      <4>3. DocsShare > 0 => docs <= before
        BY <4>1
      <4> HIDE DEF before, after, docs
      <4>4. DocsShare > 0 => docs <= after
        BY <4>2, <4>3, <2>1
      <4> QED
        BY <4>4 DEF after, docs
    <3>5. /\ Cardinality(DocsOf') - seeder'.docs = Cardinality(DocsOf) - seeder.docs
          /\ Len(tasks') - seeder'.inserted = Len(tasks) - seeder.inserted
      BY <3>1, <2>3, <1>12
    <3> QED
      BY <3>4, <3>5, <2>3 DEF SeederInv, SharesSound
  <2> QED
    BY <2>2, <2>3
<1> QED
  BY <1>9, <1>10, <1>11, <1>13 DEF SeederInv, Idle

LEMMA SeederKept ==
    ASSUME TypeInv, IInv, SeedNext
    PROVE  SeederInv' /\ NaturesSound'
<1> USE DEF IInv
<1>1. CASE SeedStart
  BY <1>1, SeederStarts
<1>2. CASE SeedEnd \/ SeedFails
  BY <1>2, SeederRests DEF SeedEnd, SeedFails
<1>3. CASE SeedCommitStep
  <2>1. PICK c : c = Head(seeder.left)
    OBVIOUS
  <2> DEFINE inserts == c \notin seeder.known /\ OutcomeOf[c][AllowDocs] = "insert"
  <2>2. /\ seeder'.pc = "seed" /\ seeder'.known = seeder.known /\ seeder'.left = Tail(seeder.left)
        /\ seeder'.inserted = IF inserts THEN seeder.inserted + 1 ELSE seeder.inserted
        /\ seeder'.docs = IF inserts /\ NatureOf[c] = "docs" THEN seeder.docs + 1 ELSE seeder.docs
        /\ tasks' = IF inserts THEN Append(tasks, NewTask(c)) ELSE tasks
    BY <1>3, <2>1, SeedCommitTyped DEF SeederInv
  <2>3. CASE inserts
    BY <1>3, <2>1, <2>2, <2>3, SeederInserts
  <2>4. CASE ~inserts
    BY <1>3, <2>2, <2>4, SeederRefuses
  <2> QED
    BY <2>3, <2>4
<1> QED
  BY <1>1, <1>2, <1>3 DEF SeedNext

-----------------------------------------------------------------------------
(***************************************************************************)
(* The rows of a run.                                                      *)
(***************************************************************************)
LEMMA RowsFinite ==
    ASSUME NEW rows, NEW len \in Nat, DOMAIN rows = 1..len, NEW r
    PROVE  /\ IsFiniteSet(RowsIn(rows, r)) /\ IsFiniteSet(ScoredIn(rows, r)) /\ IsFiniteSet(PassedIn(rows, r))
           /\ Cardinality(RowsIn(rows, r)) \in Nat /\ Cardinality(ScoredIn(rows, r)) \in Nat
           /\ Cardinality(PassedIn(rows, r)) \in Nat
<1>1. IsFiniteSet(1..len)
  BY FS_Interval
<1>2. RowsIn(rows, r) \subseteq 1..len /\ ScoredIn(rows, r) \subseteq 1..len /\ PassedIn(rows, r) \subseteq 1..len
  BY DEF RowsIn, ScoredIn, PassedIn
<1> QED
  BY <1>1, <1>2, FS_Subset, FS_CardinalityType

\* The rows of a run, with one of its own appended, and with one of another run.
Extends(rows, next, k) ==
    /\ DOMAIN next = DOMAIN rows \cup {k} /\ k \notin DOMAIN rows
    /\ \A j \in DOMAIN rows : next[j] = rows[j]

LEMMA OtherRunsRow ==
    ASSUME NEW rows, NEW next, NEW k, Extends(rows, next, k), NEW r, next[k].run # r,
           NEW n, NEW left, NEW scored, NEW passed, Tallied(rows, r, n, left, scored, passed)
    PROVE  Tallied(next, r, n, left, scored, passed)
<1>1. RowsIn(next, r) = RowsIn(rows, r) /\ \A j \in RowsIn(rows, r) : next[j] = rows[j]
  BY DEF Extends, RowsIn
<1>2. ScoredIn(next, r) = ScoredIn(rows, r) /\ \A j \in ScoredIn(rows, r) : next[j] = rows[j]
  BY <1>1 DEF ScoredIn
<1>3. PassedIn(next, r) = PassedIn(rows, r) /\ UnjudgedIn(next, r) = UnjudgedIn(rows, r)
  BY <1>2 DEF PassedIn, UnjudgedIn
<1>4. {next[j].task : j \in RowsIn(next, r)} = {rows[j].task : j \in RowsIn(rows, r)}
  BY <1>1
<1> QED
  BY <1>1, <1>2, <1>3, <1>4 DEF Tallied

LEMMA OwnRow ==
    ASSUME NEW rows, NEW len \in Nat, DOMAIN rows = 1..len, NEW next, NEW k, Extends(rows, next, k),
           NEW r, next[k].run = r, next[k].scored \in BOOLEAN, next[k].passed \in BOOLEAN,
           NEW n \in Nat, NEW left, left \subseteq 1..n, next[k].task \in left,
           NEW scored \in Nat, NEW passed \in Nat, Tallied(rows, r, n, left, scored, passed)
    PROVE  Tallied(next, r, n, left \ {next[k].task},
                   scored + (IF next[k].scored THEN 1 ELSE 0),
                   passed + (IF next[k].scored /\ next[k].passed THEN 1 ELSE 0))
<1> DEFINE i == next[k].task
<1>1. RowsIn(next, r) = RowsIn(rows, r) \cup {k} /\ k \notin RowsIn(rows, r)
  BY DEF Extends, RowsIn
<1>2. \A j \in RowsIn(rows, r) : next[j] = rows[j]
  BY DEF Extends, RowsIn
<1>3. /\ k \notin ScoredIn(rows, r) /\ \A j \in ScoredIn(rows, r) : next[j] = rows[j]
      /\ next[k].scored => ScoredIn(next, r) = ScoredIn(rows, r) \cup {k}
      /\ ~next[k].scored => ScoredIn(next, r) = ScoredIn(rows, r)
  <2>1. k \notin ScoredIn(rows, r) /\ \A j \in ScoredIn(rows, r) : next[j] = rows[j]
    BY <1>1, <1>2 DEF ScoredIn
  <2>2. ASSUME next[k].scored PROVE ScoredIn(next, r) = ScoredIn(rows, r) \cup {k}
    BY <1>1, <1>2, <2>2 DEF ScoredIn
  <2>3. ASSUME ~next[k].scored PROVE ScoredIn(next, r) = ScoredIn(rows, r)
    BY <1>1, <1>2, <2>3 DEF ScoredIn
  <2> QED
    BY <2>1, <2>2, <2>3
<1>4. /\ k \notin PassedIn(rows, r)
      /\ next[k].scored /\ next[k].passed => PassedIn(next, r) = PassedIn(rows, r) \cup {k}
      /\ ~(next[k].scored /\ next[k].passed) => PassedIn(next, r) = PassedIn(rows, r)
  <2>1. k \notin PassedIn(rows, r)
    BY <1>3 DEF PassedIn
  <2>2. ASSUME next[k].scored, next[k].passed PROVE PassedIn(next, r) = PassedIn(rows, r) \cup {k}
    <3>1. ScoredIn(next, r) = ScoredIn(rows, r) \cup {k}
      BY <1>3, <2>2
    <3>2. \A j \in ScoredIn(rows, r) : next[j] = rows[j]
      BY <1>3
    <3> QED
      BY <3>1, <3>2, <2>2 DEF PassedIn
  <2>3. ASSUME ~(next[k].scored /\ next[k].passed) PROVE PassedIn(next, r) = PassedIn(rows, r)
    <3>1. \A j \in ScoredIn(rows, r) : next[j] = rows[j]
      BY <1>3
    <3>2. CASE next[k].scored
      <4>1. ScoredIn(next, r) = ScoredIn(rows, r) \cup {k} /\ ~next[k].passed
        BY <1>3, <2>3, <3>2
      <4> QED
        BY <3>1, <4>1 DEF PassedIn
    <3>3. CASE ~next[k].scored
      <4>1. ScoredIn(next, r) = ScoredIn(rows, r)
        BY <1>3, <3>3
      <4> QED
        BY <3>1, <4>1 DEF PassedIn
    <3> QED
      BY <3>2, <3>3
  <2> QED
    BY <2>1, <2>2, <2>3
<1>5. UnjudgedIn(next, r) => UnjudgedIn(rows, r)
  BY <1>1, <1>2 DEF ScoredIn, UnjudgedIn
<1>6. {next[j].task : j \in RowsIn(next, r)} = (1..n) \ (left \ {i})
  <2>1. {next[j].task : j \in RowsIn(next, r)} = {rows[j].task : j \in RowsIn(rows, r)} \cup {i}
    BY <1>1, <1>2
  <2> HIDE DEF i
  <2>2. {rows[j].task : j \in RowsIn(rows, r)} = (1..n) \ left
    BY DEF Tallied
  <2>3. i \in left /\ i \in 1..n
    BY DEF i
  <2> QED
    BY <2>1, <2>2, <2>3
<1>7. Cardinality(RowsIn(next, r)) + Cardinality(left \ {i}) = n
  <2>1. IsFiniteSet(left)
    <3>1. IsFiniteSet(1..n)
      BY FS_Interval
    <3> QED
      BY <3>1, FS_Subset
  <2>5. i \in left
    OBVIOUS
  <2> HIDE DEF i
  <2>2. Cardinality(left) \in Nat
    BY <2>1, FS_CardinalityType
  <2>6. Cardinality(left \ {i}) = Cardinality(left) - 1
    <3>1. Cardinality(left \ {i}) = IF i \in left THEN Cardinality(left) - 1 ELSE Cardinality(left)
      BY <2>1, FS_RemoveElement, Zenon
    <3> QED
      BY <3>1, <2>5
  <2>7. IsFiniteSet(RowsIn(rows, r)) /\ Cardinality(RowsIn(rows, r)) \in Nat
    BY RowsFinite
  <2>8. Cardinality(RowsIn(rows, r) \cup {k}) = Cardinality(RowsIn(rows, r)) + 1
    BY <1>1, <2>7, FS_AddElement
  <2>3. Cardinality(RowsIn(next, r)) = Cardinality(RowsIn(rows, r)) + 1 /\ Cardinality(RowsIn(rows, r)) \in Nat
    BY <1>1, <2>7, <2>8
  <2>4. Cardinality(RowsIn(rows, r)) + Cardinality(left) = n
    BY DEF Tallied
  <2> QED
    BY <2>2, <2>3, <2>4, <2>6
<1>8. scored + (IF next[k].scored THEN 1 ELSE 0) = Cardinality(ScoredIn(next, r))
  <2>1. scored = Cardinality(ScoredIn(rows, r)) /\ IsFiniteSet(ScoredIn(rows, r))
    BY RowsFinite DEF Tallied
  <2>2. CASE next[k].scored
    BY <2>1, <2>2, <1>3, FS_AddElement
  <2>3. CASE ~next[k].scored
    BY <2>1, <2>3, <1>3
  <2> QED
    BY <2>2, <2>3
<1>9. ASSUME UnjudgedIn(next, r)
      PROVE  passed + (IF next[k].scored /\ next[k].passed THEN 1 ELSE 0) = Cardinality(PassedIn(next, r))
  <2>1. passed = Cardinality(PassedIn(rows, r)) /\ IsFiniteSet(PassedIn(rows, r))
    BY <1>5, <1>9, RowsFinite DEF Tallied
  <2>2. CASE next[k].scored /\ next[k].passed
    BY <2>1, <2>2, <1>4, FS_AddElement
  <2>3. CASE ~(next[k].scored /\ next[k].passed)
    BY <2>1, <2>3, <1>4
  <2> QED
    BY <2>2, <2>3
<1> HIDE DEF i
<1>10. Tallied(next, r, n, left \ {i}, scored + (IF next[k].scored THEN 1 ELSE 0),
               passed + (IF next[k].scored /\ next[k].passed THEN 1 ELSE 0))
  BY <1>6, <1>7, <1>8, <1>9 DEF Tallied
<1> QED
  BY <1>10 DEF i

\* A row the judge changes is judged, and stays in its place.
LEMMA JudgedRow ==
    ASSUME NEW rows, NEW next, DOMAIN next = DOMAIN rows, NEW k \in DOMAIN rows,
           \A j \in DOMAIN rows \ {k} : next[j] = rows[j],
           next[k].run = rows[k].run, next[k].task = rows[k].task, next[k].scored = rows[k].scored,
           next[k].verdict # Unjudged,
           NEW r, NEW n, NEW left, NEW scored, NEW passed, Tallied(rows, r, n, left, scored, passed)
    PROVE  Tallied(next, r, n, left, scored, passed)
<1>1. RowsIn(next, r) = RowsIn(rows, r) /\ \A j \in RowsIn(rows, r) : next[j].task = rows[j].task
  BY DEF RowsIn
<1>2. ScoredIn(next, r) = ScoredIn(rows, r)
  BY <1>1 DEF RowsIn, ScoredIn
<1>3. {next[j].task : j \in RowsIn(next, r)} = {rows[j].task : j \in RowsIn(rows, r)}
  BY <1>1
<1>4. ASSUME UnjudgedIn(next, r) PROVE UnjudgedIn(rows, r) /\ PassedIn(next, r) = PassedIn(rows, r)
  <2>1. k \notin ScoredIn(rows, r)
    BY <1>2, <1>4 DEF UnjudgedIn
  <2>2. \A j \in ScoredIn(rows, r) : next[j] = rows[j]
    BY <2>1 DEF ScoredIn, RowsIn
  <2> QED
    BY <2>2, <1>2, <1>4 DEF UnjudgedIn, PassedIn
<1> QED
  BY <1>1, <1>2, <1>3, <1>4 DEF Tallied

LEMMA NoRows ==
    ASSUME NEW rows, NEW r, RowsIn(rows, r) = {}, NEW n \in Nat
    PROVE  Tallied(rows, r, n, 1..n, 0, 0)
<1>1. ScoredIn(rows, r) = {} /\ PassedIn(rows, r) = {}
  BY DEF ScoredIn, PassedIn
<1>2. Cardinality({}) = 0 /\ Cardinality(1..n) = n
  BY FS_EmptySet, FS_Interval
<1> QED
  BY <1>1, <1>2 DEF Tallied

-----------------------------------------------------------------------------
(***************************************************************************)
(* The runs.                                                               *)
(***************************************************************************)
TasksGrow == TaskIds \subseteq TaskIds' /\ Len(tasks) <= Len(tasks')

LEMMA TasksOnlyGrow ==
    ASSUME TypeInv, TypeInv', TasksKept
    PROVE  TasksGrow
<1>1. TaskIds = 1..Len(tasks) /\ Len(tasks) \in Nat
  BY TaskIdsAre DEF TypeInv
<1>2. TaskIds' = 1..Len(tasks') /\ Len(tasks') \in Nat
  BY LenProperties DEF TypeInv, LibraryTypes, TaskIds
<1>3. TaskIds \subseteq TaskIds'
  BY DEF TasksKept
<1> QED
  BY <1>1, <1>2, <1>3 DEF TasksGrow

\* Nothing of a run is written while the library grows.
LEMMA RunStays ==
    ASSUME TypeInv, TypeInv', RunInv, TasksGrow, UNCHANGED <<runs, results, evaluator>>
    PROVE  RunInv'
<1>1. SummariesSound'
  BY DEF RunInv, SummariesSound
<1>2. EvaluatorSound'
  <2>1. ASSUME evaluator.pc = "score" PROVE runs[Len(runs)].tasks <= Len(tasks')
    <3>1. Len(tasks) \in Nat /\ Len(tasks') \in Nat
      BY LenProperties DEF TypeInv, LibraryTypes
    <3>2. runs[Len(runs)].tasks \in Nat /\ runs[Len(runs)].tasks <= Len(tasks)
      BY <2>1, LenProperties DEF RunInv, EvaluatorSound, TypeInv, ScoringTypes, Evaluators
    <3> QED
      BY <3>1, <3>2 DEF TasksGrow
  <2> QED
    BY <2>1 DEF RunInv, EvaluatorSound
<1>3. ResultsSound'
  BY DEF RunInv, ResultsSound, TasksGrow
<1> QED
  BY <1>1, <1>2, <1>3 DEF RunInv

LEMMA RunStartKept ==
    ASSUME TypeInv, RunInv, RunStart
    PROVE  RunInv'
<1>1. PICK new : new = Len(runs) + 1
  OBVIOUS
<1>2. /\ evaluator'.pc = "score" /\ evaluator'.rows = tasks
      /\ evaluator'.left = 1..Len(tasks) /\ evaluator'.scored = 0 /\ evaluator'.passed = 0
      /\ Len(runs') = new /\ Len(runs) \in Nat /\ DOMAIN runs = 1..Len(runs) /\ DOMAIN runs' = 1..new
      /\ \A r \in DOMAIN runs : runs'[r] = runs[r]
      /\ ~runs'[new].summary /\ runs'[new].tasks = Len(tasks)
  BY <1>1, RunStarts
<1>3. UNCHANGED <<tasks, results>> /\ Len(tasks) \in Nat
  BY TaskIdsAre DEF RunStart, TypeInv
<1>4. DOMAIN runs' = DOMAIN runs \cup {new} /\ new \notin DOMAIN runs /\ new \in DOMAIN runs'
  BY <1>1, <1>2
<1>5. SummariesSound'
  BY <1>2, <1>3, <1>4 DEF RunInv, SummariesSound
<1>6. Tallied(results, new, Len(tasks), 1..Len(tasks), 0, 0)
  <2>1. RowsIn(results, new) = {}
    BY <1>4 DEF RunInv, ResultsSound, RowsIn
  <2> QED
    BY <2>1, <1>3, NoRows
<1>7. EvaluatorSound'
  BY <1>2, <1>3, <1>4, <1>6 DEF EvaluatorSound
<1>8. ResultsSound'
  BY <1>3, <1>4 DEF RunInv, ResultsSound, TaskIds
<1> QED
  BY <1>5, <1>7, <1>8 DEF RunInv

\* The run under way gets the row of a task it had left.
LEMMA RowKept ==
    ASSUME TypeInv, RunInv, evaluator.pc = "score", NEW i \in evaluator.left, NEW new \in ResultRows,
           NEW scored \in BOOLEAN, NewRow(i, new, scored), RowAppended(new), UNCHANGED <<tasks, runs>>,
           evaluator'.pc = "score", evaluator'.rows = evaluator.rows, evaluator'.left = evaluator.left \ {i},
           evaluator'.scored = evaluator.scored + (IF scored THEN 1 ELSE 0),
           evaluator'.passed = evaluator.passed + (IF scored /\ new.passed THEN 1 ELSE 0)
    PROVE  RunInv'
<1>1. PICK k : k = Len(results) + 1
  OBVIOUS
<1>2. PICK r : r = Len(runs)
  OBVIOUS
<1>3. /\ Len(results) \in Nat /\ DOMAIN results = 1..Len(results) /\ results'[k] = new
      /\ Extends(results, results', k)
  BY <1>1 DEF RowAppended, Extends
<1>4. /\ new.run = r /\ new.task = i /\ new.scored = scored /\ new.passed \in BOOLEAN
  BY <1>2 DEF NewRow, ResultRows
<1>5. /\ r \in DOMAIN runs /\ ~runs[r].summary /\ runs[r].tasks = Len(evaluator.rows)
      /\ runs[r].tasks <= Len(tasks) /\ evaluator.left \subseteq 1..runs[r].tasks
      /\ Tallied(results, r, runs[r].tasks, evaluator.left, evaluator.scored, evaluator.passed)
  BY <1>2 DEF RunInv, EvaluatorSound
<1>6. runs[r].tasks \in Nat /\ evaluator.scored \in Nat /\ evaluator.passed \in Nat
  BY <1>5, LenProperties DEF TypeInv, ScoringTypes, Evaluators
<1>7. Tallied(results', r, runs[r].tasks, evaluator'.left, evaluator'.scored, evaluator'.passed)
  <2>1. PICK n \in Nat : n = runs[r].tasks
    BY <1>6
  <2>2. PICK left : left = evaluator.left
    OBVIOUS
  <2>3. PICK len \in Nat : len = Len(results)
    BY <1>3
  <2>4. PICK rows : rows = results
    OBVIOUS
  <2>5. PICK next : next = results'
    OBVIOUS
  <2>6. PICK s \in Nat : s = evaluator.scored
    BY <1>6
  <2>7. PICK p \in Nat : p = evaluator.passed
    BY <1>6
  <2>8. DOMAIN rows = 1..len /\ Extends(rows, next, k)
    BY <2>3, <2>4, <2>5, <1>3
  <2>9. next[k].run = r /\ next[k].scored = scored /\ next[k].passed = new.passed /\ next[k].task = i
    BY <2>5, <1>3, <1>4
  <2>10. left \subseteq 1..n /\ i \in left /\ Tallied(rows, r, n, left, s, p)
    BY <2>1, <2>2, <2>4, <2>6, <2>7, <1>5
  <2>11. Tallied(next, r, n, left \ {next[k].task}, s + (IF next[k].scored THEN 1 ELSE 0),
                 p + (IF next[k].scored /\ next[k].passed THEN 1 ELSE 0))
    BY <2>8, <2>9, <2>10, <1>4, OwnRow
  <2> QED
    BY <2>1, <2>2, <2>5, <2>6, <2>7, <2>9, <2>11
<1>8. EvaluatorSound'
  BY <1>2, <1>5, <1>7 DEF EvaluatorSound
<1>9. SummariesSound'
  <2>1. \A q \in DOMAIN runs : runs[q].summary =>
            Tallied(results', q, runs[q].tasks, {}, runs[q].total, runs[q].passed)
    BY <1>3, <1>4, <1>5, OtherRunsRow DEF RunInv, SummariesSound
  <2> QED
    BY <2>1 DEF SummariesSound
<1>10. ResultsSound'
  <2>1. i \in TaskIds
    <3>1. TaskIds = 1..Len(tasks) /\ Len(tasks) \in Nat /\ i \in 1..runs[r].tasks
      BY <1>5, TaskIdsAre DEF TypeInv
    <3> QED
      BY <3>1, <1>5, <1>6
  <2>2. DOMAIN results' = DOMAIN results \cup {k} /\ \A j \in DOMAIN results : results'[j] = results[j]
    BY <1>3 DEF Extends
  <2> QED
    BY <2>1, <2>2, <1>3, <1>4, <1>5 DEF RunInv, ResultsSound, TaskIds
<1> QED
  BY <1>8, <1>9, <1>10 DEF RunInv

LEMMA RunFinishKept ==
    ASSUME TypeInv, RunInv, RunFinish
    PROVE  RunInv'
<1>1. PICK r : r = Len(runs)
  OBVIOUS
<1>2. /\ evaluator'.pc = Idle /\ evaluator.left = {} /\ r \in DOMAIN runs /\ DOMAIN runs' = DOMAIN runs
      /\ \A q \in DOMAIN runs \ {r} : runs'[q] = runs[q]
      /\ runs'[r].total = evaluator.scored
      /\ runs'[r].passed = evaluator.passed /\ runs'[r].tasks = runs[r].tasks
  BY <1>1, RunFinishes DEF RunInv, EvaluatorIdle
<1>3. UNCHANGED <<tasks, results>> /\ evaluator.pc = "score"
  BY DEF RunFinish
<1>4. Tallied(results, r, runs[r].tasks, {}, evaluator.scored, evaluator.passed)
  BY <1>1, <1>2, <1>3 DEF RunInv, EvaluatorSound
<1>5. SummariesSound'
  <2>1. \A q \in DOMAIN runs' : runs'[q].summary =>
            Tallied(results, q, runs'[q].tasks, {}, runs'[q].total, runs'[q].passed)
    <3> SUFFICES ASSUME NEW q \in DOMAIN runs', runs'[q].summary
                 PROVE  Tallied(results, q, runs'[q].tasks, {}, runs'[q].total, runs'[q].passed)
      OBVIOUS
    <3>1. CASE q = r
      BY <3>1, <1>2, <1>4
    <3>2. CASE q # r
      BY <3>2, <1>2 DEF RunInv, SummariesSound
    <3> QED
      BY <3>1, <3>2
  <2> QED
    BY <2>1, <1>3 DEF SummariesSound
<1>6. EvaluatorSound'
  BY <1>2 DEF EvaluatorSound, Idle
<1>7. ResultsSound'
  BY <1>2, <1>3 DEF RunInv, ResultsSound, TaskIds
<1> QED
  BY <1>5, <1>6, <1>7 DEF RunInv

LEMMA GradeApplyKept ==
    ASSUME TypeInv, RunInv, GradersInv, NEW g \in Graders, GradeApply(g)
    PROVE  RunInv' /\ GradersInv'
<1>1. PICK k : k = Min(grader[g].left)
  OBVIOUS
<1>2. /\ k \in DOMAIN results /\ DOMAIN results' = DOMAIN results
      /\ \A j \in DOMAIN results \ {k} : results'[j] = results[j]
      /\ results'[k].verdict # Unjudged
      /\ results'[k].run = results[k].run /\ results'[k].task = results[k].task
      /\ results'[k].scored = results[k].scored
      /\ OthersGrade(g) /\ grader'[g].left = grader[g].left \ {k} /\ grader'[g].shown = Unjudged
  BY <1>1, GradeApplies
<1>3. UNCHANGED <<tasks, runs, evaluator>>
  BY DEF GradeApply
<1>4. ASSUME NEW r, NEW n, NEW left, NEW scored, NEW passed, Tallied(results, r, n, left, scored, passed)
      PROVE  Tallied(results', r, n, left, scored, passed)
  <2>1. PICK rows : rows = results
    OBVIOUS
  <2>2. PICK next : next = results'
    OBVIOUS
  <2>3. /\ DOMAIN next = DOMAIN rows /\ k \in DOMAIN rows /\ \A j \in DOMAIN rows \ {k} : next[j] = rows[j]
        /\ next[k].run = rows[k].run /\ next[k].task = rows[k].task /\ next[k].scored = rows[k].scored
        /\ next[k].verdict # Unjudged
    BY <1>2, <2>1, <2>2
  <2>4. Tallied(rows, r, n, left, scored, passed)
    BY <1>4, <2>1
  <2>5. Tallied(next, r, n, left, scored, passed)
    BY <2>3, <2>4, JudgedRow
  <2> QED
    BY <2>5, <2>2
<1>5. SummariesSound'
  <2>1. \A r \in DOMAIN runs : runs[r].summary =>
            Tallied(results', r, runs[r].tasks, {}, runs[r].total, runs[r].passed)
    BY <1>4 DEF RunInv, SummariesSound
  <2> QED
    BY <2>1, <1>3 DEF SummariesSound
<1>6. EvaluatorSound'
  <2>1. evaluator.pc = "score" =>
            Tallied(results', Len(runs), runs[Len(runs)].tasks, evaluator.left, evaluator.scored, evaluator.passed)
    BY <1>4 DEF RunInv, EvaluatorSound
  <2> QED
    BY <2>1, <1>3 DEF RunInv, EvaluatorSound
<1>7. ResultsSound'
  BY <1>2, <1>3 DEF RunInv, ResultsSound, TaskIds
<1>8. GradersInv'
  <2>1. GraderSound(g)'
    BY <1>2 DEF GradersInv, GraderSound
  <2>2. ASSUME NEW h \in Graders \ {g} PROVE GraderSound(h)'
    <3>1. grader'[h] = grader[h] /\ ~OneGrader
      BY <1>2 DEF OthersGrade, OneGrader
    <3> QED
      BY <3>1, <1>2 DEF GradersInv, GraderSound
  <2> QED
    BY <2>1, <2>2 DEF GradersInv
<1> QED
  BY <1>5, <1>6, <1>7, <1>8 DEF RunInv

\* No grader is at work: what they have left is still to be graded.
LEMMA GraderStays ==
    ASSUME GradersInv, UNCHANGED grader, DOMAIN results \subseteq DOMAIN results',
           \A k \in DOMAIN results : results'[k] = results[k]
    PROVE  GradersInv'
BY DEF GradersInv, GraderSound

LEMMA RunKept ==
    ASSUME TypeInv, TypeInv', IInv, TasksKept, ScoringNext
    PROVE  RunInv' /\ GradersInv'
<1> USE DEF IInv
<1>1. TasksGrow
  BY TasksOnlyGrow
<1>2. ASSUME UNCHANGED scoring PROVE RunInv' /\ GradersInv'
  BY <1>1, <1>2, RunStays, GraderStays
<1>3. CASE RunStart
  BY <1>3, RunStartKept, GraderStays DEF RunStart
<1>4. CASE RunScore
  <2>1. PICK i \in evaluator.left, new \in ResultRows :
              /\ NewRow(i, new, TRUE) /\ RowAppended(new)
              /\ evaluator'.pc = "score" /\ evaluator'.rows = evaluator.rows
              /\ evaluator'.left = evaluator.left \ {i}
              /\ evaluator'.scored = evaluator.scored + 1
              /\ evaluator'.passed = evaluator.passed + (IF new.passed THEN 1 ELSE 0)
    BY <1>4, RunScores DEF RunInv
  <2>2. evaluator.pc = "score" /\ UNCHANGED <<tasks, runs, grader>>
    BY <1>4 DEF RunScore
  <2>3. RunInv'
    BY <2>1, <2>2, RowKept
  <2>4. GradersInv'
    BY <2>1, <2>2, GraderStays DEF RowAppended
  <2> QED
    BY <2>3, <2>4
<1>5. CASE RunSkip
  <2>1. PICK i \in evaluator.left, new \in ResultRows :
              /\ NewRow(i, new, FALSE) /\ RowAppended(new)
              /\ evaluator'.pc = "score" /\ evaluator'.rows = evaluator.rows
              /\ evaluator'.left = evaluator.left \ {i}
              /\ evaluator'.scored = evaluator.scored /\ evaluator'.passed = evaluator.passed
    BY <1>5, RunSkips DEF RunInv
  <2>2. evaluator.pc = "score" /\ UNCHANGED <<tasks, runs, grader>>
    BY <1>5 DEF RunSkip
  <2>3. evaluator.scored + 0 = evaluator.scored /\ evaluator.passed + 0 = evaluator.passed
    BY DEF TypeInv, ScoringTypes, Evaluators
  <2>4. RunInv'
    BY <2>1, <2>2, <2>3, RowKept
  <2>5. GradersInv'
    BY <2>1, <2>2, GraderStays DEF RowAppended
  <2> QED
    BY <2>4, <2>5
<1>6. CASE RunFinish
  BY <1>6, RunFinishKept, GraderStays DEF RunFinish
<1>7. CASE RunFails
  <2>1. EvaluatorSound' /\ UNCHANGED <<tasks, runs, results, grader>>
    BY <1>7 DEF RunFails, EvaluatorSound, EvaluatorIdle, Idle
  <2>2. SummariesSound' /\ ResultsSound'
    BY <2>1 DEF RunInv, SummariesSound, ResultsSound, TaskIds
  <2> QED
    BY <2>1, <2>2, GraderStays DEF RunInv
<1>8. ASSUME NEW g \in Graders, GradeApply(g) PROVE RunInv' /\ GradersInv'
  BY <1>8, GradeApplyKept
<1>9. ASSUME NEW g \in Graders, GradeNext(g), ~GradeApply(g) PROVE RunInv' /\ GradersInv'
  <2>1. /\ UNCHANGED <<library, runs, results, evaluator>> /\ OthersGrade(g)
        /\ \A k \in grader'[g].left : k \in DOMAIN results /\ (OneGrader => Ungraded(results[k]))
        /\ grader'[g].shown # Unjudged => grader'[g].left # {}
    BY <1>9, GraderMoves DEF RunInv
  <2>2. GradersInv'
    BY <2>1 DEF GradersInv, GraderSound, OthersGrade
  <2> QED
    BY <2>1, <2>2, <1>1, RunStays
<1> QED
  BY <1>2, <1>3, <1>4, <1>5, <1>6, <1>7, <1>8, <1>9 DEF ScoringNext, RunNext

-----------------------------------------------------------------------------
(***************************************************************************)
(* The invariant: kept by every command, hence by every step of bootstrap. *)
(***************************************************************************)
\* Which process each command is a step of.
LEMMA OneMoves ==
    ASSUME ScoringNext
    PROVE  /\ (\E s \in Submitters : SubmitNext(s)) \/ UNCHANGED submitter
           /\ RefreshNext \/ UNCHANGED refresher
           /\ SeedNext \/ UNCHANGED seeder
           /\ (\E p \in Pollers : PollNext(p)) \/ UNCHANGED poller
<1>1. CASE RunNext \/ \E g \in Graders : GradeNext(g)
  BY <1>1, ScoringFrame
<1>2. CASE LibraryNext
  <2>1. CASE NewCommit \/ BatchEnds
    BY <2>1 DEF NewCommit, BatchEnds
  <2>2. CASE SeedNext
    BY <2>2 DEF SeedNext, SeedStart, SeedCommitStep, SeedEnd, SeedFails
  <2>3. CASE \E s \in Submitters : SubmitNext(s)
    BY <2>3 DEF SubmitNext, SubmitStart, SubmitBatch, SubmitAnswerLost, SubmitMark, SubmitEnd, SubmitFails
  <2>4. CASE \E p \in Pollers : PollNext(p)
    BY <2>4 DEF PollNext, PollStart, PollGet, PollApply, PollNextBatch, PollEnd, PollFails
  <2>5. CASE RefreshNext
    BY <2>5 DEF RefreshNext, RefreshStart, RefreshRequest, RefreshHoldout, RefreshSkips, RefreshEnd,
         RefreshFails
  <2> QED
    BY <1>2, <2>1, <2>2, <2>3, <2>4, <2>5 DEF LibraryNext
<1> QED
  BY <1>1, <1>2 DEF ScoringNext

LEMMA InvKept ==
    ASSUME TypeInv, IInv, ScoringNext
    PROVE  TypeInv' /\ IInv'
<1>1. TypeInv'
  BY StepTyped
<1>2. /\ LibraryInv' /\ BatchesKept /\ TasksKept /\ HeadKept
      /\ (\E s \in Submitters : SubmitMark(s)) \/ NoneMarked
  BY StepKeepsLibrary
<1> USE DEF IInv
<1>3. SubmittersInv'
  <2>1. CASE ~\E s \in Submitters : SubmitNext(s)
    <3>1. NoneMarked
      BY <2>1, <1>2 DEF SubmitNext
    <3>2. UNCHANGED submitter
      BY <2>1, OneMoves
    <3> QED
      BY <3>1, <3>2, <1>2, SubmitterStays DEF SubmittersInv
  <2>2. ASSUME NEW s \in Submitters, SubmitNext(s) PROVE SubmittersInv'
    <3>1. SubmitterSound(s)'
      BY <2>2, <1>2, SubmitterKept
    <3>2. ASSUME NEW q \in Submitters \ {s} PROVE SubmitterSound(q)'
      <4>1. submitter'[q] = submitter[q]
        BY <2>2 DEF SubmitNext, SubmitStart, SubmitBatch, SubmitAnswerLost, SubmitMark, SubmitEnd, SubmitFails,
             TypeInv, WriterTypes
      <4>2. ~OneSubmitter
        BY DEF OneSubmitter
      <4> QED
        BY <4>1, <4>2, <1>2, SubmitterStays DEF SubmittersInv
    <3> QED
      BY <3>1, <3>2 DEF SubmittersInv
  <2> QED
    BY <2>1, <2>2
<1>4. PollersInv'
  <2>1. CASE UNCHANGED poller
    BY <2>1, <1>2, PollerStays DEF PollersInv
  <2>2. ASSUME NEW p \in Pollers, PollNext(p) PROVE PollersInv'
    <3>1. PollerSound(p)'
      BY <2>2, <1>2, PollerKept
    <3>2. \A q \in Pollers \ {p} : poller'[q] = poller[q]
      BY <2>2 DEF PollNext, PollStart, PollGet, PollApply, PollNextBatch, PollEnd, PollFails,
           TypeInv, WriterTypes
    <3>3. ASSUME NEW q \in Pollers \ {p} PROVE PollerSound(q)'
      BY <3>2, <1>2, PollerStays DEF PollersInv
    <3> QED
      BY <3>1, <3>3 DEF PollersInv
  <2> QED
    BY <2>1, <2>2, OneMoves
<1>5. RefresherInv'
  <2>1. CASE RefreshNext
    BY <2>1, RefresherKept
  <2>2. CASE UNCHANGED refresher
    BY <2>2, <1>2, RefresherStays
  <2> QED
    BY <2>1, <2>2, OneMoves
<1>6. SeederInv' /\ NaturesSound'
  <2>1. CASE SeedNext
    BY <2>1, SeederKept
  <2>2. CASE ~SeedNext
    <3>1. SameTasks
      BY <2>2, OthersAddNothing DEF SeedNext
    <3> QED
      BY <2>2, <3>1, <1>2, OneMoves, SeederStays
  <2> QED
    BY <2>1, <2>2
<1>7. RunInv' /\ GradersInv'
  BY <1>1, <1>2, RunKept
<1> QED
  BY <1>1, <1>2, <1>3, <1>4, <1>5, <1>6, <1>7

\* A step of bootstrap is a step of the commands, or none of theirs.
LEMMA BootStepsAreSteps ==
    ASSUME Next
    PROVE  ScoringNext \/ UNCHANGED scoringVars
<1> USE DEF ScoringNext, LibraryNext, SeedNext, SubmitNext, PollNext, RunNext
<1>1. ASSUME BootNext PROVE ScoringNext \/ UNCHANGED scoringVars
  <2>1. CASE BootSeeds \/ BootSeeded
    BY <2>1 DEF BootSeeds, BootSeeded
  <2>2. CASE BootSubmits \/ BootSubmitted \/ BootNothingToSubmit
    BY <2>2, BootstrapAssumption DEF BootSubmits, BootSubmitted, BootNothingToSubmit
  <2>3. CASE BootPolls \/ BootPolled \/ BootNothingToPoll
    BY <2>3, BootstrapAssumption DEF BootPolls, BootPolled, BootNothingToPoll
  <2>4. CASE BootRuns \/ BootRan \/ BootEnds
    BY <2>4 DEF BootRuns, BootRan, BootEnds
  <2>5. CASE BootFails
    BY <2>5, BootstrapAssumption DEF BootFails
  <2> QED
    BY <1>1, <2>1, <2>2, <2>3, <2>4, <2>5 DEF BootNext
<1>2. ASSUME ByHand PROVE ScoringNext \/ UNCHANGED scoringVars
  BY <1>2 DEF ByHand
<1> QED
  BY <1>1, <1>2 DEF Next

LEMMA InvStays ==
    ASSUME TypeInv, IInv, UNCHANGED scoringVars
    PROVE  TypeInv' /\ IInv'
<1>1. TypeInv'
  BY DEF TypeInv, LibraryTypes, WriterTypes, ScoringTypes, BoundTypes
<1>2. LibraryInv' /\ BatchesKept /\ TasksKept /\ NoneMarked /\ HeadKept
  BY LibraryFrame DEF IInv
<1>3. SubmittersInv' /\ RefresherInv'
  BY <1>2, SubmitterStays, RefresherStays DEF IInv, SubmittersInv
<1>4. PollersInv'
  BY <1>2, PollerStays DEF IInv, PollersInv
<1>5. SeederInv' /\ NaturesSound'
  <2>1. SameTasks
    BY DEF SameTasks, TaskIds
  <2> QED
    BY <2>1, <1>2, SeederStays DEF IInv
<1>6. RunInv' /\ GradersInv'
  <2>1. TasksGrow
    BY <1>1, <1>2, TasksOnlyGrow
  <2> QED
    BY <2>1, <1>1, RunStays, GraderStays DEF IInv
<1> QED
  BY <1>1, <1>2, <1>3, <1>4, <1>5, <1>6 DEF IInv

LEMMA BootKept ==
    ASSUME BootInv, Next
    PROVE  BootInv'
<1>1. Backends \in Nat /\ Backends > 0
  BY BootstrapAssumption
<1>2. CASE ByHand
  BY <1>2 DEF ByHand, BootInv
<1>3. CASE BootNext
  BY <1>1, <1>3 DEF BootInv, BootSteps, BootNext, BootSeeds, BootSeeded, BootSubmits, BootSubmitted,
       BootNothingToSubmit, BootPolls, BootPolled, BootNothingToPoll, BootRuns, BootRan, BootEnds,
       BootFails, BootAt, BootStops
<1> QED
  BY <1>2, <1>3 DEF Next

LEMMA InitSound ==
    ASSUME Init
    PROVE  IInv /\ BootInv
<1> USE DEF Init, ScoringInit, LibraryInit
<1>1. DOMAIN tasks = {} /\ DOMAIN batches = {} /\ DOMAIN runs = {} /\ DOMAIN results = {}
      /\ Len(tasks) = 0 /\ TaskIds = {}
  BY NothingRead DEF TaskIds
<1>2. LibraryInv /\ NaturesSound
  BY <1>1 DEF LibraryInv, NaturesSound
<1>3. SubmittersInv /\ RefresherInv
  BY NothingRead DEF SubmittersInv, SubmitterSound, RefresherInv, SubmitterIdle, RefresherIdle, Idle
<1>4. PollersInv
  BY NothingRead DEF PollersInv, PollerSound, PollerIdle, Idle
<1>5. SeederInv
  <2>1. DOMAIN seeder.left = {} /\ seeder.left = <<>> /\ seeder.inserted = 0 /\ seeder.docs = 0
    BY NothingRead DEF SeederIdle
  <2>2. ListSound /\ OneTaskPerCommit
    BY <1>1, <2>1 DEF ListSound, OneTaskPerCommit
  <2>3. SharesSound
    <3>1. DocsOf = {}
      BY <1>1 DEF DocsOf
    <3>2. Cardinality(DocsOf) = 0
      BY <3>1, FS_EmptySet
    <3> QED
      BY <1>1, <2>1, <3>2, ConstantsTyped DEF SharesSound
  <2> QED
    BY <2>1, <2>2, <2>3 DEF SeederInv
<1>6. RunInv /\ GradersInv
  BY <1>1 DEF RunInv, SummariesSound, EvaluatorSound, ResultsSound, GradersInv, GraderSound, EvaluatorIdle,
       GraderIdle, Idle
<1>7. BootInv
  BY BootstrapAssumption DEF BootInv, BootSteps
<1> QED
  BY <1>2, <1>3, <1>4, <1>5, <1>6, <1>7 DEF IInv

Inv == TypeInv /\ IInv /\ BootInv

\* The commands of bootstrap, those by hand and the service keep the
\* invariant, whatever their order.
THEOREM Invariance == Spec => []Inv
<1>1. Init => Inv
  BY InitTyped, InitSound DEF Inv
<1>2. Inv /\ [Next]_vars => Inv'
  <2> SUFFICES ASSUME Inv, [Next]_vars PROVE Inv'
    OBVIOUS
  <2>1. CASE Next
    BY <2>1, BootStepsAreSteps, InvKept, InvStays, BootKept DEF Inv
  <2>2. CASE UNCHANGED vars
    BY <2>2, InvStays DEF Inv, BootInv
  <2> QED
    BY <2>1, <2>2
<1> QED
  BY <1>1, <1>2, PTL DEF Spec

-----------------------------------------------------------------------------
(***************************************************************************)
(* What the library's users rely on.                                       *)
(***************************************************************************)
LEMMA TextsOfRow ==
    ASSUME TypeInv, LibraryInv, NEW i \in TaskIds
    PROVE  /\ {tasks[i].brief, tasks[i].request, tasks[i].batch} \subseteq Texts
           /\ tasks[i].batch # NoBatch => MarkedWith(i, tasks[i].batch)
           /\ tasks[i].brief # NoBatch => tasks[i].status = "done"
           /\ tasks[i].status = "done" =>
                 /\ tasks[i].brief = tasks[i].batch /\ tasks[i].brief # NoBatch
                 /\ i \in batches[tasks[i].brief].answered
           /\ tasks[i].source = "reverse_engineered" <=> tasks[i].status = "done"
<1>1. Len(batches) \in Nat /\ DOMAIN batches = 1..Len(batches)
  BY BatchesTyped
<1>2. RowSound(i) /\ tasks[i].status \in BriefStatuses
  BY RowsTyped DEF LibraryInv, TypeInv
<1>3. Texts = 0..Len(batches) /\ NoBatch = 0
  BY DEF Texts, NoBatch
<1>4. CASE tasks[i].status = "none"
  BY <1>1, <1>2, <1>3, <1>4 DEF RowSound, Mechanical
<1>5. CASE tasks[i].status \in {"submitted", "errored"}
  BY <1>1, <1>2, <1>3, <1>5 DEF RowSound, Mechanical, MarkedWith
<1>6. CASE tasks[i].status = "done"
  BY <1>1, <1>2, <1>3, <1>6 DEF RowSound, MarkedWith
<1> QED
  BY <1>2, <1>4, <1>5, <1>6 DEF BriefStatuses

\* Every row a command writes, whatever it read before, is of a commit and of
\* texts there are (eval_store.go).
THEOREM Typing == Spec => []TypeOK
<1>1. Inv => TypeOK
  <2> SUFFICES ASSUME Inv PROVE TypeOK
    OBVIOUS
  <2> USE DEF Inv, IInv
  <2>1. head \in FirstHead..Len(History) /\ commands \in 0..MaxCommands /\ faults \in 0..MaxFaults
    BY DEF TypeInv, LibraryTypes, BoundTypes
  <2>2. ASSUME NEW i \in TaskIds
        PROVE  /\ tasks[i].commit \in 1..head
               /\ {tasks[i].brief, tasks[i].request, tasks[i].batch} \subseteq Texts
               /\ tasks[i].source \in Sources /\ tasks[i].status \in BriefStatuses
    <3>1. tasks[i].commit \in 1..head
      BY DEF LibraryInv, RowSound
    <3>2. tasks[i].source \in Sources /\ tasks[i].status \in BriefStatuses
      BY RowsTyped DEF TypeInv
    <3> QED
      BY <3>1, <3>2, TextsOfRow
  <2>3. \A b \in DOMAIN batches :
           batches[b].items \subseteq TaskIds /\ batches[b].answered \subseteq batches[b].items
    BY DEF LibraryInv, BatchSound
  <2>4. \A k \in DOMAIN results : results[k].task \in TaskIds /\ results[k].run \in DOMAIN runs
    BY DEF RunInv, ResultsSound
  <2>5. boot \in BootSteps /\ tried \in 0..Backends
    BY DEF BootInv
  <2> QED
    BY <2>1, <2>2, <2>3, <2>4, <2>5 DEF TypeOK
<1> QED
  BY <1>1, Invariance, PTL

\* However often seed-history is run, stopped and run again after new commits,
\* no commit becomes two tasks and the library as a whole keeps the share of
\* documentation each run was given (seed_history.go).
THEOREM Seeding == Spec => []SeedingHolds
<1>1. Inv => SeedingHolds
  <2> SUFFICES ASSUME Inv PROVE SeedingHolds
    OBVIOUS
  <2>1. OneTaskPerCommit /\ SharesSound
    BY DEF Inv, IInv, SeederInv
  <2>2. DocsShareHolds
    <3> SUFFICES ASSUME DocsShare > 0
                 PROVE  100 * Cardinality(DocsOf) <= DocsShare * Len(tasks)
      BY DEF DocsShareHolds, DocsOf
    <3>1. Cardinality(DocsOf) \in Nat /\ Len(tasks) \in Nat /\ DocsShare \in Nat
      BY DocsFinite, ConstantsTyped DEF Inv
    <3>2. seeder.docs \in Nat /\ seeder.inserted \in Nat
      BY DEF Inv, TypeInv, WriterTypes, Seeders
    <3>3. /\ 100 * seeder.docs <= DocsShare * seeder.inserted
          /\ 100 * (Cardinality(DocsOf) - seeder.docs) <= DocsShare * (Len(tasks) - seeder.inserted)
      BY <2>1 DEF SharesSound
    <3> QED
      BY <3>1, <3>2, <3>3, SharesAdd
  <2> QED
    BY <2>1, <2>2 DEF SeedingHolds
<1> QED
  BY <1>1, Invariance, PTL

\* A poll, a submit and a refresh, each with the rows it read when it started,
\* never give a task another's text, and the row says whether its brief was
\* rewritten (reverse_briefs.go).
THEOREM Briefs == Spec => []BriefsHonest
<1>1. Inv => BriefsHonest
  <2> SUFFICES ASSUME Inv PROVE BriefsHonest
    OBVIOUS
  <2>1. TypeInv /\ LibraryInv
    BY DEF Inv, IInv
  <2>2. BriefFromOwnItem
    BY <2>1, TextsOfRow DEF BriefFromOwnItem, MarkedWith
  <2>3. SourceMatchesBrief
    BY <2>1, TextsOfRow DEF SourceMatchesBrief
  <2> QED
    BY <2>2, <2>3 DEF BriefsHonest
<1> QED
  BY <1>1, Invariance, PTL

\* A run that ends has one row for each task it read, and counted those it
\* scored and those that passed, whatever judge-fails wrote meanwhile
\* (run.go, judge_fails.go).
THEOREM Summaries == Spec => []SummaryOfRows
<1>1. Inv => SummaryOfRows
  <2> SUFFICES ASSUME Inv, NEW r \in DOMAIN runs, runs[r].summary
               PROVE  /\ {results[k].task : k \in RowsIn(results, r)} = 1..runs[r].tasks
                      /\ Cardinality(RowsIn(results, r)) = runs[r].tasks
                      /\ runs[r].total = Cardinality(ScoredRows(r))
                      /\ (\A k \in ScoredRows(r) : results[k].verdict = Unjudged) =>
                            runs[r].passed = Cardinality({k \in ScoredRows(r) : results[k].passed})
    BY DEF SummaryOfRows, RowsIn
  <2>1. Tallied(results, r, runs[r].tasks, {}, runs[r].total, runs[r].passed)
    BY DEF Inv, IInv, RunInv, SummariesSound
  <2>2. ScoredRows(r) = ScoredIn(results, r)
    BY DEF ScoredRows, ScoredIn, RowsIn
  <2>3. Cardinality(RowsIn(results, r)) = runs[r].tasks
    <3>1. Len(results) \in Nat /\ DOMAIN results = 1..Len(results)
      BY LenProperties DEF Inv, TypeInv, ScoringTypes
    <3>2. Cardinality(RowsIn(results, r)) \in Nat
      BY <3>1, RowsFinite
    <3>3. Cardinality(RowsIn(results, r)) + Cardinality({}) = runs[r].tasks /\ Cardinality({}) = 0
      BY <2>1, FS_EmptySet DEF Tallied
    <3> QED
      BY <3>2, <3>3
  <2>4. {results[k].task : k \in RowsIn(results, r)} = 1..runs[r].tasks
    BY <2>1 DEF Tallied
  <2>5. /\ runs[r].total = Cardinality(ScoredRows(r))
        /\ UnjudgedIn(results, r) => runs[r].passed = Cardinality(PassedIn(results, r))
    BY <2>1, <2>2 DEF Tallied
  <2>6. PassedIn(results, r) = {k \in ScoredRows(r) : results[k].passed}
        /\ UnjudgedIn(results, r) = \A k \in ScoredRows(r) : results[k].verdict = Unjudged
    BY <2>2 DEF PassedIn, UnjudgedIn
  <2> QED
    BY <2>3, <2>4, <2>5, <2>6
<1> QED
  BY <1>1, Invariance, PTL

\* Where one submission follows another, no command takes back a rewritten
\* brief, and where one judge-fails follows another, nothing settled is graded
\* again, although both work on what they read earlier, next to any number of
\* polls, refreshes and runs (reverse_briefs.go, judge_fails.go). Two at a time
\* do both: nothing in the code keeps them apart.
THEOREM Written == Spec => WrittenOnce
<1> DEFINE A == /\ OneSubmitter => \A i \in TaskIds : tasks[i].brief # NoBatch =>
                      tasks'[i].brief = tasks[i].brief /\ tasks'[i].source = tasks[i].source
                /\ OneGrader => \A k \in DOMAIN results : Settled(results[k]) => results'[k] = results[k]
<1>1. Inv /\ [Next]_vars => [A]_vars
  <2> SUFFICES ASSUME Inv, Next, ~UNCHANGED scoringVars PROVE A
    OBVIOUS
  <2> USE DEF Inv
  <2>1. ScoringNext
    BY BootStepsAreSteps
  <2>2. OneSubmitter => \A i \in TaskIds : tasks[i].brief # NoBatch =>
            tasks'[i].brief = tasks[i].brief /\ tasks'[i].source = tasks[i].source
    BY <2>1, StepKeepsLibrary DEF TasksKept, BriefKept
  <2>3. ASSUME OneGrader, NEW k \in DOMAIN results, Settled(results[k]) PROVE results'[k] = results[k]
    <3>1. CASE UNCHANGED results
      BY <3>1
    <3>2. CASE RunScore
      BY <3>2, RunScores DEF IInv, RunInv, RowAppended
    <3>3. CASE RunSkip
      BY <3>3, RunSkips DEF IInv, RunInv, RowAppended
    <3>4. ASSUME NEW g \in Graders, GradeApply(g) PROVE results'[k] = results[k]
      <4>1. PICK m : m = Min(grader[g].left)
        OBVIOUS
      <4>2. Ungraded(results[m]) /\ \A j \in DOMAIN results \ {m} : results'[j] = results[j]
        BY <2>3, <3>4, <4>1, GradeApplies DEF IInv
      <4>3. k # m
        BY <4>2, <2>3 DEF Ungraded, Settled
      <4> QED
        BY <4>2, <4>3
    <3>5. ASSUME NEW g \in Graders, GradeNext(g), ~GradeApply(g) PROVE results'[k] = results[k]
      BY <3>5, GraderMoves DEF IInv, RunInv
    <3>6. CASE RunStart \/ RunFinish \/ RunFails
      BY <3>6, <3>1 DEF RunStart, RunFinish, RunFails
    <3> QED
      BY <2>1, <3>1, <3>2, <3>3, <3>4, <3>5, <3>6 DEF ScoringNext, RunNext
  <2> QED
    BY <2>2, <2>3
<1> QED
  BY <1>1, Invariance, PTL DEF Spec, WrittenOnce
=============================================================================
