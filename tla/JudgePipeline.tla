--------------------------- MODULE JudgePipeline ---------------------------
(***************************************************************************)
(* Replay, verification cascade and batch judge (internal/replay,          *)
(* internal/verify, internal/judge) over the store they share.             *)
(*                                                                         *)
(* A runner is whatever starts commands one after the other: the hourly    *)
(* systemd unit, or a person at a shell.  It runs `replay`, `judge submit` *)
(* or `judge poll`; every SQL statement commits by itself and is one step, *)
(* and a command may die, or return an error, between any two of them.     *)
(*                                                                         *)
(* One backend and model: a call has at most one replay, one verification  *)
(* and one judge item, and all three are named by the call.                *)
(***************************************************************************)
EXTENDS VerifyCascade

CONSTANTS
    Calls,       \* logged calls with features, eligible for replay
    Runners,     \* who starts commands
    None,        \* no call being worked on
    Answers,     \* what the judge may answer
    Exchanges,   \* what the frontier and the local model may have said to a call
    Retires,     \* may the API stop serving a batch?
    MaxFaults,   \* bound: crashes and failed statements
    MaxBatches   \* bound: batches created at the API

\* The judge's answers: a parsed verdict, an item-level error (or no verdict in
\* the text), and a result line that is not JSON.
AllAnswers == {"agree", "differ", "errored", "corrupt"}
ASSUME AnswersAssumption == Answers \subseteq AllAnswers
ASSUME NoneAssumption == None \notin Calls
ASSUME BoundsAssumption == MaxFaults \in Nat /\ MaxBatches \in Nat /\ Retires \in BOOLEAN

VARIABLES
    replay,        \* replays: no row, a row with an error, one with a response
    verification,  \* verifications rows
    item,          \* judge_items rows
    rows,          \* judge_batches rows, in id order
    api,           \* batches at the API, in order of creation
    at,            \* runner -> the statement its command is about to execute
    todo,          \* runner -> calls its command still has to work on
    current,       \* runner -> the call in hand
    pending,       \* runner -> judge_batches rows still to be polled
    batch,         \* runner -> the API batch, then the row, in hand
    faults         \* crashes and failures so far

store == <<replay, verification, item, rows>>
local == <<at, todo, current, pending, batch>>
vars == <<store, api, local, faults>>

-----------------------------------------------------------------------------
(***************************************************************************)
(* The rows.  Lint outcomes are stored as a JSON array, test outcomes as a *)
(* JSON object, nothing as NULL.                                           *)
(***************************************************************************)
Shape == [lint |-> "array", tests |-> "object"]

NoVerification == [stage |-> "none", agree |-> "null", conflict |-> FALSE,
                   lint |-> "null", tests |-> "null"]
NoItem == [status |-> "none", named |-> FALSE, row |-> 0]

Banded(c)  == verification[c].stage = "ast" /\ verification[c].agree = "null"
Decided(c) == verification[c].agree # "null"

Init ==
    /\ replay = [c \in Calls |-> "none"]
    /\ verification = [c \in Calls |-> NoVerification]
    /\ item = [c \in Calls |-> NoItem]
    /\ rows = <<>>
    /\ api = <<>>
    /\ at = [w \in Runners |-> "idle"]
    /\ todo = [w \in Runners |-> {}]
    /\ current = [w \in Runners |-> None]
    /\ pending = [w \in Runners |-> {}]
    /\ batch = [w \in Runners |-> 0]
    /\ faults = 0

Goto(w, point) == at' = [at EXCEPT ![w] = point]
SetTodo(w, S) == todo' = [todo EXCEPT ![w] = S]
Hold(w, c) == current' = [current EXCEPT ![w] = c]

-----------------------------------------------------------------------------
(***************************************************************************)
(* splitter replay                                                         *)
(***************************************************************************)
\* The next candidate, or the end of the command.
NextCandidate(w, rest) ==
    /\ SetTodo(w, rest)
    /\ Hold(w, None)
    /\ Goto(w, IF rest = {} THEN "idle" ELSE "send")

\* Run selects calls without a replay row, up to the limit.
SelectCandidates(w) ==
    /\ at[w] = "idle"
    /\ \E S \in SUBSET {c \in Calls : replay[c] = "none"} :
          S # {} /\ SetTodo(w, S)
    /\ Goto(w, "send")
    /\ UNCHANGED <<store, api, current, pending, batch, faults>>

\* UNIQUE(call_id, backend, model): a second row is refused.
InsertReplay(c, outcome) ==
    replay' = IF replay[c] = "none" THEN [replay EXCEPT ![c] = outcome] ELSE replay

\* sendReplay asks the backend; a failure leaves a row with an error.
SendReplay(w) ==
    /\ at[w] = "send"
    /\ \E c \in todo[w] :
          \/ Hold(w, c) /\ Goto(w, "record") /\ UNCHANGED <<todo, replay>>
          \/ InsertReplay(c, "error") /\ NextCandidate(w, todo[w] \ {c})
    /\ UNCHANGED <<verification, item, rows, api, pending, batch, faults>>

\* sendReplay records the response; its cascade follows only if that worked.
RecordReplay(w) ==
    /\ at[w] = "record"
    /\ InsertReplay(current[w], "ok")
    /\ IF replay[current[w]] = "none"
       THEN Goto(w, "cascade") /\ UNCHANGED <<todo, current>>
       ELSE NextCandidate(w, todo[w] \ {current[w]})
    /\ UNCHANGED <<verification, item, rows, api, pending, batch, faults>>

\* What the cascade may make of an exchange.
Judgements == UNION {Verify(e) : e \in Exchanges}

\* runCascade writes the verification; a banded one goes to the judge.
RunCascade(w) ==
    /\ at[w] = "cascade"
    /\ \E v \in Judgements :
          /\ verification' = [verification EXCEPT ![current[w]] = v]
          /\ IF v.agree = "null"
             THEN Goto(w, "queue") /\ UNCHANGED <<todo, current>>
             ELSE NextCandidate(w, todo[w] \ {current[w]})
    /\ UNCHANGED <<replay, item, rows, api, pending, batch, faults>>

\* InsertJudgeItem, its INSERT: the custom id is not known yet.
InsertJudgeItem(w) ==
    /\ at[w] = "queue"
    /\ item' = [item EXCEPT ![current[w]] = [status |-> "queued", named |-> FALSE, row |-> 0]]
    /\ Goto(w, "name")
    /\ UNCHANGED <<replay, verification, rows, api, todo, current, pending, batch, faults>>

\* InsertJudgeItem, its UPDATE: custom_id becomes "ji-<id>".
NameJudgeItem(w) ==
    /\ at[w] = "name"
    /\ item' = [item EXCEPT ![current[w]].named = TRUE]
    /\ NextCandidate(w, todo[w] \ {current[w]})
    /\ UNCHANGED <<replay, verification, rows, api, pending, batch, faults>>

\* A failed statement or cascade costs this candidate; Run goes on.
SkipCandidate(w) ==
    /\ at[w] \in {"send", "record", "cascade", "queue", "name"}
    /\ faults < MaxFaults
    /\ faults' = faults + 1
    /\ \E c \in IF at[w] = "send" THEN todo[w] ELSE {current[w]} :
          NextCandidate(w, todo[w] \ {c})
    /\ UNCHANGED <<store, api, pending, batch>>

Replay(w) ==
    SendReplay(w) \/ RecordReplay(w) \/ RunCascade(w) \/ InsertJudgeItem(w) \/ NameJudgeItem(w)

-----------------------------------------------------------------------------
(***************************************************************************)
(* splitter judge submit                                                   *)
(***************************************************************************)
\* Mutant: items already at the API are submitted again.
QueuedItems_Any == {c \in Calls : item[c].status # "none"}

QueuedItems == {c \in Calls : item[c].status = "queued"}

\* Submit reads the queued items; with none it does nothing.
SubmitRead(w) ==
    /\ at[w] = "idle"
    /\ QueuedItems # {}
    /\ SetTodo(w, QueuedItems)
    /\ Goto(w, "post")
    /\ UNCHANGED <<store, api, current, pending, batch, faults>>

\* SubmitBatch: the API accepts the batch.  custom_id is built from the row id,
\* not read from the row, so an unnamed item is sent like any other.
PostBatch(w) ==
    /\ at[w] = "post"
    /\ Len(api) < MaxBatches
    /\ api' = Append(api, [calls |-> todo[w], state |-> "running",
                           answer |-> [c \in Calls |-> "none"]])
    /\ batch' = [batch EXCEPT ![w] = Len(api) + 1]
    /\ Goto(w, "insert")
    /\ UNCHANGED <<store, todo, current, pending, faults>>

\* InsertJudgeBatch returns the id of the row it inserts.
InsertJudgeBatch(w) ==
    /\ at[w] = "insert"
    /\ rows' = Append(rows, [api |-> batch[w], status |-> "submitted"])
    /\ batch' = [batch EXCEPT ![w] = Len(rows) + 1]
    /\ Goto(w, "mark")
    /\ UNCHANGED <<replay, verification, item, api, todo, current, pending, faults>>

\* MarkJudgeItemsSubmitted: one UPDATE per item, whatever its status is by now.
MarkItem(w) ==
    /\ at[w] = "mark"
    /\ \E c \in todo[w] :
          /\ item' = [item EXCEPT ![c] = [@ EXCEPT !.status = "submitted", !.row = batch[w]]]
          /\ SetTodo(w, todo[w] \ {c})
          /\ IF todo[w] = {c} THEN Goto(w, "idle") /\ batch' = [batch EXCEPT ![w] = 0]
                              ELSE UNCHANGED <<at, batch>>
    /\ UNCHANGED <<replay, verification, rows, api, current, pending, faults>>

Submit(w) == PostBatch(w) \/ InsertJudgeBatch(w) \/ MarkItem(w)

-----------------------------------------------------------------------------
(***************************************************************************)
(* splitter judge poll                                                     *)
(***************************************************************************)
PendingBatches == {i \in DOMAIN rows : rows[i].status = "submitted"}

\* Poll reads the batches it has not seen end, oldest first.
PollRead(w) ==
    /\ at[w] = "idle"
    /\ PendingBatches # {}
    /\ pending' = [pending EXCEPT ![w] = PendingBatches]
    /\ Goto(w, "poll")
    /\ UNCHANGED <<store, api, todo, current, batch, faults>>

NextBatch(w, i) ==
    LET rest == pending[w] \ {i}
    IN  /\ pending' = [pending EXCEPT ![w] = rest]
        /\ Goto(w, IF rest = {} THEN "idle" ELSE "poll")

\* One GET: a running batch is left for the next poll, a retired one is an
\* error, and an error ends the command.
PollBatch(w) ==
    /\ at[w] = "poll"
    /\ \E i \in pending[w] :
          /\ \A j \in pending[w] : i <= j
          /\ \/ /\ api[rows[i].api].state = "ended"
                /\ Goto(w, "fetch")
                /\ batch' = [batch EXCEPT ![w] = i]
                /\ UNCHANGED pending
             \/ api[rows[i].api].state = "running" /\ NextBatch(w, i) /\ UNCHANGED batch
             \/ /\ api[rows[i].api].state = "retired"
                /\ Goto(w, "idle")
                /\ pending' = [pending EXCEPT ![w] = {}]
                /\ UNCHANGED batch
    /\ UNCHANGED <<store, api, todo, current, faults>>

Batch(w) == api[rows[batch[w]].api]

\* The result lines that parse, matched by custom id with the row's items.
MatchedLines(w) ==
    {c \in Batch(w).calls :
        Batch(w).answer[c] # "corrupt" /\ item[c].row = batch[w] /\ item[c].named}

\* Mutant: the batch is completed before its results are applied.
FetchResults_CompletesFirst(w) ==
    /\ at[w] = "fetch"
    /\ SetTodo(w, MatchedLines(w))
    /\ rows' = [rows EXCEPT ![batch[w]].status = "completed"]
    /\ Goto(w, "apply")
    /\ UNCHANGED <<replay, verification, item, api, current, pending, batch, faults>>

\* FetchResults and JudgeItemsForBatch.
FetchResults(w) ==
    /\ at[w] = "fetch"
    /\ SetTodo(w, MatchedLines(w))
    /\ Goto(w, "apply")
    /\ UNCHANGED <<store, api, current, pending, batch, faults>>

\* applyResultLine: the item first, then, for a verdict, its verification.
ApplyResult(w) ==
    /\ at[w] = "apply"
    /\ \E c \in todo[w] :
          IF Batch(w).answer[c] = "errored"
          THEN /\ item' = [item EXCEPT ![c].status = "errored"]
               /\ SetTodo(w, todo[w] \ {c})
               /\ UNCHANGED <<at, current>>
          ELSE /\ item' = [item EXCEPT ![c].status = "done"]
               /\ Hold(w, c)
               /\ Goto(w, "decide")
               /\ UNCHANGED todo
    /\ UNCHANGED <<replay, verification, rows, api, pending, batch, faults>>

\* testsVerdict unmarshals each column into an object: a JSON array is an
\* error and the column is passed over.
Readable(v, column) == v[column] # "null" /\ Shape[column] = "object"
Known(v)      == \E column \in {"lint", "tests"} : Readable(v, column)
TestsAgree(v) == \A column \in {"lint", "tests"} : Readable(v, column) => v[column] = "ok"

\* The judge's stage; the columns of the cascade stay.
ByJudge(v, yes, conflict) ==
    [stage |-> "judge", agree |-> IF yes THEN "yes" ELSE "no", conflict |-> conflict,
     lint |-> v.lint, tests |-> v.tests]

\* Mutant: the judge outranks the tests.
Arbitrate_JudgeWins(v, agrees) ==
    ByJudge(v, agrees, Known(v) /\ (TestsAgree(v) # agrees))

\* applyVerdict: tests win, and the conflict is recorded.
Arbitrate(v, agrees) ==
    IF Known(v) THEN ByJudge(v, TestsAgree(v), TestsAgree(v) # agrees)
                ELSE ByJudge(v, agrees, FALSE)

\* applyVerdict reads the columns, which nobody changes, and writes the row.
ApplyVerdict(w) ==
    /\ at[w] = "decide"
    /\ LET c == current[w]
       IN  /\ verification' = [verification EXCEPT ![c] =
                                  Arbitrate(@, Batch(w).answer[c] = "agree")]
           /\ SetTodo(w, todo[w] \ {c})
    /\ Hold(w, None)
    /\ Goto(w, "apply")
    /\ UNCHANGED <<replay, item, rows, api, pending, batch, faults>>

CompleteJudgeBatch(w) ==
    /\ at[w] = "apply"
    /\ todo[w] = {}
    /\ rows' = [rows EXCEPT ![batch[w]].status = "completed"]
    /\ NextBatch(w, batch[w])
    /\ batch' = [batch EXCEPT ![w] = 0]
    /\ UNCHANGED <<replay, verification, item, api, todo, current, faults>>

Poll(w) ==
    PollBatch(w) \/ FetchResults(w) \/ ApplyResult(w) \/ ApplyVerdict(w) \/ CompleteJudgeBatch(w)

-----------------------------------------------------------------------------
\* A command dies, or returns the error of the statement it was executing.
Abort(w) ==
    /\ at[w] # "idle"
    /\ faults < MaxFaults
    /\ faults' = faults + 1
    /\ Goto(w, "idle")
    /\ SetTodo(w, {})
    /\ Hold(w, None)
    /\ pending' = [pending EXCEPT ![w] = {}]
    /\ batch' = [batch EXCEPT ![w] = 0]
    /\ UNCHANGED <<store, api>>

\* The API ends a batch, with an answer for every item in it.
BatchEnds(b) ==
    /\ api[b].state = "running"
    /\ \E answers \in [api[b].calls -> Answers] :
          api' = [api EXCEPT ![b].state = "ended",
                             ![b].answer = [c \in Calls |->
                                 IF c \in api[b].calls THEN answers[c] ELSE "none"]]
    /\ UNCHANGED <<store, local, faults>>

\* Results are served for a limited time only.
BatchRetires(b) ==
    /\ Retires
    /\ api[b].state = "ended"
    /\ api' = [api EXCEPT ![b].state = "retired"]
    /\ UNCHANGED <<store, local, faults>>

Command(w) == Replay(w) \/ Submit(w) \/ Poll(w)

Next ==
    \/ \E w \in Runners :
          \/ SelectCandidates(w) \/ SubmitRead(w) \/ PollRead(w)
          \/ Command(w) \/ SkipCandidate(w) \/ Abort(w)
    \/ \E b \in DOMAIN api : BatchEnds(b) \/ BatchRetires(b)

Spec == Init /\ [][Next]_vars

(***************************************************************************)
(* A started command goes on, a batch ends, and the hourly unit comes back *)
(* to each command: a runner that is idle again and again starts each of   *)
(* them again and again.                                                   *)
(***************************************************************************)
FairSpec ==
    /\ Spec
    /\ \A b \in 1..MaxBatches : WF_vars(b \in DOMAIN api /\ BatchEnds(b))
    /\ \A w \in Runners :
          /\ WF_vars(Command(w))
          /\ SF_vars(SelectCandidates(w)) /\ SF_vars(SubmitRead(w)) /\ SF_vars(PollRead(w))

-----------------------------------------------------------------------------
Points == {"idle", "send", "record", "cascade", "queue", "name", "post", "insert", "mark",
           "poll", "fetch", "apply", "decide"}
Handling == {"record", "cascade", "queue", "name", "decide"}

Verifications ==
    {NoVerification} \cup Judgements
    \cup [stage : {"judge"}, agree : {"yes", "no"}, conflict : BOOLEAN,
          lint : Outcomes, tests : Outcomes]
Items == [status : {"none", "queued", "submitted", "done", "errored"},
          named : BOOLEAN, row : 0..Len(rows)]
Rows == [api : 1..Len(api), status : {"submitted", "completed"}]
Batches == [calls : SUBSET Calls, state : {"running", "ended", "retired"},
            answer : [Calls -> AllAnswers \cup {"none"}]]

TypeOK ==
    /\ replay \in [Calls -> {"none", "error", "ok"}]
    /\ verification \in [Calls -> Verifications]
    /\ item \in [Calls -> Items]
    /\ rows \in Seq(Rows)
    /\ api \in Seq(Batches) /\ Len(api) <= MaxBatches
    /\ at \in [Runners -> Points]
    /\ todo \in [Runners -> SUBSET Calls]
    /\ current \in [Runners -> Calls \cup {None}]
    /\ pending \in [Runners -> SUBSET (DOMAIN rows)]
    /\ batch \in [Runners -> Nat]
    /\ faults \in 0..MaxFaults

\* SAFETY: each stage of the pipeline only exists on top of the one before it:
\* a verification has a replay that succeeded, an item a verification the
\* cascade left in the middle band (runCascade, InsertJudgeItem).
StagesBuildUp ==
    \A c \in Calls :
        /\ verification[c].stage # "none" => replay[c] = "ok"
        /\ item[c].status # "none" => Banded(c) \/ verification[c].stage = "judge"
        /\ verification[c].stage = "judge" => item[c].status # "none"

\* SAFETY: a verification decided by the judge carries the decision the rule
\* gives for an answer the API gave for this very call: test outcomes win, and
\* a conflict is recorded exactly when they overrule (applyVerdict).
DecisionFollowsRule ==
    \A c \in Calls : verification[c].stage = "judge" =>
        \E b \in DOMAIN api :
            LET agrees == api[b].answer[c] = "agree"
                v == verification[c]
            IN  /\ api[b].answer[c] \in {"agree", "differ"}
                /\ IF v.tests # "null" THEN v.agree = (IF v.tests = "ok" THEN "yes" ELSE "no")
                                       ELSE v.agree = (IF agrees THEN "yes" ELSE "no")
                /\ v.conflict <=> (v.agree = "yes") # agrees

\* SAFETY: a decision rests on stages that built up and on the rule.
VerdictsRest == StagesBuildUp /\ DecisionFollowsRule

\* SAFETY: a verification that rests on what the answers do to files, or on how
\* alike they are, rests on a cascade that measures what it says it does: the
\* distance of two texts is that of the best way to line them up
\* (tokenLevenshtein), a call that fails leaves no trace (applyTextEdits), and
\* neither side is preferred (meanSimilarity).
CascadeMeasures == (\E c \in Calls : verification[c].stage = "ast") => Measures

\* ACTION: what has been decided stays as it was decided, through crashes,
\* repeated polls and repeated submissions.
DecisionIsFinal ==
    [][\A c \in Calls : Decided(c) => verification'[c] = verification[c]]_vars

\* SAFETY: when a batch is completed, every verdict in its results for an item
\* of the batch has been applied: "each succeeded item's verdict is applied to
\* its verification" (Poll).
ResultsApplied ==
    \A c \in Calls :
        LET i == item[c].row
        IN  /\ i > 0 /\ item[c].named /\ rows[i].status = "completed"
            /\ api[rows[i].api].answer[c] \in {"agree", "differ"}
            => verification[c].stage = "judge"

\* The service let a batch expire, or spoiled the item's line of its results.
ServiceFailed(c) ==
    \E b \in DOMAIN api : api[b].state = "retired" \/ api[b].answer[c] = "corrupt"

\* LIVENESS: an item that is queued under its name is judged in the end, in
\* spite of crashes of either command, unless the service itself failed: an
\* expired batch stops `judge poll` at it, a corrupt line is dropped.
QueuedIsJudged ==
    \A c \in Calls :
        item[c].status = "queued" /\ item[c].named
            ~> item[c].status \in {"done", "errored"} \/ ServiceFailed(c)
=============================================================================
