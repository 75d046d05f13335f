----------------------------- MODULE Featurise -----------------------------
(***************************************************************************)
(* From captured calls to evaluation tasks: `splitter featurise`           *)
(* (internal/feature/featurise.go) labels each call by what it and the     *)
(* next call of its session say, `eval harvest` (internal/evals/           *)
(* harvest.go) turns the troubled ones and a sample of the clean ones into *)
(* tasks. Each command is a process: it reads its rows, then writes them   *)
(* one statement at a time, while the client goes on, verdicts arrive and  *)
(* other commands run.                                                     *)
(*                                                                         *)
(* How a verdict comes about is JudgePipeline's; here it comes as it may.  *)
(***************************************************************************)
EXTENDS Turns

CONSTANTS
    Sessions,
    Answers,        \* what a model may answer: sequences of blocks
    Asks, Results,  \* what the client may add: plain text, results of tools
    IncludeClean,   \* -include-clean
    Featurisers,    \* processes
    MaxTurns,       \* bound: turns of all sessions
    MaxFaults       \* bound: commands that are killed or whose statement fails

ASSUME FeaturiseAssumption == {IncludeClean, MaxTurns, MaxFaults} \subseteq Nat

VARIABLES
    transcript,   \* of each session: its messages so far
    turns,
    calls,        \* the table calls
    features,     \* the table features, by call id
    verdicts,     \* verifications, decided or banded, by call id
    tasks,        \* harvested rows of eval_tasks: (call, origin) is unique
    featuriser, harvester,
    faults

client == <<transcript, turns, calls>>
vars == <<client, features, verdicts, tasks, featuriser, harvester, faults>>

CallIds == DOMAIN calls
Idle == "idle"
None == "none"
FeaturiserIdle == [pc |-> Idle, left |-> {}, row |-> None]
HarvesterIdle == [pc |-> Idle, rows |-> <<>>]

Init ==
    /\ transcript = [s \in Sessions |-> <<>>]
    /\ turns = 0
    /\ calls = <<>>
    /\ features = <<>>
    /\ verdicts = <<>>
    /\ tasks = {}
    /\ featuriser = [f \in Featurisers |-> FeaturiserIdle]
    /\ harvester = HarvesterIdle
    /\ faults = 0

Failed == faults < MaxFaults /\ faults' = faults + 1

\* INSERT ... ON CONFLICT DO UPDATE of every column.
Upserted(table, id, row) == [i \in DOMAIN table \cup {id} |-> IF i = id THEN row ELSE table[i]]

-----------------------------------------------------------------------------
(***************************************************************************)
(* The client and the proxy: every request repeats the transcript, unless  *)
(* the client has compacted it. Whatever reply of the frontier is relayed  *)
(* is stored: an answer, what there is of one that broke off, an error.    *)
(***************************************************************************)
Message(role, content) == [role |-> role, content |-> content]

UsesTools(content) == \E b \in ToSet(content) : b.type = "tool_use"

\* What the client may send next: the same again when it got no answer, or
\* not all of it.
Sendable(messages) ==
    IF messages = <<>> THEN {<<Message("user", ask)>> : ask \in Asks}
    ELSE IF Last(messages).role = "user" THEN {messages}
    ELSE {Front(messages)} \cup
         {Append(messages, Message("user", reply)) :
             reply \in IF UsesTools(Last(messages).content) THEN Results ELSE Asks}

\* A tool_use that breaks off has no input that parses.
CutBlock(b) == IF b.type = "tool_use" THEN [b EXCEPT !.path = ""] ELSE b

\* All of an answer, or what comes before it breaks off.
Beginnings(answer) ==
    {SubSeq(answer, 1, n) : n \in 0..Len(answer)} \cup
    {Append(SubSeq(answer, 1, n - 1), CutBlock(answer[n])) : n \in 1..Len(answer)}

\* An error of the API is JSON without content: it decodes to no blocks. A
\* page of a gateway does not decode, an empty body is stored as NULL.
Replies(answer) ==
    {[reply |-> "decodes", response |-> blocks] : blocks \in Beginnings(answer)} \cup
    {[reply |-> reply, response |-> <<>>] : reply \in {"garbled", "none"}}

CallRow(s, sent, stored) ==
    [session |-> s, request |-> [planMode |-> FALSE, messages |-> sent],
     reply |-> stored.reply, response |-> stored.response]

\* What the client hears and what the row holds differ when a stream breaks
\* off, the capture is full or the client goes away. No row is left when the
\* turn is served locally, upstream is not reached or the record is dropped.
Turn(s) ==
    /\ turns < MaxTurns
    /\ turns' = turns + 1
    /\ \E sent \in Sendable(transcript[s]) \cup Sendable(<<>>), answer \in Answers :
          LET heard == Append(sent, Message("assistant", answer))
          IN  \/ /\ transcript' = [transcript EXCEPT ![s] = heard]
                 /\ UNCHANGED calls
              \/ \E stored \in Replies(answer) :
                    /\ transcript' = [transcript EXCEPT
                          ![s] = IF stored.reply = "none" THEN sent ELSE heard]
                    /\ calls' = Append(calls, CallRow(s, sent, stored))
    /\ UNCHANGED <<features, verdicts, tasks, featuriser, harvester, faults>>

-----------------------------------------------------------------------------
(***************************************************************************)
(* featurise.                                                              *)
(***************************************************************************)
\* response_zstd IS NOT NULL: of any reply, an error too.
Answered(c) == calls[c].reply # "none"

Decodes(c) == calls[c].reply = "decodes"

MissingFeatures == {c \in CallIds \ DOMAIN features : Answered(c)}

\* Mutant: the last call of a session is never looked at again.
NullFollowup_None == {}

NullFollowup == {c \in DOMAIN features : features[c].followup = "unknown"}

FeaturiseStart(f, refresh) ==
    /\ featuriser[f].pc = Idle
    /\ LET ids == IF refresh THEN {c \in CallIds : Answered(c)} ELSE MissingFeatures \cup NullFollowup
       IN  /\ ids # {}
           /\ featuriser' = [featuriser EXCEPT ![f] = [FeaturiserIdle EXCEPT !.pc = "read", !.left = ids]]
    /\ UNCHANGED <<client, features, verdicts, tasks, harvester, faults>>

LaterCalls(c) == {d \in CallIds : d > c /\ calls[d].session = calls[c].session}

\* The next call of its session, as a set of at most one.
NextCalls(c) == {d \in LaterCalls(c) : \A e \in LaterCalls(c) : d <= e}

\* Mutant: no next call yet is no trouble.
ErrorFollowup_No(c, files) ==
    IF \E d \in NextCalls(c) : HasErrorFollowup(files, calls[d].request) THEN "yes" ELSE "no"

ErrorFollowup(c, files) ==
    IF NextCalls(c) = {} THEN "unknown"
    ELSE IF \E d \in NextCalls(c) : HasErrorFollowup(files, calls[d].request) THEN "yes" ELSE "no"

FeatureRow(c) ==
    LET files == FilesTouched(calls[c].response)
    IN  [turnType |-> ClassifyTurnType(calls[c].request, calls[c].response),
         subsystem |-> Subsystem(files),
         followup |-> ErrorFollowup(c, files)]

\* Mutant: a response that does not decode is taken to have no content.
FeaturiseRead_Any(f) ==
    /\ featuriser[f].pc = "read"
    /\ featuriser' = [featuriser EXCEPT
          ![f].pc = "write", ![f].row = FeatureRow(Min(featuriser[f].left))]
    /\ UNCHANGED <<client, features, verdicts, tasks, harvester, faults>>

FeaturiseRead(f) ==
    /\ featuriser[f].pc = "read" /\ Decodes(Min(featuriser[f].left))
    /\ featuriser' = [featuriser EXCEPT
          ![f].pc = "write", ![f].row = FeatureRow(Min(featuriser[f].left))]
    /\ UNCHANGED <<client, features, verdicts, tasks, harvester, faults>>

\* On to the next call, or done.
Advanced(f) ==
    LET left == featuriser[f].left \ {Min(featuriser[f].left)}
    IN  IF left = {} THEN FeaturiserIdle ELSE [FeaturiserIdle EXCEPT !.pc = "read", !.left = left]

FeaturiseWrite(f) ==
    /\ featuriser[f].pc = "write"
    /\ features' = Upserted(features, Min(featuriser[f].left), featuriser[f].row)
    /\ featuriser' = [featuriser EXCEPT ![f] = Advanced(f)]
    /\ UNCHANGED <<client, verdicts, tasks, harvester, faults>>

\* A response that does not decode: logged, and on to the next, every time.
FeaturisePasses(f) ==
    /\ featuriser[f].pc = "read" /\ ~Decodes(Min(featuriser[f].left))
    /\ featuriser' = [featuriser EXCEPT ![f] = Advanced(f)]
    /\ UNCHANGED <<client, features, verdicts, tasks, harvester, faults>>

\* A statement about one call fails: logged, and on to the next.
FeaturiseSkips(f) ==
    /\ featuriser[f].pc # Idle
    /\ Failed
    /\ featuriser' = [featuriser EXCEPT ![f] = Advanced(f)]
    /\ UNCHANGED <<client, features, verdicts, tasks, harvester>>

FeaturiseKilled(f) ==
    /\ featuriser[f].pc # Idle
    /\ Failed
    /\ featuriser' = [featuriser EXCEPT ![f] = FeaturiserIdle]
    /\ UNCHANGED <<client, features, verdicts, tasks, harvester>>

-----------------------------------------------------------------------------
(***************************************************************************)
(* Replays and evaluations, as far as evidence goes.                       *)
(***************************************************************************)
\* SelectReplayCandidates: featurised, not "other", not replayed with it yet.
Verify ==
    /\ \E c \in DOMAIN features \ DOMAIN verdicts, verdict \in {"agree", "differ", "band"} :
          /\ features[c].turnType # "other"
          /\ verdicts' = Upserted(verdicts, c, verdict)
    /\ UNCHANGED <<client, features, tasks, featuriser, harvester, faults>>

Judge ==
    /\ \E c \in DOMAIN verdicts, verdict \in {"agree", "differ"} :
          verdicts[c] = "band" /\ verdicts' = [verdicts EXCEPT ![c] = verdict]
    /\ UNCHANGED <<client, features, tasks, featuriser, harvester, faults>>

-----------------------------------------------------------------------------
(***************************************************************************)
(* eval harvest: one query per origin, its rows one at a time.             *)
(***************************************************************************)
Disagreements == {c \in DOMAIN verdicts : verdicts[c] = "differ"}

ErrorFollowups == {c \in DOMAIN features : features[c].followup = "yes"}

CleanCandidates ==
    LET clean == {c \in DOMAIN features :
                    /\ features[c].followup = "no"
                    /\ features[c].turnType = "single_file_edit"
                    /\ c \in DOMAIN verdicts => verdicts[c] = "agree"}
    IN  {c \in clean : Cardinality({d \in clean : d < c}) < IncludeClean}

HarvestSource(origin) ==
    CASE origin = "disagreement" -> Disagreements
      [] origin = "escalation" -> {}  \* router_decisions.call_id is always NULL
      [] origin = "error_followup" -> ErrorFollowups
      [] origin = "clean" -> CleanCandidates

NextOrigin ==
    [disagreement |-> "escalation", escalation |-> "error_followup",
     error_followup |-> "clean", clean |-> Idle]

\* The rows of a query, each with its features as they then are.
HarvestRows(origin) == [c \in HarvestSource(origin) |-> features[c]]

HarvestStart ==
    /\ harvester.pc = Idle /\ features # <<>>
    /\ harvester' = [pc |-> "disagreement", rows |-> HarvestRows("disagreement")]
    /\ UNCHANGED <<client, features, verdicts, tasks, featuriser, faults>>

\* Mutant: every disagreement is challenging.
HarvestDifficulty_Always(origin, followup) == IF origin = "clean" THEN "simple" ELSE "challenging"

HarvestDifficulty(origin, followup) ==
    IF origin = "clean" THEN "simple"
    ELSE IF origin = "disagreement" /\ followup # "yes" THEN None
    ELSE "challenging"

Harvested(c, origin) == \E task \in tasks : task.call = c /\ task.origin = origin

HarvestTask(c, origin) ==
    LET row == harvester.rows[c]
    IN  [call |-> c, origin |-> origin, turnType |-> row.turnType, subsystem |-> row.subsystem,
         difficulty |-> HarvestDifficulty(origin, row.followup)]

\* INSERT ... ON CONFLICT(call_id, origin) DO NOTHING.
HarvestInsert ==
    /\ harvester.rows # <<>>
    /\ LET c == Min(DOMAIN harvester.rows)
       IN  /\ tasks' = IF Harvested(c, harvester.pc) THEN tasks
                       ELSE tasks \cup {HarvestTask(c, harvester.pc)}
           /\ harvester' = [harvester EXCEPT !.rows = [d \in DOMAIN @ \ {c} |-> @[d]]]
    /\ UNCHANGED <<client, features, verdicts, featuriser, faults>>

HarvestNext ==
    /\ harvester.pc # Idle /\ harvester.rows = <<>>
    /\ LET next == NextOrigin[harvester.pc]
       IN  harvester' = IF next = Idle THEN HarvesterIdle ELSE [pc |-> next, rows |-> HarvestRows(next)]
    /\ UNCHANGED <<client, features, verdicts, tasks, featuriser, faults>>

HarvestFails ==
    /\ harvester.pc # Idle
    /\ Failed
    /\ harvester' = HarvesterIdle
    /\ UNCHANGED <<client, features, verdicts, tasks, featuriser>>

-----------------------------------------------------------------------------
FeaturiseGoesOn(f) ==
    FeaturiseStart(f, FALSE) \/ FeaturiseRead(f) \/ FeaturisePasses(f) \/ FeaturiseWrite(f)

Next ==
    \/ \E s \in Sessions : Turn(s)
    \/ \E f \in Featurisers :
          \/ FeaturiseGoesOn(f) \/ FeaturiseStart(f, TRUE)
          \/ FeaturiseSkips(f) \/ FeaturiseKilled(f)
    \/ Verify \/ Judge
    \/ HarvestStart \/ HarvestInsert \/ HarvestNext \/ HarvestFails

Spec == Init /\ [][Next]_vars

\* Nothing but the operator runs featurise: that it does so again and again,
\* and not with -refresh only, is assumed.
FairSpec == Spec /\ \A f \in Featurisers : WF_vars(FeaturiseGoesOn(f))

-----------------------------------------------------------------------------
(***************************************************************************)
(* Properties.                                                             *)
(***************************************************************************)
Followups == {"unknown", "no", "yes"}

\* Rows are of what exists: features of calls whose reply decodes, though
\* every other one with a reply is tried again by each run; verdicts and tasks
\* of featurised ones.
TypeOK ==
    /\ turns \in 0..MaxTurns /\ faults \in 0..MaxFaults
    /\ \A c \in DOMAIN features :
          /\ c \in CallIds /\ Decodes(c)
          /\ features[c].turnType \in TurnTypes /\ features[c].followup \in Followups
    /\ DOMAIN verdicts \subseteq DOMAIN features
    /\ \A task \in tasks : task.call \in DOMAIN features

\* A followup that is known is what the very next call of the session says,
\* whatever overlapping or killed featurise wrote it and whatever came since.
FollowupStands ==
    \A c \in DOMAIN features :
        features[c].followup # "unknown" => features[c].followup = ErrorFollowup(c, FilesTouched(calls[c].response))

\* A task is labelled for what its call's followup says: challenging when it
\* shows the signal, simple when it does not.
LabelsEarned ==
    \A task \in tasks :
        LET signal == ErrorFollowup(task.call, FilesTouched(calls[task.call].response))
        IN  /\ task.difficulty = "challenging" => signal = "yes"
            /\ task.difficulty = "simple" => signal = "no"

\* Once a featurised call has a successor, its followup ends up known for
\* good: an overlapping run that read earlier may undo it only for a while.
FollowupsSettle ==
    <>[](\A c \in DOMAIN features : NextCalls(c) # {} => features[c].followup # "unknown")

\* had_error_followup = 1 means that "the next call in the same session contains
\* an error message or retry of the same edit" (BRIEF.md): an error in what the
\* next request adds to the transcript, or another edit of the same file there.
Added(c, d) ==
    LET before == Append(calls[c].request.messages, Message("assistant", calls[c].response))
        messages == calls[d].request.messages
    IN  IF IsPrefix(before, messages)
        THEN [calls[d].request EXCEPT !.messages = SubSeq(messages, Len(before) + 1, Len(messages))]
        ELSE calls[d].request
FlaggedForTrouble ==
    \A c \in DOMAIN features : features[c].followup = "yes" =>
        \E d \in NextCalls(c) : HasErrorFollowup(FilesTouched(calls[c].response), Added(c, d))
=============================================================================
