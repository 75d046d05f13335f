---------------------------- MODULE RouterUpdate ----------------------------
(***************************************************************************)
(* `splitter router update` (internal/router/update.go, store/             *)
(* router_store.go, cmd_router.go, the end of cmd_bootstrap.go): decided   *)
(* verifications and trusted evaluation results become the rows of         *)
(* router_state. It is run by the hourly unit, by bootstrap and by hand:   *)
(* processes overlap, evidence goes on arriving between their two queries  *)
(* and their upserts, and the proxy disables rows meanwhile.               *)
(*                                                                         *)
(* How evidence comes about is left to JudgePipeline, Bootstrap and        *)
(* RunPools; here it comes as it may.                                      *)
(***************************************************************************)
EXTENDS RouterStatistics, FiniteSetsExt, TLC

CONSTANTS
    Verifications,   \* evidence of replays: what features, calls and replays join to
    EvalResults,     \* evidence of evaluations; frontier and turnType may be ""
    FrontierModels,  \* what live requests ask for
    LocalModels,     \* and what they may be routed to
    Updaters,        \* processes
    MaxDisables,     \* bound: escalations
    MaxFaults        \* bound: statements that fail, processes that are killed

ASSUME RouterUpdateAssumption ==
    /\ IsFiniteSet(Verifications) /\ IsFiniteSet(EvalResults)
    /\ {MaxDisables, MaxFaults} \subseteq Nat

VARIABLES
    decided,       \* verifications.agree, of those that are decided
    results,       \* eval_results: what the run scored, what the judge said
    routerState,   \* the table router_state, by key
    updater,
    disables, faults

evidence == <<decided, results>>
vars == <<evidence, routerState, updater, disables, faults>>

Idle == "idle"
Unjudged == "unjudged"
UpdaterIdle == [pc |-> Idle, rows |-> {}, todo |-> <<>>]

\* A table with one row inserted or replaced.
With(table, key, row) == [k \in DOMAIN table \cup {key} |-> IF k = key THEN row ELSE table[k]]

Init ==
    /\ decided = <<>>
    /\ results = <<>>
    /\ routerState = <<>>
    /\ updater = [u \in Updaters |-> UpdaterIdle]
    /\ disables = 0
    /\ faults = 0

-----------------------------------------------------------------------------
(***************************************************************************)
(* Evidence. A cheat flag, an error or a step skipped by the ladder keeps  *)
(* a result from being trusted, whatever the judge says of it.             *)
(***************************************************************************)
Scores == {"exact", "similar", "different", "cheated", "skipped"}

Decide ==
    /\ \E v \in Verifications \ DOMAIN decided, agree \in BOOLEAN :
          decided' = With(decided, v, agree)
    /\ UNCHANGED <<results, routerState, updater, disables, faults>>

Record ==
    /\ \E e \in EvalResults \ DOMAIN results, score \in Scores :
          results' = With(results, e, [score |-> score, judge |-> Unjudged])
    /\ UNCHANGED <<decided, routerState, updater, disables, faults>>

Grade ==
    /\ \E e \in DOMAIN results, verdict \in {"pass", "fail"} :
          /\ results[e].judge = Unjudged
          /\ results[e].score \in {"similar", "different", "cheated"}
          /\ results' = [results EXCEPT ![e].judge = verdict]
    /\ UNCHANGED <<decided, routerState, updater, disables, faults>>

-----------------------------------------------------------------------------
(***************************************************************************)
(* The two queries.                                                        *)
(***************************************************************************)
VerificationRow(v) ==
    [turnType |-> v.turnType, subsystem |-> v.subsystem, frontier |-> v.frontier,
     local |-> v.local, agree |-> decided[v], id |-> v.id]

DecidedVerifications == {VerificationRow(v) : v \in DOMAIN decided}

Passed(e) ==
    IF results[e].judge # Unjudged THEN results[e].judge = "pass"
    ELSE results[e].score \in {"exact", "similar"}

\* Mutant: results with a cheat flag count.
Trusted_Cheats(e) == results[e].score # "skipped"

Trusted(e) == results[e].score \notin {"cheated", "skipped"}

ResultRow(e) ==
    [turnType |-> IF e.turnType = "" THEN "other" ELSE e.turnType, subsystem |-> e.subsystem,
     frontier |-> IF e.frontier = "" THEN "human" ELSE e.frontier,
     local |-> e.local, agree |-> Passed(e), id |-> e.id]

TrustedEvalResults == {ResultRow(e) : e \in {x \in DOMAIN results : Trusted(x)}}

-----------------------------------------------------------------------------
Statistics(rows) == [key \in GroupKeys(rows) |-> CategoryStats(Group(rows, key))]

UpdateStart(u) ==
    /\ updater[u].pc = Idle
    /\ updater' = [updater EXCEPT ![u] = [UpdaterIdle EXCEPT !.pc = "results", !.rows = DecidedVerifications]]
    /\ UNCHANGED <<evidence, routerState, disables, faults>>

\* The second query, and everything computed from both.
UpdateResults(u) ==
    /\ updater[u].pc = "results"
    /\ \E rows \in {updater[u].rows \cup TrustedEvalResults} : \E todo \in {Statistics(rows)} :
          updater' = [updater EXCEPT
              ![u] = IF rows = {} THEN UpdaterIdle ELSE [pc |-> "write", rows |-> {}, todo |-> todo]]
    /\ UNCHANGED <<evidence, routerState, disables, faults>>

\* Mutant: a row that is there stays.
Upserted_Once(key, row) == IF key \in DOMAIN routerState THEN routerState ELSE With(routerState, key, row)

Upserted(key, row) == With(routerState, key, row)

\* One group; the order of the groups is the order their rows were read in.
UpdateWrite(u) ==
    /\ updater[u].pc = "write"
    /\ \E key \in DOMAIN updater[u].todo :
          LET rest == [k \in DOMAIN updater[u].todo \ {key} |-> updater[u].todo[k]]
          IN  /\ routerState' = Upserted(key, updater[u].todo[key])
              /\ updater' = [updater EXCEPT
                    ![u] = IF rest = <<>> THEN UpdaterIdle ELSE [@ EXCEPT !.todo = rest]]
    /\ UNCHANGED <<evidence, disables, faults>>

UpdateFails(u) ==
    /\ updater[u].pc # Idle /\ faults < MaxFaults
    /\ updater' = [updater EXCEPT ![u] = UpdaterIdle]
    /\ faults' = faults + 1
    /\ UNCHANGED <<evidence, routerState, disables>>

-----------------------------------------------------------------------------
LiveFamilies == {FamilyPair(frontier, local) : frontier \in FrontierModels, local \in LocalModels}

\* Mutant: the row is made when there is none.
Disabled_Makes(key) ==
    With(routerState, key, [n |-> 0, agreed |-> 0, reason |-> Reason("escalation", {}), routable |-> FALSE])

Disabled(key) ==
    IF key \in DOMAIN routerState
    THEN [routerState EXCEPT ![key].reason = Reason("escalation", {}), ![key].routable = FALSE]
    ELSE routerState

\* The proxy after an escalation: UPDATE ... WHERE category = ? AND families = ?.
Disable ==
    /\ disables < MaxDisables
    /\ \E category \in {Category(v.turnType, v.subsystem) : v \in Verifications}, families \in LiveFamilies :
          routerState' = Disabled([category |-> category, families |-> families])
    /\ disables' = disables + 1
    /\ UNCHANGED <<evidence, updater, faults>>

-----------------------------------------------------------------------------
UpdateGoesOn(u) == UpdateStart(u) \/ UpdateResults(u) \/ UpdateWrite(u)

Next ==
    \/ Decide \/ Record \/ Grade
    \/ \E u \in Updaters : UpdateGoesOn(u) \/ UpdateFails(u)
    \/ Disable

Spec == Init /\ [][Next]_vars

\* The timer runs the update every hour.
FairSpec == Spec /\ \A u \in Updaters : WF_vars(UpdateGoesOn(u))

-----------------------------------------------------------------------------
(***************************************************************************)
(* Properties.                                                             *)
(***************************************************************************)
\* The keys of what is known so far, trusted or not.
KnownKeys ==
    {GroupKey(VerificationRow(v)) : v \in DOMAIN decided}
      \cup {GroupKey(ResultRow(e)) : e \in DOMAIN results}

\* Every row is of a group that has evidence; processes hold what they read.
TypeOK ==
    /\ decided \in UNION {[V -> BOOLEAN] : V \in SUBSET Verifications}
    /\ results \in UNION {[R -> [score : Scores, judge : {Unjudged, "pass", "fail"}]] : R \in SUBSET EvalResults}
    /\ DOMAIN routerState \subseteq KnownKeys
    /\ disables \in 0..MaxDisables /\ faults \in 0..MaxFaults
    /\ \A u \in Updaters : updater[u].pc \in {Idle, "results", "write"}

\* What ever agreed in a group: its verdicts, and its results that passed, by
\* score or by judge, without a cheat flag.
AgreeingVerifications(key) == {v \in DOMAIN decided : decided[v] /\ GroupKey(VerificationRow(v)) = key}
AgreeingResults(key) ==
    {e \in DOMAIN results :
        /\ GroupKey(ResultRow(e)) = key
        /\ \/ results[e].score \in {"exact", "similar"}
           \/ results[e].score = "different" /\ results[e].judge = "pass"}

\* No row counts more agreement than there ever was, however updates overlap,
\* fail half-way and read between grades.
AgreementEarned ==
    \A key \in DOMAIN routerState :
        routerState[key].agreed
          <= Cardinality(AgreeingVerifications(key)) + Cardinality(AgreeingResults(key))

\* The table ends up with exactly the statistics of all the evidence, whatever
\* older numbers an overlapping or interrupted update left.
StatisticsConverge == <>[](routerState = Statistics(DecidedVerifications \cup TrustedEvalResults))

=============================================================================
