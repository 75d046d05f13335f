------------------------ MODULE JudgePipelineProofs ------------------------
(***************************************************************************)
(* Theorems about JudgePipeline, for any number of calls and of runners,   *)
(* with any number of crashes and of batches; and about the cascade its    *)
(* verdicts come from, for any texts, answers and exchanges.               *)
(***************************************************************************)
EXTENDS JudgePipeline, FiniteSetTheorems, SequenceTheorems, WellFoundedInduction, TLAPS

USE DEF store, local, vars, Goto, SetTodo, Hold

-----------------------------------------------------------------------------
(***************************************************************************)
(* Sequences of records.                                                   *)
(***************************************************************************)
LEMMA Widen ==
    ASSUME NEW S, NEW T, S \subseteq T, NEW s \in Seq(S)
    PROVE  s \in Seq(T)
<1>1. s \in [1..Len(s) -> S] /\ Len(s) \in Nat
  OBVIOUS
<1>2. s \in [1..Len(s) -> T]
  BY <1>1
<1> QED BY <1>1, <1>2, SeqDef

LEMMA ReplaceOne ==
    ASSUME NEW S, NEW s \in Seq(S), NEW i, NEW e \in S
    PROVE  /\ [s EXCEPT ![i] = e] \in Seq(S)
           /\ Len([s EXCEPT ![i] = e]) = Len(s)
           /\ DOMAIN [s EXCEPT ![i] = e] = DOMAIN s
<1> DEFINE t == [s EXCEPT ![i] = e]
<1>1. s \in [1..Len(s) -> S] /\ Len(s) \in Nat /\ DOMAIN s = 1..Len(s)
  OBVIOUS
<1>2. t \in [1..Len(s) -> S]
  BY <1>1
<1>3. t \in Seq(S)
  BY <1>1, <1>2, SeqDef
<1>4. DOMAIN t = 1..Len(s)
  BY <1>2
<1>5. Len(t) = Len(s)
  BY <1>1, <1>3, <1>4, LenProperties
<1> QED BY <1>1, <1>3, <1>4, <1>5

-----------------------------------------------------------------------------
(***************************************************************************)
(* The rows of the tables, and what one statement makes of them.           *)
(***************************************************************************)
\* The rows of the cascade, whatever the two sides said.
CascadeRows ==
    {ExactMatch} \cup [stage : {"ast"}, agree : {"yes", "no", "null"}, conflict : {FALSE},
                      lint : Outcomes, tests : Outcomes]

LEMMA JudgementTypes ==
    ASSUME NEW v \in Judgements
    PROVE  v \in CascadeRows
<1>1. LintSeen \subseteq Outcomes /\ TestsSeen \subseteq Outcomes /\ {"null", "failed"} \subseteq Outcomes
  BY OutcomesAssumption DEF Outcomes
<1>2. \A similarity, thresholds : Agree(similarity, thresholds) \in {"yes", "no", "null"}
  BY Zenon DEF Agree
<1>3. PICK e \in Exchanges : v \in Verify(e)
  BY DEF Judgements
<1>4. CASE v \in VerifyEditTurn(e)
  <2> DEFINE asked    == Worktree(e.frontier)
             replayed == Worktree(e.local)
             touched  == asked.touched \o replayed.touched
             first    == IF touched = <<>> THEN "" ELSE touched[1]
             language == IF first = "" THEN "" ELSE Language[first]
             agree    == Agree(MeanSimilarity(asked, replayed), ThresholdsFor(language, e.turnType))
             lint     == LintOutcomes(asked.failed \/ replayed.failed, ToSet(touched))
  <2>1. v \in [stage : {"ast"}, conflict : {FALSE}, agree : {agree},
              lint : lint, tests : TestOutcomes(first)]
    BY <1>4 DEF VerifyEditTurn
  <2>2. agree \in {"yes", "no", "null"}
    BY <1>2, Zenon
  <2>3. lint \subseteq Outcomes /\ TestOutcomes(first) \subseteq Outcomes
    BY <1>1 DEF LintOutcomes, TestOutcomes
  <2> HIDE DEF agree, lint, first
  <2> QED BY <2>1, <2>2, <2>3 DEF CascadeRows
<1>5. CASE v = VerifyText(e, ConcatenatedContent(e.frontier), ConcatenatedContent(e.local))
  BY <1>1, <1>2, <1>5 DEF VerifyText, CascadeRows
<1>6. CASE v = ExactMatch
  BY <1>6 DEF CascadeRows
<1> QED BY <1>3, <1>4, <1>5, <1>6, Zenon DEF Verify

\* The cascade decides by one of its first two stages.
LEMMA CascadeStages ==
    ASSUME NEW v \in Judgements
    PROVE  v.stage \in {"exact", "ast"} /\ (v.agree = "null" => v.stage = "ast")
<1>1. CASE v = ExactMatch
  BY <1>1 DEF ExactMatch
<1>2. CASE v \in [stage : {"ast"}, agree : {"yes", "no", "null"}, conflict : {FALSE},
                  lint : Outcomes, tests : Outcomes]
  BY <1>2
<1> QED BY <1>1, <1>2, JudgementTypes DEF CascadeRows

LEMMA StoredOutcomes ==
    ASSUME NEW v \in Verifications
    PROVE  v.lint \in Outcomes /\ v.tests \in Outcomes
<1>1. CASE v = NoVerification
  BY <1>1 DEF NoVerification, Outcomes
<1>2. CASE v \in Judgements
  <2>1. CASE v = ExactMatch
    BY <2>1 DEF ExactMatch, Outcomes
  <2>2. CASE v \in [stage : {"ast"}, agree : {"yes", "no", "null"}, conflict : {FALSE},
                    lint : Outcomes, tests : Outcomes]
    BY <2>2
  <2> QED BY <1>2, <2>1, <2>2, JudgementTypes DEF CascadeRows
<1>3. CASE v \in [stage : {"judge"}, agree : {"yes", "no"}, conflict : BOOLEAN,
                  lint : Outcomes, tests : Outcomes]
  BY <1>3
<1> QED BY <1>1, <1>2, <1>3 DEF Verifications

\* What the judge's answer does to a verification: the stored test outcomes
\* win, lint outcomes are never readable.
LEMMA ArbitrateRule ==
    ASSUME NEW v \in Verifications, NEW agrees \in BOOLEAN
    PROVE  \E yes, conflict \in BOOLEAN :
              /\ Arbitrate(v, agrees) = ByJudge(v, yes, conflict)
              /\ conflict <=> ~(yes <=> agrees)
              /\ IF v.tests # "null" THEN yes <=> v.tests = "ok" ELSE yes <=> agrees
<1>1. TestsAgree(v) \in BOOLEAN
  BY Zenon DEF TestsAgree
<1>2. ~Readable(v, "lint") /\ (Readable(v, "tests") <=> v.tests # "null")
  BY DEF Readable, Shape
<1>3. Known(v) <=> v.tests # "null"
  BY <1>2 DEF Known
<1>4. CASE Known(v)
  <2>1. TestsAgree(v) <=> v.tests = "ok"
    BY <1>2, <1>3, <1>4 DEF TestsAgree
  <2>2. (TestsAgree(v) # agrees) \in BOOLEAN
        /\ ((TestsAgree(v) # agrees) <=> ~(TestsAgree(v) <=> agrees))
    BY <1>1
  <2>3. Arbitrate(v, agrees) = ByJudge(v, TestsAgree(v), TestsAgree(v) # agrees)
    BY <1>4 DEF Arbitrate
  <2> QED BY <1>1, <1>3, <1>4, <2>1, <2>2, <2>3, Zenon
<1>5. CASE ~Known(v)
  BY <1>3, <1>5, Zenon DEF Arbitrate
<1> QED BY <1>4, <1>5

LEMMA ArbitrateType ==
    ASSUME NEW v \in Verifications, NEW agrees \in BOOLEAN
    PROVE  Arbitrate(v, agrees) \in Verifications
<1>1. PICK yes, conflict \in BOOLEAN : Arbitrate(v, agrees) = ByJudge(v, yes, conflict)
  BY ArbitrateRule
<1>2. ByJudge(v, yes, conflict)
         \in [stage : {"judge"}, agree : {"yes", "no"}, conflict : BOOLEAN,
              lint : Outcomes, tests : Outcomes]
  BY StoredOutcomes DEF ByJudge
<1> QED BY <1>1, <1>2 DEF Verifications

-----------------------------------------------------------------------------
(***************************************************************************)
(* The inductive invariant.  An answer the API has given is never taken    *)
(* back (Settled), and what a command has in hand between two statements   *)
(* still denotes what it denoted when it was read (InHand), whatever the   *)
(* other commands have done meanwhile.                                     *)
(***************************************************************************)
Settled ==
    \A b \in DOMAIN api :
        /\ api[b].state = "running" => \A c \in Calls : api[b].answer[c] = "none"
        /\ api[b].state # "running" => \A c \in api[b].calls : api[b].answer[c] \in AllAnswers

InHandOf(w) ==
    /\ at[w] \in Handling => current[w] \in Calls
    /\ at[w] = "insert" => batch[w] \in DOMAIN api
    /\ at[w] \in {"mark", "fetch", "apply", "decide"} => batch[w] \in DOMAIN rows
    /\ at[w] \in {"fetch", "apply", "decide"} => Batch(w).state # "running"
    /\ at[w] \in {"apply", "decide"} =>
          \A c \in todo[w] : Batch(w).answer[c] \in {"agree", "differ", "errored"}
    /\ at[w] = "decide" =>
          current[w] \in todo[w] /\ Batch(w).answer[current[w]] \in {"agree", "differ"}

InHand == \A w \in Runners : InHandOf(w)

Core == TypeOK /\ Settled /\ InHand

ApiGrows ==
    /\ Len(api) <= Len(api')
    /\ \A b \in DOMAIN api : /\ b \in DOMAIN api'
                             /\ api[b].state # "running" => /\ api'[b].state # "running"
                                                            /\ api'[b].answer = api[b].answer
RowsGrow ==
    /\ Len(rows) <= Len(rows')
    /\ \A i \in DOMAIN rows : i \in DOMAIN rows' /\ rows'[i].api = rows[i].api

StoreTypes ==
    /\ replay \in [Calls -> {"none", "error", "ok"}]
    /\ verification \in [Calls -> Verifications]
    /\ item \in [Calls -> Items]
LocalTypes ==
    /\ at \in [Runners -> Points]
    /\ todo \in [Runners -> SUBSET Calls]
    /\ current \in [Runners -> Calls \cup {None}]
    /\ pending \in [Runners -> SUBSET (DOMAIN rows)]
    /\ batch \in [Runners -> Nat]
    /\ faults \in 0..MaxFaults
TableTypes ==
    /\ rows \in Seq(Rows)
    /\ api \in Seq(Batches) /\ Len(api) <= MaxBatches

LEMMA TypeParts == TypeOK <=> StoreTypes /\ LocalTypes /\ TableTypes
BY DEF TypeOK, StoreTypes, LocalTypes, TableTypes

\* Types that mention a length survive the growth of the table.
LEMMA GrowthKeepsTypes ==
    ASSUME TypeOK, Len(api) \in Nat, Len(api') \in Nat, Len(api) <= Len(api'),
           Len(rows) \in Nat, Len(rows') \in Nat, Len(rows) <= Len(rows')
    PROVE  /\ Rows \subseteq Rows'
           /\ Items \subseteq Items'
           /\ UNCHANGED item => item' \in [Calls -> Items']
           /\ UNCHANGED rows => rows' \in Seq(Rows')
<1>1. 1..Len(api) \subseteq 1..Len(api') /\ 0..Len(rows) \subseteq 0..Len(rows')
  OBVIOUS
<1>2. Rows \subseteq Rows'
  BY <1>1 DEF Rows
<1>3. Items \subseteq Items'
  BY <1>1 DEF Items
<1>4. UNCHANGED item => item' \in [Calls -> Items']
  BY <1>3 DEF TypeOK
<1>5. UNCHANGED rows => rows' \in Seq(Rows')
  BY <1>2, Widen DEF TypeOK
<1> QED BY <1>2, <1>3, <1>4, <1>5

\* Every batch row denotes a batch of the API.
LEMMA RowsDenote ==
    ASSUME TypeOK, NEW i \in DOMAIN rows
    PROVE  rows[i] \in Rows /\ rows[i].api \in DOMAIN api /\ api[rows[i].api] \in Batches
<1>1. rows[i] \in Rows
  BY DEF TypeOK
<1>2. rows[i].api \in DOMAIN api
  BY <1>1 DEF TypeOK, Rows
<1> QED BY <1>1, <1>2 DEF TypeOK

\* The steps that leave the API and the batch rows alone.
LEMMA SameTables ==
    ASSUME TypeOK, UNCHANGED <<rows, api>>
    PROVE  /\ TableTypes' /\ ApiGrows /\ RowsGrow
           /\ Items' = Items
           /\ Settled => Settled'
BY DEF TypeOK, TableTypes, Rows, Batches, Items, ApiGrows, RowsGrow, Settled

\* A command is not disturbed by the step of another one, or of the API.
LEMMA NotDisturbed ==
    ASSUME TypeOK, TypeOK', ApiGrows, RowsGrow, NEW v \in Runners, InHandOf(v),
           at'[v] = at[v], todo'[v] = todo[v], current'[v] = current[v], batch'[v] = batch[v]
    PROVE  InHandOf(v)'
<1>1. ASSUME batch[v] \in DOMAIN rows
      PROVE  /\ batch'[v] \in DOMAIN rows' /\ rows'[batch'[v]].api = rows[batch[v]].api
             /\ rows[batch[v]].api \in DOMAIN api
  BY <1>1, RowsDenote DEF RowsGrow
<1>2. ASSUME batch[v] \in DOMAIN rows, Batch(v).state # "running"
      PROVE  Batch(v)'.state # "running" /\ Batch(v)'.answer = Batch(v).answer
  BY <1>1, <1>2 DEF ApiGrows, Batch
<1>3. at[v] = "insert" => batch'[v] \in DOMAIN api'
  BY DEF InHandOf, ApiGrows
<1>4. at[v] \in {"mark", "fetch", "apply", "decide"} => batch'[v] \in DOMAIN rows'
  BY <1>1 DEF InHandOf
<1>5. at[v] \in {"fetch", "apply", "decide"} =>
         Batch(v)'.state # "running" /\ Batch(v)'.answer = Batch(v).answer
  BY <1>2 DEF InHandOf
<1> QED BY <1>3, <1>4, <1>5 DEF InHandOf, Handling

\* The steps of a command that leave the API and the batch rows alone keep the
\* invariant if they keep the types of the rest and their own command's part.
LEMMA LocalStep ==
    ASSUME Core, UNCHANGED <<rows, api>>, StoreTypes', LocalTypes', NEW w \in Runners,
           InHandOf(w)',
           \A v \in Runners \ {w} : /\ at'[v] = at[v] /\ todo'[v] = todo[v]
                                    /\ current'[v] = current[v] /\ batch'[v] = batch[v]
    PROVE  Core' /\ ApiGrows /\ RowsGrow
<1>1. TypeOK' /\ ApiGrows /\ RowsGrow /\ Settled'
  BY SameTables, TypeParts DEF Core, TypeOK, StoreTypes, LocalTypes, TableTypes
<1>2. ASSUME NEW v \in Runners PROVE InHandOf(v)'
  BY <1>1, NotDisturbed DEF Core, InHand
<1> QED BY <1>1, <1>2 DEF Core, InHand

LEMMA SelectCandidatesKeeps ==
    ASSUME Core, NEW w \in Runners, SelectCandidates(w)
    PROVE  Core' /\ ApiGrows /\ RowsGrow
<1>0. UNCHANGED <<rows, api>> /\ StoreTypes /\ LocalTypes /\ InHandOf(w)
  BY TypeParts DEF Core, InHand, SelectCandidates
<1>1. Items' = Items
  BY <1>0 DEF Items
<1>2. StoreTypes'
  BY <1>0, <1>1 DEF StoreTypes, SelectCandidates
<1>3. LocalTypes'
  <2>1. at' \in [Runners -> Points]
    BY <1>0 DEF LocalTypes, Points, NextCandidate, NextBatch, SelectCandidates
  <2>2. todo' \in [Runners -> SUBSET Calls]
    BY <1>0 DEF LocalTypes, NextCandidate, NextBatch, SelectCandidates
  <2>3. current' \in [Runners -> Calls \cup {None}]
    BY <1>0 DEF LocalTypes, NextCandidate, NextBatch, SelectCandidates
  <2>4. pending' \in [Runners -> SUBSET (DOMAIN rows')]
    BY <1>0 DEF LocalTypes, NextCandidate, NextBatch, SelectCandidates
  <2>5. batch' \in [Runners -> Nat] /\ faults' \in 0..MaxFaults
    BY <1>0 DEF LocalTypes, NextCandidate, NextBatch, SelectCandidates
  <2> QED BY <2>1, <2>2, <2>3, <2>4, <2>5 DEF LocalTypes
<1>4. InHandOf(w)'
  BY <1>0 DEF LocalTypes, InHandOf, Handling, Batch, NextCandidate, NextBatch, SelectCandidates
<1>5. \A v \in Runners \ {w} : /\ at'[v] = at[v] /\ todo'[v] = todo[v]
                                 /\ current'[v] = current[v] /\ batch'[v] = batch[v]
  BY <1>0 DEF LocalTypes, NextCandidate, NextBatch, SelectCandidates
<1> QED BY <1>0, <1>1, <1>2, <1>3, <1>4, <1>5, LocalStep

LEMMA SendReplayKeeps ==
    ASSUME Core, NEW w \in Runners, SendReplay(w)
    PROVE  Core' /\ ApiGrows /\ RowsGrow
<1>0. UNCHANGED <<rows, api>> /\ StoreTypes /\ LocalTypes /\ InHandOf(w)
  BY TypeParts DEF Core, InHand, SendReplay
<1>1. Items' = Items
  BY <1>0 DEF Items
<1>2. StoreTypes'
  BY <1>0, <1>1 DEF StoreTypes, LocalTypes, SendReplay, InsertReplay
<1>3. LocalTypes'
  <2>1. at' \in [Runners -> Points]
    BY <1>0 DEF LocalTypes, Points, NextCandidate, NextBatch, SendReplay
  <2>2. todo' \in [Runners -> SUBSET Calls]
    BY <1>0 DEF LocalTypes, NextCandidate, NextBatch, SendReplay
  <2>3. current' \in [Runners -> Calls \cup {None}]
    BY <1>0 DEF LocalTypes, NextCandidate, NextBatch, SendReplay
  <2>4. pending' \in [Runners -> SUBSET (DOMAIN rows')]
    BY <1>0 DEF LocalTypes, NextCandidate, NextBatch, SendReplay
  <2>5. batch' \in [Runners -> Nat] /\ faults' \in 0..MaxFaults
    BY <1>0 DEF LocalTypes, NextCandidate, NextBatch, SendReplay
  <2> QED BY <2>1, <2>2, <2>3, <2>4, <2>5 DEF LocalTypes
<1>4. InHandOf(w)'
  BY <1>0 DEF LocalTypes, InHandOf, Handling, Batch, NextCandidate, NextBatch, SendReplay
<1>5. \A v \in Runners \ {w} : /\ at'[v] = at[v] /\ todo'[v] = todo[v]
                                 /\ current'[v] = current[v] /\ batch'[v] = batch[v]
  BY <1>0 DEF LocalTypes, NextCandidate, NextBatch, SendReplay
<1> QED BY <1>0, <1>1, <1>2, <1>3, <1>4, <1>5, LocalStep

LEMMA RecordReplayKeeps ==
    ASSUME Core, NEW w \in Runners, RecordReplay(w)
    PROVE  Core' /\ ApiGrows /\ RowsGrow
<1>0. UNCHANGED <<rows, api>> /\ StoreTypes /\ LocalTypes /\ InHandOf(w)
  BY TypeParts DEF Core, InHand, RecordReplay
<1>1. Items' = Items
  BY <1>0 DEF Items
<1>2. StoreTypes'
  <2>1. current[w] \in Calls
    BY <1>0 DEF InHandOf, Handling, RecordReplay
  <2>2. replay' \in [Calls -> {"none", "error", "ok"}]
    BY <1>0, <2>1 DEF StoreTypes, RecordReplay, InsertReplay
  <2> QED BY <1>0, <1>1, <2>2 DEF StoreTypes, RecordReplay
<1>3. LocalTypes'
  <2>1. at' \in [Runners -> Points]
    BY <1>0 DEF LocalTypes, Points, NextCandidate, NextBatch, RecordReplay
  <2>2. todo' \in [Runners -> SUBSET Calls]
    BY <1>0 DEF LocalTypes, NextCandidate, NextBatch, RecordReplay
  <2>3. current' \in [Runners -> Calls \cup {None}]
    BY <1>0 DEF LocalTypes, NextCandidate, NextBatch, RecordReplay
  <2>4. pending' \in [Runners -> SUBSET (DOMAIN rows')]
    BY <1>0 DEF LocalTypes, NextCandidate, NextBatch, RecordReplay
  <2>5. batch' \in [Runners -> Nat] /\ faults' \in 0..MaxFaults
    BY <1>0 DEF LocalTypes, NextCandidate, NextBatch, RecordReplay
  <2> QED BY <2>1, <2>2, <2>3, <2>4, <2>5 DEF LocalTypes
<1>4. InHandOf(w)'
  BY <1>0 DEF LocalTypes, InHandOf, Handling, Batch, NextCandidate, NextBatch, RecordReplay
<1>5. \A v \in Runners \ {w} : /\ at'[v] = at[v] /\ todo'[v] = todo[v]
                                 /\ current'[v] = current[v] /\ batch'[v] = batch[v]
  BY <1>0 DEF LocalTypes, NextCandidate, NextBatch, RecordReplay
<1> QED BY <1>0, <1>1, <1>2, <1>3, <1>4, <1>5, LocalStep

LEMMA RunCascadeKeeps ==
    ASSUME Core, NEW w \in Runners, RunCascade(w)
    PROVE  Core' /\ ApiGrows /\ RowsGrow
<1>0. UNCHANGED <<rows, api>> /\ StoreTypes /\ LocalTypes /\ InHandOf(w)
  BY TypeParts DEF Core, InHand, RunCascade
<1>1. Items' = Items
  BY <1>0 DEF Items
<1>2. StoreTypes'
  <2>1. PICK v \in Judgements : verification' = [verification EXCEPT ![current[w]] = v]
    BY DEF RunCascade
  <2>2. verification' \in [Calls -> Verifications]
    BY <1>0, <2>1 DEF StoreTypes, Verifications
  <2> QED BY <1>0, <1>1, <2>2 DEF StoreTypes, RunCascade
<1>3. LocalTypes'
  <2>1. at' \in [Runners -> Points]
    BY <1>0 DEF LocalTypes, Points, NextCandidate, NextBatch, RunCascade
  <2>2. todo' \in [Runners -> SUBSET Calls]
    BY <1>0 DEF LocalTypes, NextCandidate, NextBatch, RunCascade
  <2>3. current' \in [Runners -> Calls \cup {None}]
    BY <1>0 DEF LocalTypes, NextCandidate, NextBatch, RunCascade
  <2>4. pending' \in [Runners -> SUBSET (DOMAIN rows')]
    BY <1>0 DEF LocalTypes, NextCandidate, NextBatch, RunCascade
  <2>5. batch' \in [Runners -> Nat] /\ faults' \in 0..MaxFaults
    BY <1>0 DEF LocalTypes, NextCandidate, NextBatch, RunCascade
  <2> QED BY <2>1, <2>2, <2>3, <2>4, <2>5 DEF LocalTypes
<1>4. InHandOf(w)'
  BY <1>0 DEF LocalTypes, InHandOf, Handling, Batch, NextCandidate, NextBatch, RunCascade
<1>5. \A v \in Runners \ {w} : /\ at'[v] = at[v] /\ todo'[v] = todo[v]
                                 /\ current'[v] = current[v] /\ batch'[v] = batch[v]
  BY <1>0 DEF LocalTypes, NextCandidate, NextBatch, RunCascade
<1> QED BY <1>0, <1>1, <1>2, <1>3, <1>4, <1>5, LocalStep

LEMMA InsertJudgeItemKeeps ==
    ASSUME Core, NEW w \in Runners, InsertJudgeItem(w)
    PROVE  Core' /\ ApiGrows /\ RowsGrow
<1>0. UNCHANGED <<rows, api>> /\ StoreTypes /\ LocalTypes /\ InHandOf(w)
  BY TypeParts DEF Core, InHand, InsertJudgeItem
<1>1. Items' = Items
  BY <1>0 DEF Items
<1>2. StoreTypes'
  <2>1. [status |-> "queued", named |-> FALSE, row |-> 0] \in Items
    BY DEF Core, TypeOK, Items
  <2>2. item' \in [Calls -> Items]
    BY <1>0, <2>1 DEF StoreTypes, InsertJudgeItem
  <2> QED BY <1>0, <1>1, <2>2 DEF StoreTypes, InsertJudgeItem
<1>3. LocalTypes'
  <2>1. at' \in [Runners -> Points]
    BY <1>0 DEF LocalTypes, Points, NextCandidate, NextBatch, InsertJudgeItem
  <2>2. todo' \in [Runners -> SUBSET Calls]
    BY <1>0 DEF LocalTypes, NextCandidate, NextBatch, InsertJudgeItem
  <2>3. current' \in [Runners -> Calls \cup {None}]
    BY <1>0 DEF LocalTypes, NextCandidate, NextBatch, InsertJudgeItem
  <2>4. pending' \in [Runners -> SUBSET (DOMAIN rows')]
    BY <1>0 DEF LocalTypes, NextCandidate, NextBatch, InsertJudgeItem
  <2>5. batch' \in [Runners -> Nat] /\ faults' \in 0..MaxFaults
    BY <1>0 DEF LocalTypes, NextCandidate, NextBatch, InsertJudgeItem
  <2> QED BY <2>1, <2>2, <2>3, <2>4, <2>5 DEF LocalTypes
<1>4. InHandOf(w)'
  BY <1>0 DEF LocalTypes, InHandOf, Handling, Batch, NextCandidate, NextBatch, InsertJudgeItem
<1>5. \A v \in Runners \ {w} : /\ at'[v] = at[v] /\ todo'[v] = todo[v]
                                 /\ current'[v] = current[v] /\ batch'[v] = batch[v]
  BY <1>0 DEF LocalTypes, NextCandidate, NextBatch, InsertJudgeItem
<1> QED BY <1>0, <1>1, <1>2, <1>3, <1>4, <1>5, LocalStep

LEMMA NameJudgeItemKeeps ==
    ASSUME Core, NEW w \in Runners, NameJudgeItem(w)
    PROVE  Core' /\ ApiGrows /\ RowsGrow
<1>0. UNCHANGED <<rows, api>> /\ StoreTypes /\ LocalTypes /\ InHandOf(w)
  BY TypeParts DEF Core, InHand, NameJudgeItem
<1>1. Items' = Items
  BY <1>0 DEF Items
<1>2. StoreTypes'
  <2>1. current[w] \in Calls => [item[current[w]] EXCEPT !.named = TRUE] \in Items
    BY <1>0 DEF StoreTypes, Items
  <2>2. item' = [item EXCEPT ![current[w]] = [item[current[w]] EXCEPT !.named = TRUE]]
    BY DEF NameJudgeItem
  <2>3. item' \in [Calls -> Items]
    BY <1>0, <2>1, <2>2 DEF StoreTypes
  <2> QED BY <1>0, <1>1, <2>3 DEF StoreTypes, NameJudgeItem
<1>3. LocalTypes'
  <2>1. at' \in [Runners -> Points]
    BY <1>0 DEF LocalTypes, Points, NextCandidate, NextBatch, NameJudgeItem
  <2>2. todo' \in [Runners -> SUBSET Calls]
    BY <1>0 DEF LocalTypes, NextCandidate, NextBatch, NameJudgeItem
  <2>3. current' \in [Runners -> Calls \cup {None}]
    BY <1>0 DEF LocalTypes, NextCandidate, NextBatch, NameJudgeItem
  <2>4. pending' \in [Runners -> SUBSET (DOMAIN rows')]
    BY <1>0 DEF LocalTypes, NextCandidate, NextBatch, NameJudgeItem
  <2>5. batch' \in [Runners -> Nat] /\ faults' \in 0..MaxFaults
    BY <1>0 DEF LocalTypes, NextCandidate, NextBatch, NameJudgeItem
  <2> QED BY <2>1, <2>2, <2>3, <2>4, <2>5 DEF LocalTypes
<1>4. InHandOf(w)'
  BY <1>0 DEF LocalTypes, InHandOf, Handling, Batch, NextCandidate, NextBatch, NameJudgeItem
<1>5. \A v \in Runners \ {w} : /\ at'[v] = at[v] /\ todo'[v] = todo[v]
                                 /\ current'[v] = current[v] /\ batch'[v] = batch[v]
  BY <1>0 DEF LocalTypes, NextCandidate, NextBatch, NameJudgeItem
<1> QED BY <1>0, <1>1, <1>2, <1>3, <1>4, <1>5, LocalStep

LEMMA SkipCandidateKeeps ==
    ASSUME Core, NEW w \in Runners, SkipCandidate(w)
    PROVE  Core' /\ ApiGrows /\ RowsGrow
<1>0. UNCHANGED <<rows, api>> /\ StoreTypes /\ LocalTypes /\ InHandOf(w)
  BY TypeParts DEF Core, InHand, SkipCandidate
<1>1. Items' = Items
  BY <1>0 DEF Items
<1>2. StoreTypes'
  BY <1>0, <1>1 DEF StoreTypes, SkipCandidate
<1>3. LocalTypes'
  <2>1. at' \in [Runners -> Points]
    BY <1>0 DEF LocalTypes, Points, NextCandidate, NextBatch, SkipCandidate
  <2>2. todo' \in [Runners -> SUBSET Calls]
    BY <1>0 DEF LocalTypes, NextCandidate, NextBatch, SkipCandidate
  <2>3. current' \in [Runners -> Calls \cup {None}]
    BY <1>0 DEF LocalTypes, NextCandidate, NextBatch, SkipCandidate
  <2>4. pending' \in [Runners -> SUBSET (DOMAIN rows')]
    BY <1>0 DEF LocalTypes, NextCandidate, NextBatch, SkipCandidate
  <2>5. batch' \in [Runners -> Nat] /\ faults' \in 0..MaxFaults
    BY <1>0, BoundsAssumption DEF LocalTypes, SkipCandidate
  <2> QED BY <2>1, <2>2, <2>3, <2>4, <2>5 DEF LocalTypes
<1>4. InHandOf(w)'
  BY <1>0 DEF LocalTypes, InHandOf, Handling, Batch, NextCandidate, NextBatch, SkipCandidate
<1>5. \A v \in Runners \ {w} : /\ at'[v] = at[v] /\ todo'[v] = todo[v]
                                 /\ current'[v] = current[v] /\ batch'[v] = batch[v]
  BY <1>0 DEF LocalTypes, NextCandidate, NextBatch, SkipCandidate
<1> QED BY <1>0, <1>1, <1>2, <1>3, <1>4, <1>5, LocalStep

LEMMA SubmitReadKeeps ==
    ASSUME Core, NEW w \in Runners, SubmitRead(w)
    PROVE  Core' /\ ApiGrows /\ RowsGrow
<1>0. UNCHANGED <<rows, api>> /\ StoreTypes /\ LocalTypes /\ InHandOf(w)
  BY TypeParts DEF Core, InHand, SubmitRead
<1>1. Items' = Items
  BY <1>0 DEF Items
<1>2. StoreTypes'
  BY <1>0, <1>1 DEF StoreTypes, SubmitRead
<1>3. LocalTypes'
  <2>1. at' \in [Runners -> Points]
    BY <1>0 DEF LocalTypes, Points, NextCandidate, NextBatch, SubmitRead
  <2>2. todo' \in [Runners -> SUBSET Calls]
    BY <1>0 DEF LocalTypes, SubmitRead, QueuedItems
  <2>3. current' \in [Runners -> Calls \cup {None}]
    BY <1>0 DEF LocalTypes, NextCandidate, NextBatch, SubmitRead
  <2>4. pending' \in [Runners -> SUBSET (DOMAIN rows')]
    BY <1>0 DEF LocalTypes, NextCandidate, NextBatch, SubmitRead
  <2>5. batch' \in [Runners -> Nat] /\ faults' \in 0..MaxFaults
    BY <1>0 DEF LocalTypes, NextCandidate, NextBatch, SubmitRead
  <2> QED BY <2>1, <2>2, <2>3, <2>4, <2>5 DEF LocalTypes
<1>4. InHandOf(w)'
  BY <1>0 DEF LocalTypes, InHandOf, Handling, Batch, NextCandidate, NextBatch, SubmitRead
<1>5. \A v \in Runners \ {w} : /\ at'[v] = at[v] /\ todo'[v] = todo[v]
                                 /\ current'[v] = current[v] /\ batch'[v] = batch[v]
  BY <1>0 DEF LocalTypes, NextCandidate, NextBatch, SubmitRead
<1> QED BY <1>0, <1>1, <1>2, <1>3, <1>4, <1>5, LocalStep

LEMMA MarkItemKeeps ==
    ASSUME Core, NEW w \in Runners, MarkItem(w)
    PROVE  Core' /\ ApiGrows /\ RowsGrow
<1>0. UNCHANGED <<rows, api>> /\ StoreTypes /\ LocalTypes /\ InHandOf(w)
  BY TypeParts DEF Core, InHand, MarkItem
<1>1. Items' = Items
  BY <1>0 DEF Items
<1>2. StoreTypes'
  <2>1. PICK c \in todo[w] :
           item' = [item EXCEPT ![c] = [item[c] EXCEPT !.status = "submitted", !.row = batch[w]]]
    BY DEF MarkItem
  <2>2. batch[w] \in 0..Len(rows)
    BY <1>0 DEF InHandOf, MarkItem, Core, TypeOK
  <2>3. c \in Calls => [item[c] EXCEPT !.status = "submitted", !.row = batch[w]] \in Items
    BY <1>0, <2>2 DEF StoreTypes, Items
  <2>4. item' \in [Calls -> Items]
    BY <1>0, <2>1, <2>3 DEF StoreTypes
  <2> QED BY <1>0, <1>1, <2>4 DEF StoreTypes, MarkItem
<1>3. LocalTypes'
  <2>1. at' \in [Runners -> Points]
    BY <1>0 DEF LocalTypes, Points, NextCandidate, NextBatch, MarkItem
  <2>2. todo' \in [Runners -> SUBSET Calls]
    BY <1>0 DEF LocalTypes, NextCandidate, NextBatch, MarkItem
  <2>3. current' \in [Runners -> Calls \cup {None}]
    BY <1>0 DEF LocalTypes, NextCandidate, NextBatch, MarkItem
  <2>4. pending' \in [Runners -> SUBSET (DOMAIN rows')]
    BY <1>0 DEF LocalTypes, NextCandidate, NextBatch, MarkItem
  <2>5. batch' \in [Runners -> Nat] /\ faults' \in 0..MaxFaults
    BY <1>0 DEF LocalTypes, NextCandidate, NextBatch, MarkItem
  <2> QED BY <2>1, <2>2, <2>3, <2>4, <2>5 DEF LocalTypes
<1>4. InHandOf(w)'
  BY <1>0 DEF LocalTypes, InHandOf, Handling, Batch, NextCandidate, NextBatch, MarkItem
<1>5. \A v \in Runners \ {w} : /\ at'[v] = at[v] /\ todo'[v] = todo[v]
                                 /\ current'[v] = current[v] /\ batch'[v] = batch[v]
  BY <1>0 DEF LocalTypes, NextCandidate, NextBatch, MarkItem
<1> QED BY <1>0, <1>1, <1>2, <1>3, <1>4, <1>5, LocalStep

LEMMA PollReadKeeps ==
    ASSUME Core, NEW w \in Runners, PollRead(w)
    PROVE  Core' /\ ApiGrows /\ RowsGrow
<1>0. UNCHANGED <<rows, api>> /\ StoreTypes /\ LocalTypes /\ InHandOf(w)
  BY TypeParts DEF Core, InHand, PollRead
<1>1. Items' = Items
  BY <1>0 DEF Items
<1>2. StoreTypes'
  BY <1>0, <1>1 DEF StoreTypes, PollRead
<1>3. LocalTypes'
  <2>1. at' \in [Runners -> Points]
    BY <1>0 DEF LocalTypes, Points, NextCandidate, NextBatch, PollRead
  <2>2. todo' \in [Runners -> SUBSET Calls]
    BY <1>0 DEF LocalTypes, NextCandidate, NextBatch, PollRead
  <2>3. current' \in [Runners -> Calls \cup {None}]
    BY <1>0 DEF LocalTypes, NextCandidate, NextBatch, PollRead
  <2>4. pending' \in [Runners -> SUBSET (DOMAIN rows')]
    BY <1>0 DEF LocalTypes, PollRead, PendingBatches
  <2>5. batch' \in [Runners -> Nat] /\ faults' \in 0..MaxFaults
    BY <1>0 DEF LocalTypes, NextCandidate, NextBatch, PollRead
  <2> QED BY <2>1, <2>2, <2>3, <2>4, <2>5 DEF LocalTypes
<1>4. InHandOf(w)'
  BY <1>0 DEF LocalTypes, InHandOf, Handling, Batch, NextCandidate, NextBatch, PollRead
<1>5. \A v \in Runners \ {w} : /\ at'[v] = at[v] /\ todo'[v] = todo[v]
                                 /\ current'[v] = current[v] /\ batch'[v] = batch[v]
  BY <1>0 DEF LocalTypes, NextCandidate, NextBatch, PollRead
<1> QED BY <1>0, <1>1, <1>2, <1>3, <1>4, <1>5, LocalStep

LEMMA PollBatchKeeps ==
    ASSUME Core, NEW w \in Runners, PollBatch(w)
    PROVE  Core' /\ ApiGrows /\ RowsGrow
<1>0. UNCHANGED <<rows, api>> /\ StoreTypes /\ LocalTypes /\ InHandOf(w)
  BY TypeParts DEF Core, InHand, PollBatch
<1>1. Items' = Items
  BY <1>0 DEF Items
<1>2. StoreTypes'
  BY <1>0, <1>1 DEF StoreTypes, PollBatch
<1>3. LocalTypes'
  <2>1. at' \in [Runners -> Points]
    BY <1>0 DEF LocalTypes, Points, NextCandidate, NextBatch, PollBatch
  <2>2. todo' \in [Runners -> SUBSET Calls]
    BY <1>0 DEF LocalTypes, NextCandidate, NextBatch, PollBatch
  <2>3. current' \in [Runners -> Calls \cup {None}]
    BY <1>0 DEF LocalTypes, NextCandidate, NextBatch, PollBatch
  <2>4. pending' \in [Runners -> SUBSET (DOMAIN rows')]
    BY <1>0 DEF LocalTypes, NextCandidate, NextBatch, PollBatch
  <2>5. batch' \in [Runners -> Nat] /\ faults' \in 0..MaxFaults
    <3>1. DOMAIN rows \subseteq Nat
      BY DEF Core, TypeOK
    <3> QED BY <1>0, <3>1 DEF LocalTypes, NextBatch, PollBatch
  <2> QED BY <2>1, <2>2, <2>3, <2>4, <2>5 DEF LocalTypes
<1>4. InHandOf(w)'
  BY <1>0 DEF LocalTypes, InHandOf, Handling, Batch, NextCandidate, NextBatch, PollBatch
<1>5. \A v \in Runners \ {w} : /\ at'[v] = at[v] /\ todo'[v] = todo[v]
                                 /\ current'[v] = current[v] /\ batch'[v] = batch[v]
  BY <1>0 DEF LocalTypes, NextCandidate, NextBatch, PollBatch
<1> QED BY <1>0, <1>1, <1>2, <1>3, <1>4, <1>5, LocalStep

LEMMA FetchResultsKeeps ==
    ASSUME Core, NEW w \in Runners, FetchResults(w)
    PROVE  Core' /\ ApiGrows /\ RowsGrow
<1>0. UNCHANGED <<rows, api>> /\ StoreTypes /\ LocalTypes /\ InHandOf(w)
  BY TypeParts DEF Core, InHand, FetchResults
<1>1. Items' = Items
  BY <1>0 DEF Items
<1>2. StoreTypes'
  BY <1>0, <1>1 DEF StoreTypes, FetchResults
<1>3. LocalTypes'
  <2>1. at' \in [Runners -> Points]
    BY <1>0 DEF LocalTypes, Points, NextCandidate, NextBatch, FetchResults
  <2>2. todo' \in [Runners -> SUBSET Calls]
    <3>1. batch[w] \in DOMAIN rows
      BY <1>0 DEF InHandOf, FetchResults
    <3>2. Batch(w) \in Batches
      BY <3>1, RowsDenote DEF Core, Batch
    <3>3. MatchedLines(w) \subseteq Calls
      BY <3>2 DEF MatchedLines, Batches
    <3> QED BY <1>0, <3>3 DEF LocalTypes, FetchResults
  <2>3. current' \in [Runners -> Calls \cup {None}]
    BY <1>0 DEF LocalTypes, NextCandidate, NextBatch, FetchResults
  <2>4. pending' \in [Runners -> SUBSET (DOMAIN rows')]
    BY <1>0 DEF LocalTypes, NextCandidate, NextBatch, FetchResults
  <2>5. batch' \in [Runners -> Nat] /\ faults' \in 0..MaxFaults
    BY <1>0 DEF LocalTypes, NextCandidate, NextBatch, FetchResults
  <2> QED BY <2>1, <2>2, <2>3, <2>4, <2>5 DEF LocalTypes
<1>4. InHandOf(w)'
  <2>1. batch[w] \in DOMAIN rows /\ Batch(w).state # "running"
    BY <1>0 DEF InHandOf, FetchResults
  <2>2. rows[batch[w]].api \in DOMAIN api
    BY <2>1, RowsDenote DEF Core
  <2>3. \A c \in Batch(w).calls : Batch(w).answer[c] \in AllAnswers
    BY <2>1, <2>2 DEF Core, Settled, Batch
  <2>4. \A c \in MatchedLines(w) : Batch(w).answer[c] \in {"agree", "differ", "errored"}
    BY <2>3 DEF MatchedLines, AllAnswers
  <2>5. at'[w] = "apply" /\ todo'[w] = MatchedLines(w) /\ batch'[w] = batch[w]
        /\ Batch(w)' = Batch(w)
    BY <1>0 DEF LocalTypes, FetchResults, Batch
  <2> QED BY <2>1, <2>4, <2>5, <1>0 DEF InHandOf, Handling, FetchResults
<1>5. \A v \in Runners \ {w} : /\ at'[v] = at[v] /\ todo'[v] = todo[v]
                                 /\ current'[v] = current[v] /\ batch'[v] = batch[v]
  BY <1>0 DEF LocalTypes, NextCandidate, NextBatch, FetchResults
<1> QED BY <1>0, <1>1, <1>2, <1>3, <1>4, <1>5, LocalStep

LEMMA ApplyResultKeeps ==
    ASSUME Core, NEW w \in Runners, ApplyResult(w)
    PROVE  Core' /\ ApiGrows /\ RowsGrow
<1>0. UNCHANGED <<rows, api>> /\ StoreTypes /\ LocalTypes /\ InHandOf(w)
  BY TypeParts DEF Core, InHand, ApplyResult
<1>1. Items' = Items
  BY <1>0 DEF Items
<1>2. StoreTypes'
  <2>1. PICK c \in todo[w], status \in {"errored", "done"} :
           item' = [item EXCEPT ![c] = [item[c] EXCEPT !.status = status]]
    BY DEF ApplyResult
  <2>2. c \in Calls => [item[c] EXCEPT !.status = status] \in Items
    BY <1>0 DEF StoreTypes, Items
  <2>3. item' \in [Calls -> Items]
    BY <1>0, <2>1, <2>2 DEF StoreTypes
  <2> QED BY <1>0, <1>1, <2>3 DEF StoreTypes, ApplyResult
<1>3. LocalTypes'
  <2>1. at' \in [Runners -> Points]
    BY <1>0 DEF LocalTypes, Points, NextCandidate, NextBatch, ApplyResult
  <2>2. todo' \in [Runners -> SUBSET Calls]
    BY <1>0 DEF LocalTypes, NextCandidate, NextBatch, ApplyResult
  <2>3. current' \in [Runners -> Calls \cup {None}]
    BY <1>0 DEF LocalTypes, NextCandidate, NextBatch, ApplyResult
  <2>4. pending' \in [Runners -> SUBSET (DOMAIN rows')]
    BY <1>0 DEF LocalTypes, NextCandidate, NextBatch, ApplyResult
  <2>5. batch' \in [Runners -> Nat] /\ faults' \in 0..MaxFaults
    BY <1>0 DEF LocalTypes, NextCandidate, NextBatch, ApplyResult
  <2> QED BY <2>1, <2>2, <2>3, <2>4, <2>5 DEF LocalTypes
<1>4. InHandOf(w)'
  BY <1>0 DEF LocalTypes, InHandOf, Handling, Batch, NextCandidate, NextBatch, ApplyResult
<1>5. \A v \in Runners \ {w} : /\ at'[v] = at[v] /\ todo'[v] = todo[v]
                                 /\ current'[v] = current[v] /\ batch'[v] = batch[v]
  BY <1>0 DEF LocalTypes, NextCandidate, NextBatch, ApplyResult
<1> QED BY <1>0, <1>1, <1>2, <1>3, <1>4, <1>5, LocalStep

LEMMA ApplyVerdictKeeps ==
    ASSUME Core, NEW w \in Runners, ApplyVerdict(w)
    PROVE  Core' /\ ApiGrows /\ RowsGrow
<1>0. UNCHANGED <<rows, api>> /\ StoreTypes /\ LocalTypes /\ InHandOf(w)
  BY TypeParts DEF Core, InHand, ApplyVerdict
<1>1. Items' = Items
  BY <1>0 DEF Items
<1>2. StoreTypes'
  <2> DEFINE agrees == Batch(w).answer[current[w]] = "agree"
  <2>1. verification' = [verification EXCEPT ![current[w]] =
                            Arbitrate(verification[current[w]], agrees)]
    BY DEF ApplyVerdict
  <2>2. current[w] \in Calls => Arbitrate(verification[current[w]], agrees) \in Verifications
    BY <1>0, ArbitrateType DEF StoreTypes
  <2>3. verification' \in [Calls -> Verifications]
    BY <1>0, <2>1, <2>2 DEF StoreTypes
  <2> QED BY <1>0, <1>1, <2>3 DEF StoreTypes, ApplyVerdict
<1>3. LocalTypes'
  <2>1. at' \in [Runners -> Points]
    BY <1>0 DEF LocalTypes, Points, NextCandidate, NextBatch, ApplyVerdict
  <2>2. todo' \in [Runners -> SUBSET Calls]
    BY <1>0 DEF LocalTypes, NextCandidate, NextBatch, ApplyVerdict
  <2>3. current' \in [Runners -> Calls \cup {None}]
    BY <1>0 DEF LocalTypes, NextCandidate, NextBatch, ApplyVerdict
  <2>4. pending' \in [Runners -> SUBSET (DOMAIN rows')]
    BY <1>0 DEF LocalTypes, NextCandidate, NextBatch, ApplyVerdict
  <2>5. batch' \in [Runners -> Nat] /\ faults' \in 0..MaxFaults
    BY <1>0 DEF LocalTypes, NextCandidate, NextBatch, ApplyVerdict
  <2> QED BY <2>1, <2>2, <2>3, <2>4, <2>5 DEF LocalTypes
<1>4. InHandOf(w)'
  BY <1>0 DEF LocalTypes, InHandOf, Handling, Batch, NextCandidate, NextBatch, ApplyVerdict
<1>5. \A v \in Runners \ {w} : /\ at'[v] = at[v] /\ todo'[v] = todo[v]
                                 /\ current'[v] = current[v] /\ batch'[v] = batch[v]
  BY <1>0 DEF LocalTypes, NextCandidate, NextBatch, ApplyVerdict
<1> QED BY <1>0, <1>1, <1>2, <1>3, <1>4, <1>5, LocalStep

LEMMA AbortKeeps ==
    ASSUME Core, NEW w \in Runners, Abort(w)
    PROVE  Core' /\ ApiGrows /\ RowsGrow
<1>0. UNCHANGED <<rows, api>> /\ StoreTypes /\ LocalTypes /\ InHandOf(w)
  BY TypeParts DEF Core, InHand, Abort
<1>1. Items' = Items
  BY <1>0 DEF Items
<1>2. StoreTypes'
  BY <1>0, <1>1 DEF StoreTypes, Abort
<1>3. LocalTypes'
  <2>1. at' \in [Runners -> Points]
    BY <1>0 DEF LocalTypes, Points, NextCandidate, NextBatch, Abort
  <2>2. todo' \in [Runners -> SUBSET Calls]
    BY <1>0 DEF LocalTypes, NextCandidate, NextBatch, Abort
  <2>3. current' \in [Runners -> Calls \cup {None}]
    BY <1>0 DEF LocalTypes, NextCandidate, NextBatch, Abort
  <2>4. pending' \in [Runners -> SUBSET (DOMAIN rows')]
    BY <1>0 DEF LocalTypes, NextCandidate, NextBatch, Abort
  <2>5. batch' \in [Runners -> Nat] /\ faults' \in 0..MaxFaults
    BY <1>0, BoundsAssumption DEF LocalTypes, Abort
  <2> QED BY <2>1, <2>2, <2>3, <2>4, <2>5 DEF LocalTypes
<1>4. InHandOf(w)'
  BY <1>0 DEF LocalTypes, InHandOf, Handling, Batch, NextCandidate, NextBatch, Abort
<1>5. \A v \in Runners \ {w} : /\ at'[v] = at[v] /\ todo'[v] = todo[v]
                                 /\ current'[v] = current[v] /\ batch'[v] = batch[v]
  BY <1>0 DEF LocalTypes, NextCandidate, NextBatch, Abort
<1> QED BY <1>0, <1>1, <1>2, <1>3, <1>4, <1>5, LocalStep

\* The two ways a table grows.
LEMMA PostBatchKeeps ==
    ASSUME Core, NEW w \in Runners, PostBatch(w)
    PROVE  Core' /\ ApiGrows /\ RowsGrow
<1> DEFINE new == [calls |-> todo[w], state |-> "running", answer |-> [c \in Calls |-> "none"]]
<1>0. StoreTypes /\ LocalTypes /\ TableTypes /\ InHandOf(w)
  BY TypeParts DEF Core, InHand
<1>1. api' = Append(api, new) /\ new \in Batches /\ Len(api) < MaxBatches
  BY <1>0 DEF PostBatch, LocalTypes, Batches
<1>2. /\ api' \in Seq(Batches) /\ Len(api') = Len(api) + 1 /\ Len(api) \in Nat
      /\ \A b \in DOMAIN api : api'[b] = api[b]
      /\ DOMAIN api' = DOMAIN api \cup {Len(api) + 1} /\ api'[Len(api) + 1] = new
  BY <1>0, <1>1 DEF TableTypes
<1> HIDE DEF new
<1>3. ApiGrows /\ RowsGrow /\ Len(api') <= MaxBatches
  BY <1>0, <1>1, <1>2, BoundsAssumption DEF ApiGrows, RowsGrow, TableTypes, PostBatch
<1>4. TypeOK'
  <2>1. Len(rows) \in Nat /\ UNCHANGED <<item, rows>>
    BY <1>0 DEF TableTypes, PostBatch
  <2>2. item' \in [Calls -> Items'] /\ rows' \in Seq(Rows')
    BY <1>2, <2>1, GrowthKeepsTypes DEF Core
  <2>3. StoreTypes'
    BY <1>0, <2>2 DEF StoreTypes, PostBatch
  <2>4. LocalTypes'
    BY <1>0, <1>2, <2>1 DEF LocalTypes, Points, PostBatch
  <2>5. TableTypes'
    BY <1>2, <1>3, <2>2 DEF TableTypes, Batches
  <2> QED BY <2>3, <2>4, <2>5, TypeParts DEF TypeOK, StoreTypes, LocalTypes, TableTypes
<1>5. Settled'
  BY <1>2 DEF Settled, Core, new
<1>6. ASSUME NEW v \in Runners PROVE InHandOf(v)'
  <2>1. CASE v = w
    BY <1>0, <1>2, <2>1 DEF InHandOf, Handling, LocalTypes, PostBatch
  <2>2. CASE v # w
    BY <1>0, <1>3, <1>4, <2>2, NotDisturbed DEF Core, InHand, LocalTypes, PostBatch
  <2> QED BY <2>1, <2>2
<1> QED BY <1>3, <1>4, <1>5, <1>6 DEF Core, InHand

LEMMA InsertJudgeBatchKeeps ==
    ASSUME Core, NEW w \in Runners, InsertJudgeBatch(w)
    PROVE  Core' /\ ApiGrows /\ RowsGrow
<1> DEFINE new == [api |-> batch[w], status |-> "submitted"]
<1>0. StoreTypes /\ LocalTypes /\ TableTypes /\ InHandOf(w)
  BY TypeParts DEF Core, InHand
<1>1. rows' = Append(rows, new) /\ new \in Rows
  BY <1>0 DEF InsertJudgeBatch, InHandOf, Rows, TableTypes
<1>2. /\ rows' \in Seq(Rows) /\ Len(rows') = Len(rows) + 1 /\ Len(rows) \in Nat
      /\ \A i \in DOMAIN rows : rows'[i] = rows[i]
      /\ DOMAIN rows' = DOMAIN rows \cup {Len(rows) + 1}
  BY <1>0, <1>1 DEF TableTypes
<1> HIDE DEF new
<1>3. ApiGrows /\ RowsGrow /\ UNCHANGED api
  BY <1>0, <1>2 DEF ApiGrows, RowsGrow, TableTypes, InsertJudgeBatch
<1>4. TypeOK'
  <2>1. Len(api) \in Nat /\ UNCHANGED item
    BY <1>0 DEF TableTypes, InsertJudgeBatch
  <2>2. item' \in [Calls -> Items'] /\ Rows' = Rows
    BY <1>2, <1>3, <2>1, GrowthKeepsTypes DEF Core, Rows
  <2>3. StoreTypes'
    BY <1>0, <2>2 DEF StoreTypes, InsertJudgeBatch
  <2>4. LocalTypes'
    BY <1>0, <1>2 DEF LocalTypes, Points, InsertJudgeBatch
  <2>5. TableTypes'
    BY <1>0, <1>2, <1>3, <2>2 DEF TableTypes, Batches
  <2> QED BY <2>3, <2>4, <2>5, TypeParts DEF TypeOK, StoreTypes, LocalTypes, TableTypes
<1>5. Settled'
  BY <1>3 DEF Settled, Core
<1>6. ASSUME NEW v \in Runners PROVE InHandOf(v)'
  <2>1. CASE v = w
    BY <1>0, <1>2, <2>1 DEF InHandOf, Handling, LocalTypes, InsertJudgeBatch
  <2>2. CASE v # w
    BY <1>0, <1>3, <1>4, <2>2, NotDisturbed DEF Core, InHand, LocalTypes, InsertJudgeBatch
  <2> QED BY <2>1, <2>2
<1> QED BY <1>3, <1>4, <1>5, <1>6 DEF Core, InHand

LEMMA CompleteJudgeBatchKeeps ==
    ASSUME Core, NEW w \in Runners, CompleteJudgeBatch(w)
    PROVE  Core' /\ ApiGrows /\ RowsGrow
<1>0. StoreTypes /\ LocalTypes /\ TableTypes /\ InHandOf(w) /\ batch[w] \in DOMAIN rows
  BY TypeParts DEF Core, InHand, InHandOf, CompleteJudgeBatch
<1>1. PICK new : /\ new = [rows[batch[w]] EXCEPT !.status = "completed"]
                 /\ rows' = [rows EXCEPT ![batch[w]] = new]
  BY DEF CompleteJudgeBatch
<1>2. new \in Rows /\ new.api = rows[batch[w]].api
  BY <1>0, <1>1, RowsDenote DEF Core, Rows
<1>3. rows' \in Seq(Rows) /\ Len(rows') = Len(rows) /\ DOMAIN rows' = DOMAIN rows
  BY <1>0, <1>1, <1>2, ReplaceOne DEF TableTypes
<1>4. ApiGrows /\ RowsGrow /\ UNCHANGED api /\ Items' = Items /\ Rows' = Rows
  <2>1. UNCHANGED api
    BY DEF CompleteJudgeBatch
  <2>2. Items' = Items /\ Rows' = Rows
    BY <1>3, <2>1 DEF Items, Rows
  <2>3. Len(api) \in Nat /\ Len(rows) \in Nat
    BY <1>0 DEF TableTypes
  <2>4. ApiGrows
    BY <2>1, <2>3 DEF ApiGrows
  <2>5. \A i \in DOMAIN rows : rows'[i].api = rows[i].api
    BY <1>0, <1>1, <1>2
  <2>6. RowsGrow
    BY <1>3, <2>3, <2>5 DEF RowsGrow
  <2> QED BY <2>1, <2>2, <2>4, <2>6
<1>5. TypeOK'
  <2>1. StoreTypes'
    BY <1>0, <1>4 DEF StoreTypes, CompleteJudgeBatch
  <2>2. LocalTypes'
    BY <1>0, <1>3 DEF LocalTypes, Points, NextBatch, CompleteJudgeBatch
  <2>3. TableTypes'
    BY <1>0, <1>3, <1>4 DEF TableTypes, Batches
  <2> QED BY <2>1, <2>2, <2>3, TypeParts DEF TypeOK, StoreTypes, LocalTypes, TableTypes
<1>6. Settled'
  BY <1>4 DEF Settled, Core
<1>7. ASSUME NEW v \in Runners PROVE InHandOf(v)'
  <2>1. CASE v = w
    BY <1>0, <2>1 DEF InHandOf, Handling, LocalTypes, NextBatch, CompleteJudgeBatch
  <2>2. CASE v # w
    BY <1>0, <1>4, <1>5, <2>2, NotDisturbed
       DEF Core, InHand, LocalTypes, NextBatch, CompleteJudgeBatch
  <2> QED BY <2>1, <2>2
<1> QED BY <1>4, <1>5, <1>6, <1>7 DEF Core, InHand

\* The steps of the API: a batch ends or retires.
LEMMA ApiKeeps ==
    ASSUME Core, NEW b \in DOMAIN api, NEW new \in Batches, api' = [api EXCEPT ![b] = new],
           new.state # "running", \A c \in new.calls : new.answer[c] \in AllAnswers,
           api[b].state # "running" => new.answer = api[b].answer,
           UNCHANGED <<store, local, faults>>
    PROVE  Core' /\ ApiGrows /\ RowsGrow
<1>0. StoreTypes /\ LocalTypes /\ TableTypes
  BY TypeParts DEF Core
<1>1. api' \in Seq(Batches) /\ Len(api') = Len(api) /\ DOMAIN api' = DOMAIN api
  BY <1>0, ReplaceOne DEF TableTypes
<1>2. ApiGrows /\ RowsGrow /\ Items' = Items /\ Rows' = Rows
  <2>1. Items' = Items /\ Rows' = Rows
    BY <1>1 DEF Items, Rows
  <2>2. Len(api) \in Nat /\ Len(rows) \in Nat
    BY <1>0 DEF TableTypes
  <2>3. ApiGrows
    BY <1>1, <2>2 DEF ApiGrows
  <2>4. RowsGrow
    BY <2>2 DEF RowsGrow
  <2> QED BY <2>1, <2>3, <2>4
<1>3. TypeOK'
  <2>1. StoreTypes' /\ LocalTypes'
    BY <1>0, <1>2 DEF StoreTypes, LocalTypes
  <2>2. TableTypes'
    BY <1>0, <1>1, <1>2 DEF TableTypes, Batches
  <2> QED BY <2>1, <2>2, TypeParts DEF TypeOK, StoreTypes, LocalTypes, TableTypes
<1>4. Settled'
  BY <1>1 DEF Settled, Core
<1>5. ASSUME NEW v \in Runners PROVE InHandOf(v)'
  BY <1>2, <1>3, NotDisturbed DEF Core, InHand
<1> QED BY <1>2, <1>3, <1>4, <1>5 DEF Core, InHand

LEMMA BatchEndsKeeps ==
    ASSUME Core, NEW b \in DOMAIN api, BatchEnds(b)
    PROVE  Core' /\ ApiGrows /\ RowsGrow
<1>1. PICK answers \in [api[b].calls -> Answers] :
         api' = [api EXCEPT ![b].state = "ended",
                            ![b].answer = [c \in Calls |->
                                IF c \in api[b].calls THEN answers[c] ELSE "none"]]
  BY DEF BatchEnds
<1> DEFINE given == [c \in Calls |-> IF c \in api[b].calls THEN answers[c] ELSE "none"]
           new == [api[b] EXCEPT !.state = "ended", !.answer = given]
<1>2. api[b] \in Batches
  BY DEF Core, TypeOK
<1>3. given \in [Calls -> AllAnswers \cup {"none"}]
      /\ \A c \in api[b].calls : given[c] \in AllAnswers
  BY <1>2, AnswersAssumption DEF Batches
<1> HIDE DEF given
<1>4. /\ new \in Batches /\ new.state = "ended"
      /\ new.calls = api[b].calls /\ new.answer = given
  BY <1>2, <1>3 DEF Batches
<1>5. api' = [api EXCEPT ![b] = new]
  BY <1>1 DEF given
<1> QED BY <1>3, <1>4, <1>5, ApiKeeps DEF BatchEnds

LEMMA BatchRetiresKeeps ==
    ASSUME Core, NEW b \in DOMAIN api, BatchRetires(b)
    PROVE  Core' /\ ApiGrows /\ RowsGrow
<1> DEFINE new == [api[b] EXCEPT !.state = "retired"]
<1>1. api[b] \in Batches /\ api[b].state = "ended"
  BY DEF Core, TypeOK, BatchRetires
<1>2. /\ new \in Batches /\ new.state = "retired"
      /\ new.calls = api[b].calls /\ new.answer = api[b].answer
  BY <1>1 DEF Batches
<1>3. \A c \in api[b].calls : api[b].answer[c] \in AllAnswers
  BY <1>1 DEF Core, Settled
<1>4. api' = [api EXCEPT ![b] = new]
  BY DEF BatchRetires
<1> QED BY <1>1, <1>2, <1>3, <1>4, ApiKeeps DEF BatchRetires

-----------------------------------------------------------------------------
LEMMA CoreInit == Init => Core
<1> SUFFICES ASSUME Init PROVE Core
  OBVIOUS
<1>1. rows \in Seq(Rows) /\ api \in Seq(Batches) /\ Len(api) = 0 /\ Len(rows) = 0
      /\ DOMAIN api = {} /\ rows = <<>>
  BY EmptySeq DEF Init
<1>2. NoItem \in Items /\ NoVerification \in Verifications
  BY <1>1 DEF NoItem, Items, Verifications
<1>3. StoreTypes
  BY <1>2 DEF Init, StoreTypes
<1>4. LocalTypes
  BY BoundsAssumption DEF Init, LocalTypes, Points
<1>5. TableTypes
  BY <1>1, BoundsAssumption DEF TableTypes
<1>6. InHand
  BY DEF Init, InHand, InHandOf, Handling
<1> QED BY <1>1, <1>3, <1>4, <1>5, <1>6, TypeParts DEF Core, Settled

LEMMA CoreNext ==
    ASSUME Core, [Next]_vars
    PROVE  Core' /\ ApiGrows /\ RowsGrow
<1>1. CASE \E w \in Runners : SelectCandidates(w) \/ SubmitRead(w) \/ PollRead(w)
                             \/ SkipCandidate(w) \/ Abort(w)
  BY <1>1, SelectCandidatesKeeps, SubmitReadKeeps, PollReadKeeps, SkipCandidateKeeps, AbortKeeps
<1>2. CASE \E w \in Runners : Replay(w)
  BY <1>2, SendReplayKeeps, RecordReplayKeeps, RunCascadeKeeps, InsertJudgeItemKeeps,
     NameJudgeItemKeeps DEF Replay
<1>3. CASE \E w \in Runners : Submit(w)
  BY <1>3, PostBatchKeeps, InsertJudgeBatchKeeps, MarkItemKeeps DEF Submit
<1>4. CASE \E w \in Runners : Poll(w)
  BY <1>4, PollBatchKeeps, FetchResultsKeeps, ApplyResultKeeps, ApplyVerdictKeeps,
     CompleteJudgeBatchKeeps DEF Poll
<1>5. CASE \E b \in DOMAIN api : BatchEnds(b) \/ BatchRetires(b)
  BY <1>5, BatchEndsKeeps, BatchRetiresKeeps
<1>6. CASE UNCHANGED vars
  <2>1. Items' = Items /\ TableTypes' /\ ApiGrows /\ RowsGrow /\ Settled' /\ StoreTypes' /\ LocalTypes'
    BY <1>6, SameTables, TypeParts DEF Core, StoreTypes, LocalTypes
  <2>2. TypeOK'
    BY <2>1, TypeParts DEF TypeOK, StoreTypes, LocalTypes, TableTypes
  <2>3. InHand'
    BY <1>6, <2>1, <2>2, NotDisturbed DEF Core, InHand
  <2> QED BY <2>1, <2>2, <2>3 DEF Core
<1> QED BY <1>1, <1>2, <1>3, <1>4, <1>5, <1>6 DEF Next, Command

LEMMA CoreHolds == Spec => []Core
<1>1. Core /\ [Next]_vars => Core'
  BY CoreNext
<1> QED BY CoreInit, <1>1, PTL DEF Spec

\* Every table and every local variable stays in its type; a row never denotes
\* a batch the API does not know, nor a link a row that does not exist.
THEOREM Typing == Spec => []TypeOK
BY CoreHolds, PTL DEF Core

-----------------------------------------------------------------------------
(***************************************************************************)
(* The decision.                                                           *)
(***************************************************************************)
RuledBy(b, c) ==
    /\ api[b].answer[c] \in {"agree", "differ"}
    /\ IF verification[c].tests # "null"
       THEN verification[c].agree = (IF verification[c].tests = "ok" THEN "yes" ELSE "no")
       ELSE verification[c].agree = (IF api[b].answer[c] = "agree" THEN "yes" ELSE "no")
    /\ verification[c].conflict <=> (verification[c].agree = "yes") # (api[b].answer[c] = "agree")

\* Verifications are written by two statements only.
LEMMA WhoWrites ==
    ASSUME Core, [Next]_vars
    PROVE  \/ UNCHANGED verification
           \/ \E w \in Runners : RunCascade(w) \/ ApplyVerdict(w)
BY DEF Next, Command, Replay, Submit, Poll, SelectCandidates, SendReplay, RecordReplay,
       InsertJudgeItem, NameJudgeItem, SkipCandidate, SubmitRead, PostBatch, InsertJudgeBatch,
       MarkItem, PollRead, PollBatch, FetchResults, ApplyResult, CompleteJudgeBatch, Abort,
       BatchEnds, BatchRetires

\* Applying a verdict leaves the decision of the rule for the answer of the
\* batch in hand.
LEMMA VerdictRuled ==
    ASSUME Core, NEW w \in Runners, ApplyVerdict(w), NEW c \in Calls, c = current[w]
    PROVE  \E told : /\ told = rows[batch[w]].api /\ told \in DOMAIN api'
                     /\ RuledBy(told, c)'
                     /\ verification'[c].stage = "judge"
<1>0. PICK told : told = rows[batch[w]].api
  OBVIOUS
<1> DEFINE agrees == api[told].answer[current[w]] = "agree"
<1>1. verification' = [verification EXCEPT ![current[w]] =
                          Arbitrate(verification[current[w]], agrees)]
  BY <1>0 DEF ApplyVerdict, Batch
<1>2. verification'[c] = Arbitrate(verification[c], agrees)
  BY <1>1 DEF Core, TypeOK
<1>3. verification[c] \in Verifications /\ agrees \in BOOLEAN
  BY DEF Core, TypeOK
<1>4. told \in DOMAIN api' /\ api' = api /\ api[told].answer[c] \in {"agree", "differ"}
  BY <1>0, <1>2, RowsDenote DEF Core, InHand, InHandOf, ApplyVerdict, Batch
<1>5. agrees <=> api[told].answer[c] = "agree"
  BY <1>2
<1> HIDE DEF agrees
<1>6. PICK yes, conflict \in BOOLEAN :
         /\ verification'[c] = ByJudge(verification[c], yes, conflict)
         /\ conflict <=> ~(yes <=> agrees)
         /\ IF verification[c].tests # "null" THEN yes <=> verification[c].tests = "ok"
                                              ELSE yes <=> agrees
  BY <1>2, <1>3, ArbitrateRule
<1>7. /\ verification'[c].stage = "judge"
      /\ verification'[c].agree = IF yes THEN "yes" ELSE "no"
      /\ verification'[c].conflict = conflict
      /\ verification'[c].tests = verification[c].tests
  BY <1>6 DEF ByJudge
<1>8. api'[told].answer[c] \in {"agree", "differ"} /\ (api'[told].answer[c] = "agree" <=> agrees)
  BY <1>4, <1>5
<1>9. IF verification'[c].tests # "null"
      THEN verification'[c].agree = (IF verification'[c].tests = "ok" THEN "yes" ELSE "no")
      ELSE verification'[c].agree = (IF api'[told].answer[c] = "agree" THEN "yes" ELSE "no")
  BY <1>6, <1>7, <1>8
<1>10. (verification'[c].agree = "yes") <=> yes
  BY <1>7
<1>11. verification'[c].conflict <=> (verification'[c].agree = "yes") # (api'[told].answer[c] = "agree")
  BY <1>6, <1>7, <1>8, <1>10
<1>12. RuledBy(told, c)'
  BY <1>8, <1>9, <1>11, Zenon DEF RuledBy
<1> QED BY <1>0, <1>4, <1>7, <1>12, Zenon

LEMMA RuleStep ==
    ASSUME Core, DecisionFollowsRule, [Next]_vars
    PROVE  DecisionFollowsRule'
<1>1. Core' /\ ApiGrows
  BY CoreNext
<1> SUFFICES ASSUME NEW c \in Calls, verification'[c].stage = "judge"
             PROVE  \E b \in DOMAIN api' : RuledBy(b, c)'
  BY DEF DecisionFollowsRule, RuledBy
<1>2. CASE verification'[c] = verification[c]
  <2>1. PICK b \in DOMAIN api : RuledBy(b, c)
    BY <1>2 DEF DecisionFollowsRule, RuledBy
  <2>2. api[b].state # "running"
    BY <2>1 DEF RuledBy, Core, Settled
  <2>3. b \in DOMAIN api' /\ api'[b].answer = api[b].answer
    BY <1>1, <2>2 DEF ApiGrows
  <2> QED BY <1>2, <2>1, <2>3 DEF RuledBy
<1>3. ASSUME NEW w \in Runners, RunCascade(w), verification'[c] # verification[c]
      PROVE  FALSE
  <2>1. PICK v \in Judgements : verification' = [verification EXCEPT ![current[w]] = v]
    BY <1>3 DEF RunCascade
  <2>2. verification'[c] = v
    BY <1>3, <2>1 DEF Core, TypeOK
  <2>3. v.stage \in {"exact", "ast"}
    BY CascadeStages
  <2> QED BY <2>2, <2>3
<1>4. ASSUME NEW w \in Runners, ApplyVerdict(w), verification'[c] # verification[c]
      PROVE  \E b \in DOMAIN api' : RuledBy(b, c)'
  <2>1. c = current[w]
    BY <1>4 DEF ApplyVerdict, Core, TypeOK
  <2> QED BY <1>4, <2>1, VerdictRuled
<1>5. CASE UNCHANGED verification
  BY <1>2, <1>5
<1> QED BY <1>2, <1>3, <1>4, <1>5, WhoWrites

\* A verification decided by the judge carries the decision of the rule for an
\* answer the API gave for that call, with any number of overlapping commands,
\* crashes and repeated submissions.
THEOREM Rule == Spec => []DecisionFollowsRule
<1>1. Init => DecisionFollowsRule
  BY DEF Init, DecisionFollowsRule, NoVerification
<1>2. Core /\ DecisionFollowsRule /\ [Next]_vars => DecisionFollowsRule'
  BY RuleStep
<1> QED BY <1>1, <1>2, CoreHolds, PTL DEF Spec

-----------------------------------------------------------------------------
(***************************************************************************)
(* The stages.  The UNIQUE replay row makes one command at most responsible *)
(* for the cascade of a call, and an item that exists never goes away.      *)
(***************************************************************************)
Queued(c) == item[c].status # "none"

StageOf(w) ==
    /\ at[w] = "cascade" => replay[current[w]] = "ok" /\ verification[current[w]].stage = "none"
    /\ at[w] = "queue" => Banded(current[w]) \/ verification[current[w]].stage = "judge"
    /\ at[w] = "name" => Queued(current[w])
    /\ at[w] \in {"post", "insert", "mark", "apply", "decide"} => \A c \in todo[w] : Queued(c)

Alone == \A v, w \in Runners :
            at[v] = "cascade" /\ at[w] = "cascade" /\ current[v] = current[w] => v = w

Linked == \A c \in Calls : item[c].row > 0 => Queued(c)

Stages == StagesBuildUp /\ (\A w \in Runners : StageOf(w)) /\ Alone /\ Linked

\* The steps that write no replay, verification or item.
LEMMA StagesKept ==
    ASSUME Core, Core', Stages, UNCHANGED <<replay, verification, item>>, NEW w \in Runners,
           at'[w] # "cascade", StageOf(w)',
           \A v \in Runners \ {w} : /\ at'[v] = at[v] /\ todo'[v] = todo[v]
                                    /\ current'[v] = current[v]
    PROVE  Stages'
<1>1. StagesBuildUp' /\ Linked'
  BY DEF Stages, StagesBuildUp, Linked, Queued, Banded
<1>2. ASSUME NEW v \in Runners PROVE StageOf(v)'
  BY DEF Stages, StageOf, Queued, Banded
<1>3. Alone'
  BY DEF Stages, Alone
<1> QED BY <1>1, <1>2, <1>3 DEF Stages

LEMMA StagesOfOthers ==
    ASSUME Core, Core', Stages, NEW w \in Runners,
           \/ SelectCandidates(w) \/ SkipCandidate(w) \/ SubmitRead(w) \/ PostBatch(w)
           \/ InsertJudgeBatch(w) \/ PollRead(w) \/ PollBatch(w) \/ CompleteJudgeBatch(w)
           \/ Abort(w)
    PROVE  Stages'
<1> USE StagesKept
<1>0. LocalTypes /\ StageOf(w)
  BY TypeParts DEF Core, Stages
<1>1. CASE SelectCandidates(w)
  <2>1. UNCHANGED <<replay, verification, item>>
        /\ \A v \in Runners \ {w} : /\ at'[v] = at[v] /\ todo'[v] = todo[v]
                                    /\ current'[v] = current[v]
    BY <1>0, <1>1 DEF LocalTypes, NextBatch, NextCandidate, SelectCandidates
  <2>2. at'[w] # "cascade" /\ StageOf(w)'
    BY <1>0, <1>1 DEF LocalTypes, StageOf, SelectCandidates
  <2> QED BY <2>1, <2>2
<1>2. CASE SkipCandidate(w)
  <2>1. UNCHANGED <<replay, verification, item>>
        /\ \A v \in Runners \ {w} : /\ at'[v] = at[v] /\ todo'[v] = todo[v]
                                    /\ current'[v] = current[v]
    BY <1>0, <1>2 DEF LocalTypes, NextBatch, NextCandidate, SkipCandidate
  <2>2. at'[w] # "cascade" /\ StageOf(w)'
    BY <1>0, <1>2 DEF LocalTypes, StageOf, NextCandidate, SkipCandidate
  <2> QED BY <2>1, <2>2
<1>3. CASE SubmitRead(w)
  <2>1. UNCHANGED <<replay, verification, item>>
        /\ \A v \in Runners \ {w} : /\ at'[v] = at[v] /\ todo'[v] = todo[v]
                                    /\ current'[v] = current[v]
    BY <1>0, <1>3 DEF LocalTypes, NextBatch, NextCandidate, SubmitRead
  <2>2. at'[w] # "cascade" /\ StageOf(w)'
    BY <1>0, <1>3 DEF LocalTypes, StageOf, QueuedItems, Queued, SubmitRead
  <2> QED BY <2>1, <2>2
<1>4. CASE PostBatch(w)
  <2>1. UNCHANGED <<replay, verification, item>>
        /\ \A v \in Runners \ {w} : /\ at'[v] = at[v] /\ todo'[v] = todo[v]
                                    /\ current'[v] = current[v]
    BY <1>0, <1>4 DEF LocalTypes, NextBatch, NextCandidate, PostBatch
  <2>2. at'[w] # "cascade" /\ StageOf(w)'
    BY <1>0, <1>4 DEF LocalTypes, StageOf, Queued, PostBatch
  <2> QED BY <2>1, <2>2
<1>5. CASE InsertJudgeBatch(w)
  <2>1. UNCHANGED <<replay, verification, item>>
        /\ \A v \in Runners \ {w} : /\ at'[v] = at[v] /\ todo'[v] = todo[v]
                                    /\ current'[v] = current[v]
    BY <1>0, <1>5 DEF LocalTypes, NextBatch, NextCandidate, InsertJudgeBatch
  <2>2. at'[w] # "cascade" /\ StageOf(w)'
    BY <1>0, <1>5 DEF LocalTypes, StageOf, Queued, InsertJudgeBatch
  <2> QED BY <2>1, <2>2
<1>6. CASE PollRead(w)
  <2>1. UNCHANGED <<replay, verification, item>>
        /\ \A v \in Runners \ {w} : /\ at'[v] = at[v] /\ todo'[v] = todo[v]
                                    /\ current'[v] = current[v]
    BY <1>0, <1>6 DEF LocalTypes, NextBatch, NextCandidate, PollRead
  <2>2. at'[w] # "cascade" /\ StageOf(w)'
    BY <1>0, <1>6 DEF LocalTypes, StageOf, PollRead
  <2> QED BY <2>1, <2>2
<1>7. CASE PollBatch(w)
  <2>1. UNCHANGED <<replay, verification, item>>
        /\ \A v \in Runners \ {w} : /\ at'[v] = at[v] /\ todo'[v] = todo[v]
                                    /\ current'[v] = current[v]
    BY <1>0, <1>7 DEF LocalTypes, NextBatch, NextCandidate, PollBatch
  <2>2. at'[w] # "cascade" /\ StageOf(w)'
    BY <1>0, <1>7 DEF LocalTypes, StageOf, NextBatch, PollBatch
  <2> QED BY <2>1, <2>2
<1>8. CASE CompleteJudgeBatch(w)
  <2>1. UNCHANGED <<replay, verification, item>>
        /\ \A v \in Runners \ {w} : /\ at'[v] = at[v] /\ todo'[v] = todo[v]
                                    /\ current'[v] = current[v]
    BY <1>0, <1>8 DEF LocalTypes, NextBatch, NextCandidate, CompleteJudgeBatch
  <2>2. at'[w] # "cascade" /\ StageOf(w)'
    BY <1>0, <1>8 DEF LocalTypes, StageOf, NextBatch, CompleteJudgeBatch
  <2> QED BY <2>1, <2>2
<1>9. CASE Abort(w)
  <2>1. UNCHANGED <<replay, verification, item>>
        /\ \A v \in Runners \ {w} : /\ at'[v] = at[v] /\ todo'[v] = todo[v]
                                    /\ current'[v] = current[v]
    BY <1>0, <1>9 DEF LocalTypes, NextBatch, NextCandidate, Abort
  <2>2. at'[w] # "cascade" /\ StageOf(w)'
    BY <1>0, <1>9 DEF LocalTypes, StageOf, Abort
  <2> QED BY <2>1, <2>2
<1> QED BY <1>1, <1>2, <1>3, <1>4, <1>5, <1>6, <1>7, <1>8, <1>9

LEMMA SendReplayStages ==
    ASSUME Core, Core', Stages, NEW w \in Runners, SendReplay(w)
    PROVE  Stages'
<1>0. StoreTypes /\ LocalTypes /\ StageOf(w) /\ InHandOf(w)
  BY TypeParts DEF Core, InHand, Stages
<1>1. /\ UNCHANGED <<verification, item>>
      /\ \A c \in Calls : replay[c] = "ok" => replay'[c] = "ok"
      /\ at'[w] \in {"record", "send", "idle"}
  BY <1>0 DEF StoreTypes, LocalTypes, SendReplay, InsertReplay, NextCandidate
<1>2. \A v \in Runners \ {w} : /\ at'[v] = at[v] /\ todo'[v] = todo[v]
                                 /\ current'[v] = current[v]
  BY <1>0 DEF LocalTypes, NextCandidate, SendReplay
<1>3. StagesBuildUp' /\ Linked'
  BY <1>1 DEF Stages, StagesBuildUp, Linked, Queued, Banded
<1>4. ASSUME NEW v \in Runners PROVE StageOf(v)'
  <2>1. at[v] = "cascade" => current[v] \in Calls
    BY DEF Core, InHand, InHandOf, Handling
  <2> QED BY <1>1, <1>2, <2>1 DEF Stages, StageOf, Queued, Banded
<1>5. Alone'
  BY <1>1, <1>2 DEF Stages, Alone
<1> QED BY <1>3, <1>4, <1>5 DEF Stages

LEMMA RecordReplayStages ==
    ASSUME Core, Core', Stages, NEW w \in Runners, RecordReplay(w)
    PROVE  Stages'
<1>0. StoreTypes /\ LocalTypes /\ StageOf(w) /\ InHandOf(w)
  BY TypeParts DEF Core, InHand, Stages
<1>1. current[w] \in Calls
  BY <1>0 DEF InHandOf, Handling, RecordReplay
<1>2. /\ UNCHANGED <<verification, item>>
      /\ \A c \in Calls : replay[c] = "ok" => replay'[c] = "ok"
      /\ at'[w] \in {"cascade", "send", "idle"}
      /\ at'[w] = "cascade" => /\ replay[current[w]] = "none" /\ replay'[current[w]] = "ok"
                              /\ current'[w] = current[w]
  BY <1>0, <1>1 DEF StoreTypes, LocalTypes, RecordReplay, InsertReplay, NextCandidate
<1>3. \A v \in Runners \ {w} : /\ at'[v] = at[v] /\ todo'[v] = todo[v]
                                 /\ current'[v] = current[v]
  BY <1>0 DEF LocalTypes, NextCandidate, RecordReplay
<1>4. StagesBuildUp' /\ Linked'
  BY <1>2 DEF Stages, StagesBuildUp, Linked, Queued, Banded
<1>5. ASSUME NEW v \in Runners PROVE StageOf(v)'
  <2>1. at[v] = "cascade" => current[v] \in Calls
    BY DEF Core, InHand, InHandOf, Handling
  <2>2. CASE v # w
    BY <1>2, <1>3, <2>1, <2>2 DEF Stages, StageOf, Queued, Banded
  <2>3. CASE v = w
    BY <1>1, <1>2, <2>3 DEF Stages, StageOf, StagesBuildUp
  <2> QED BY <2>2, <2>3
<1>6. Alone'
  BY <1>2, <1>3 DEF Stages, Alone, StageOf
<1> QED BY <1>4, <1>5, <1>6 DEF Stages

LEMMA RunCascadeStages ==
    ASSUME Core, Core', Stages, NEW w \in Runners, RunCascade(w)
    PROVE  Stages'
<1>0. StoreTypes /\ LocalTypes /\ StageOf(w) /\ InHandOf(w)
  BY TypeParts DEF Core, InHand, Stages
<1>1. current[w] \in Calls
  BY <1>0 DEF InHandOf, Handling, RunCascade
<1>2. PICK new \in Judgements :
         /\ verification' = [verification EXCEPT ![current[w]] = new]
         /\ IF new.agree = "null"
            THEN Goto(w, "queue") /\ UNCHANGED <<todo, current>>
            ELSE NextCandidate(w, todo[w] \ {current[w]})
  BY DEF RunCascade
<1>3. new.stage \in {"exact", "ast"} /\ (new.agree = "null" => new.stage = "ast")
  BY CascadeStages
<1>4. /\ UNCHANGED <<replay, item>> /\ replay[current[w]] = "ok"
      /\ verification[current[w]].stage = "none"
      /\ ~Queued(current[w])
  BY <1>0, <1>1 DEF RunCascade, StageOf, Stages, StagesBuildUp, Queued, Banded
<1>5. /\ verification'[current[w]] = new
      /\ \A c \in Calls \ {current[w]} : verification'[c] = verification[c]
  BY <1>0, <1>1, <1>2 DEF StoreTypes
<1>6. at[w] = "cascade" /\ at'[w] \in {"queue", "send", "idle"}
      /\ (at'[w] = "queue" => new.agree = "null" /\ current'[w] = current[w])
  BY <1>0, <1>2 DEF LocalTypes, NextCandidate, RunCascade
<1>7. \A v \in Runners \ {w} : /\ at'[v] = at[v] /\ todo'[v] = todo[v]
                                 /\ current'[v] = current[v]
  BY <1>0 DEF LocalTypes, NextCandidate, RunCascade
<1>8. StagesBuildUp' /\ Linked'
  BY <1>3, <1>4, <1>5 DEF Stages, StagesBuildUp, Linked, Queued, Banded
<1>9. ASSUME NEW v \in Runners PROVE StageOf(v)'
  <2>1. at[v] \in {"cascade", "queue"} => current[v] \in Calls
    BY DEF Core, InHand, InHandOf, Handling
  <2>2. CASE v = w
    BY <1>3, <1>5, <1>6, <2>2 DEF StageOf, Banded
  <2>3. CASE v # w
    <3>1. at[v] = "cascade" => current[v] # current[w]
      BY <1>6, <2>3 DEF Stages, Alone
    <3>2. at[v] = "queue" => current[v] # current[w]
      BY <1>4 DEF Stages, StageOf, Banded
    <3>3. at'[v] = at[v] /\ todo'[v] = todo[v] /\ current'[v] = current[v] /\ StageOf(v)
      BY <1>7, <2>3 DEF Stages
    <3> QED BY <1>4, <1>5, <2>1, <3>1, <3>2, <3>3 DEF StageOf, Banded, Queued
  <2> QED BY <2>2, <2>3
<1>10. Alone'
  BY <1>6, <1>7 DEF Stages, Alone
<1> QED BY <1>8, <1>9, <1>10 DEF Stages

\* The steps that only write items, and never remove one.
LEMMA ItemSteps ==
    ASSUME Core, Core', Stages, UNCHANGED <<replay, verification>>, NEW w \in Runners,
           \A c \in Calls : Queued(c) => Queued(c)',
           \A c \in Calls : Queued(c)' => Queued(c) \/ Banded(c) \/ verification[c].stage = "judge",
           Linked', at'[w] # "cascade", StageOf(w)',
           \A v \in Runners \ {w} : /\ at'[v] = at[v] /\ todo'[v] = todo[v]
                                    /\ current'[v] = current[v]
    PROVE  Stages'
<1>1. StagesBuildUp'
  BY DEF Stages, StagesBuildUp, Queued, Banded
<1>2. ASSUME NEW v \in Runners PROVE StageOf(v)'
  <2>1. CASE v = w
    BY <2>1
  <2>2. CASE v # w
    <3>1. at'[v] = at[v] /\ todo'[v] = todo[v] /\ current'[v] = current[v] /\ StageOf(v)
      BY <2>2 DEF Stages
    <3>2. (at[v] = "name" => current[v] \in Calls) /\ todo[v] \subseteq Calls
      BY DEF Core, InHand, InHandOf, Handling, TypeOK
    <3>3. at[v] = "name" => Queued(current[v])'
      BY <3>1, <3>2 DEF StageOf, Queued
    <3>4. at[v] \in {"post", "insert", "mark", "apply", "decide"} =>
             \A c \in todo[v] : Queued(c)'
      BY <3>1, <3>2 DEF StageOf
    <3> QED BY <3>1, <3>3, <3>4 DEF StageOf, Queued, Banded
  <2> QED BY <2>1, <2>2
<1>3. Alone'
  BY DEF Stages, Alone
<1> QED BY <1>1, <1>2, <1>3 DEF Stages

LEMMA InsertJudgeItemStages ==
    ASSUME Core, Core', Stages, NEW w \in Runners, InsertJudgeItem(w)
    PROVE  Stages'
<1>0. StoreTypes /\ LocalTypes /\ StageOf(w) /\ InHandOf(w)
  BY TypeParts DEF Core, InHand, Stages
<1>1. current[w] \in Calls
  BY <1>0 DEF InHandOf, Handling, InsertJudgeItem
<1>2. item' = [item EXCEPT ![current[w]] = [status |-> "queued", named |-> FALSE, row |-> 0]]
  BY DEF InsertJudgeItem
<1>3. /\ item'[current[w]].status # "none" /\ item'[current[w]].row = 0
      /\ \A c \in Calls \ {current[w]} : item'[c] = item[c]
  BY <1>0, <1>1, <1>2 DEF StoreTypes
<1>4. Banded(current[w]) \/ verification[current[w]].stage = "judge"
  BY <1>0 DEF StageOf, InsertJudgeItem
<1>5. \A c \in Calls : Queued(c) => Queued(c)'
  BY <1>1, <1>3 DEF Queued
<1>6. \A c \in Calls : Queued(c)' => Queued(c) \/ Banded(c) \/ verification[c].stage = "judge"
  BY <1>1, <1>3, <1>4 DEF Queued
<1>7. Linked'
  BY <1>1, <1>3 DEF Stages, Linked, Queued
<1>8. at'[w] # "cascade" /\ StageOf(w)'
  BY <1>0, <1>1, <1>3 DEF LocalTypes, StageOf, Queued, NextCandidate, InsertJudgeItem
<1>9. \A v \in Runners \ {w} : /\ at'[v] = at[v] /\ todo'[v] = todo[v]
                                 /\ current'[v] = current[v]
  BY <1>0 DEF LocalTypes, NextCandidate, InsertJudgeItem
<1>10. UNCHANGED <<replay, verification>>
  BY DEF InsertJudgeItem
<1> QED BY <1>5, <1>6, <1>7, <1>8, <1>9, <1>10, ItemSteps

LEMMA NameJudgeItemStages ==
    ASSUME Core, Core', Stages, NEW w \in Runners, NameJudgeItem(w)
    PROVE  Stages'
<1>0. StoreTypes /\ LocalTypes /\ StageOf(w) /\ InHandOf(w)
  BY TypeParts DEF Core, InHand, Stages
<1>1. \A c \in Calls : item'[c].status = item[c].status /\ item'[c].row = item[c].row
  BY <1>0 DEF StoreTypes, Items, NameJudgeItem
<1>5. \A c \in Calls : Queued(c) => Queued(c)'
  BY <1>1 DEF Queued
<1>6. \A c \in Calls : Queued(c)' => Queued(c) \/ Banded(c) \/ verification[c].stage = "judge"
  BY <1>1 DEF Queued
<1>7. Linked'
  BY <1>1 DEF Stages, Linked, Queued
<1>8. at'[w] # "cascade" /\ StageOf(w)'
  BY <1>0, <1>1 DEF LocalTypes, StageOf, Queued, NextCandidate, NameJudgeItem
<1>9. \A v \in Runners \ {w} : /\ at'[v] = at[v] /\ todo'[v] = todo[v]
                                 /\ current'[v] = current[v]
  BY <1>0 DEF LocalTypes, NextCandidate, NameJudgeItem
<1>10. UNCHANGED <<replay, verification>>
  BY DEF NameJudgeItem
<1> QED BY <1>5, <1>6, <1>7, <1>8, <1>9, <1>10, ItemSteps

LEMMA MarkItemStages ==
    ASSUME Core, Core', Stages, NEW w \in Runners, MarkItem(w)
    PROVE  Stages'
<1>0. StoreTypes /\ LocalTypes /\ StageOf(w) /\ InHandOf(w)
  BY TypeParts DEF Core, InHand, Stages
<1>1. PICK c \in todo[w] :
         /\ item' = [item EXCEPT ![c] = [item[c] EXCEPT !.status = "submitted", !.row = batch[w]]]
         /\ todo' = [todo EXCEPT ![w] = todo[w] \ {c}]
  BY DEF MarkItem
<1>2. c \in Calls /\ Queued(c)
  BY <1>0, <1>1 DEF LocalTypes, StageOf, MarkItem
<1>3. Queued(c)' /\ \A d \in Calls \ {c} : item'[d] = item[d]
  BY <1>0, <1>1, <1>2 DEF StoreTypes, Items, Queued
<1>4. \A d \in Calls : Queued(d)' <=> Queued(d)
  BY <1>2, <1>3 DEF Queued
<1>5. Linked'
  BY <1>2, <1>3 DEF Stages, Linked, Queued
<1>6. at'[w] # "cascade" /\ StageOf(w)'
  <2>1. \A d \in todo'[w] : d \in Calls /\ Queued(d)
    BY <1>0, <1>1 DEF LocalTypes, StageOf, MarkItem
  <2>2. at'[w] \in {"mark", "idle"}
    BY <1>0 DEF LocalTypes, MarkItem
  <2> QED BY <1>4, <2>1, <2>2 DEF StageOf
<1>7. \A v \in Runners \ {w} : /\ at'[v] = at[v] /\ todo'[v] = todo[v]
                                 /\ current'[v] = current[v]
  BY <1>0 DEF LocalTypes, NextCandidate, MarkItem
<1>8. UNCHANGED <<replay, verification>>
  BY DEF MarkItem
<1> QED BY <1>4, <1>5, <1>6, <1>7, <1>8, ItemSteps

LEMMA FetchResultsStages ==
    ASSUME Core, Core', Stages, NEW w \in Runners, FetchResults(w)
    PROVE  Stages'
<1>0. StoreTypes /\ LocalTypes /\ StageOf(w) /\ InHandOf(w)
  BY TypeParts DEF Core, InHand, Stages
<1>1. batch[w] \in DOMAIN rows /\ Batch(w).calls \subseteq Calls
  <2>1. batch[w] \in DOMAIN rows
    BY <1>0 DEF InHandOf, FetchResults
  <2> QED BY <2>1, RowsDenote DEF Core, Batch, Batches
<1>2. \A c \in MatchedLines(w) : c \in Calls /\ item[c].row > 0
  BY <1>1 DEF MatchedLines, Core, TypeOK
<1>3. \A c \in MatchedLines(w) : Queued(c)
  BY <1>2 DEF Stages, Linked
<1>4. at'[w] = "apply" /\ todo'[w] = MatchedLines(w) /\ UNCHANGED <<replay, verification, item>>
  BY <1>0 DEF LocalTypes, FetchResults
<1>5. StageOf(w)'
  BY <1>3, <1>4 DEF StageOf, Queued
<1>6. \A v \in Runners \ {w} : /\ at'[v] = at[v] /\ todo'[v] = todo[v]
                                 /\ current'[v] = current[v]
  BY <1>0 DEF LocalTypes, NextCandidate, FetchResults
<1> QED BY <1>4, <1>5, <1>6, StagesKept

LEMMA ApplyResultStages ==
    ASSUME Core, Core', Stages, NEW w \in Runners, ApplyResult(w)
    PROVE  Stages'
<1>0. StoreTypes /\ LocalTypes /\ StageOf(w) /\ InHandOf(w)
  BY TypeParts DEF Core, InHand, Stages
<1>1. PICK c \in todo[w], status \in {"errored", "done"} :
         item' = [item EXCEPT ![c] = [item[c] EXCEPT !.status = status]]
  BY DEF ApplyResult
<1>2. c \in Calls /\ Queued(c)
  BY <1>0, <1>1 DEF LocalTypes, StageOf, ApplyResult
<1>3. Queued(c)' /\ \A d \in Calls \ {c} : item'[d] = item[d]
  BY <1>0, <1>1, <1>2 DEF StoreTypes, Items, Queued
<1>4. \A d \in Calls : Queued(d)' <=> Queued(d)
  BY <1>2, <1>3 DEF Queued
<1>5. Linked'
  BY <1>2, <1>3 DEF Stages, Linked, Queued
<1>6. at'[w] # "cascade" /\ StageOf(w)'
  <2>1. \A d \in todo'[w] : d \in Calls /\ Queued(d)
    BY <1>0 DEF LocalTypes, StageOf, ApplyResult
  <2>2. at'[w] \in {"apply", "decide"}
    BY <1>0 DEF LocalTypes, ApplyResult
  <2> QED BY <1>4, <2>1, <2>2 DEF StageOf
<1>7. \A v \in Runners \ {w} : /\ at'[v] = at[v] /\ todo'[v] = todo[v]
                                 /\ current'[v] = current[v]
  BY <1>0 DEF LocalTypes, NextCandidate, ApplyResult
<1>8. UNCHANGED <<replay, verification>>
  BY DEF ApplyResult
<1> QED BY <1>4, <1>5, <1>6, <1>7, <1>8, ItemSteps

LEMMA ApplyVerdictStages ==
    ASSUME Core, Core', Stages, NEW w \in Runners, ApplyVerdict(w)
    PROVE  Stages'
<1>0. StoreTypes /\ LocalTypes /\ StageOf(w) /\ InHandOf(w)
  BY TypeParts DEF Core, InHand, Stages
<1>1. current[w] \in Calls /\ Queued(current[w])
  BY <1>0 DEF InHandOf, Handling, StageOf, ApplyVerdict
<1>2. PICK new : /\ verification' = [verification EXCEPT ![current[w]] = new]
                 /\ new.stage = "judge"
  <2>1. \A v \in Verifications, agrees \in BOOLEAN : Arbitrate(v, agrees).stage = "judge"
    BY DEF Arbitrate, ByJudge
  <2>2. verification[current[w]] \in Verifications
    BY <1>0, <1>1 DEF StoreTypes
  <2>3. (Batch(w).answer[current[w]] = "agree") \in BOOLEAN
    OBVIOUS
  <2> QED BY <2>1, <2>2, <2>3 DEF ApplyVerdict
<1>3. /\ verification'[current[w]].stage = "judge"
      /\ \A c \in Calls \ {current[w]} : verification'[c] = verification[c]
  BY <1>0, <1>1, <1>2 DEF StoreTypes
<1>4. UNCHANGED <<replay, item>> /\ at'[w] = "apply" /\ todo'[w] \subseteq todo[w]
  BY <1>0 DEF LocalTypes, ApplyVerdict
<1>5. \A v \in Runners \ {w} : /\ at'[v] = at[v] /\ todo'[v] = todo[v]
                                 /\ current'[v] = current[v]
  BY <1>0 DEF LocalTypes, NextCandidate, ApplyVerdict
<1>6. verification[current[w]].stage # "none" /\ replay[current[w]] = "ok"
  BY <1>1 DEF Stages, StagesBuildUp, Queued, Banded
<1>7. StagesBuildUp' /\ Linked'
  BY <1>1, <1>3, <1>4, <1>6 DEF Stages, StagesBuildUp, Linked, Queued, Banded
<1>8. ASSUME NEW v \in Runners PROVE StageOf(v)'
  <2>1. at[v] \in {"cascade", "queue"} => current[v] \in Calls
    BY DEF Core, InHand, InHandOf, Handling
  <2>2. CASE v = w
    BY <1>0, <1>4, <2>2 DEF StageOf, Queued, ApplyVerdict
  <2>3. CASE v # w
    <3>1. at'[v] = at[v] /\ todo'[v] = todo[v] /\ current'[v] = current[v] /\ StageOf(v)
      BY <1>5, <2>3 DEF Stages
    <3>2. at[v] = "cascade" => current[v] # current[w]
      BY <1>6, <3>1 DEF StageOf
    <3> QED BY <1>3, <1>4, <2>1, <3>1, <3>2 DEF StageOf, Queued, Banded
  <2> QED BY <2>2, <2>3
<1>9. Alone'
  BY <1>4, <1>5 DEF Stages, Alone
<1> QED BY <1>7, <1>8, <1>9 DEF Stages

LEMMA StagesHold == Spec => []Stages
<1>1. Init => Stages
  BY DEF Init, Stages, StagesBuildUp, StageOf, Alone, Linked, Queued, NoVerification, NoItem
<1>2. Core /\ Stages /\ [Next]_vars => Stages'
  <2> SUFFICES ASSUME Core, Stages, [Next]_vars PROVE Stages'
    OBVIOUS
  <2>1. Core'
    BY CoreNext
  <2>2. CASE \E w \in Runners :
               \/ SelectCandidates(w) \/ SubmitRead(w) \/ PollRead(w) \/ SkipCandidate(w)
               \/ Abort(w) \/ PostBatch(w) \/ InsertJudgeBatch(w) \/ PollBatch(w)
               \/ CompleteJudgeBatch(w)
    BY <2>1, <2>2, StagesOfOthers
  <2>3. CASE \E w \in Runners : Replay(w)
    BY <2>1, <2>3, SendReplayStages, RecordReplayStages, RunCascadeStages,
       InsertJudgeItemStages, NameJudgeItemStages DEF Replay
  <2>4. CASE \E w \in Runners : MarkItem(w) \/ FetchResults(w) \/ ApplyResult(w) \/ ApplyVerdict(w)
    BY <2>1, <2>4, MarkItemStages, FetchResultsStages, ApplyResultStages, ApplyVerdictStages
  <2>5. ASSUME UNCHANGED <<store, local>> PROVE Stages'
    BY <2>5 DEF Stages, StagesBuildUp, StageOf, Alone, Linked, Queued, Banded
  <2>6. CASE \E b \in DOMAIN api : BatchEnds(b) \/ BatchRetires(b)
    BY <2>5, <2>6 DEF BatchEnds, BatchRetires
  <2>7. CASE UNCHANGED vars
    BY <2>5, <2>7
  <2> QED BY <2>2, <2>3, <2>4, <2>6, <2>7 DEF Next, Command, Submit, Poll
<1> QED BY <1>1, <1>2, CoreHolds, PTL DEF Spec

\* A verification has a successful replay, an item a verification left in the
\* middle band, and a judged verification an item, however many commands run.
THEOREM BuildUp == Spec => []StagesBuildUp
BY StagesHold, PTL DEF Stages

-----------------------------------------------------------------------------
\* A verdict rests on the stages before it and on the arbitration rule
\* (replay.go, verify.go, poll.go), whatever commands overlap and crash.
THEOREM VerdictsStand == Spec => []VerdictsRest
  BY BuildUp, Rule, PTL DEF VerdictsRest

-----------------------------------------------------------------------------
(***************************************************************************)
(* One command at a time.  Two submissions that overlap may send one item  *)
(* twice, and a poll may complete a batch whose items are still being      *)
(* marked; the hourly unit starts its commands one after the other.  Then  *)
(* an item waits in no batch, a batch is completed when all of its lines   *)
(* are applied, and applying a line again changes nothing.                 *)
(***************************************************************************)
OneRunner == \A v, w \in Runners : v = w

Verdicts == {"agree", "differ"}

\* An item that waits has no batch, and its verification no decision.
Waiting == \A c \in Calls : item[c].status = "queued" => Banded(c) /\ item[c].row = 0

\* What the judge decided is what the batch of the item's row says.
Judged ==
    \A c \in Calls : verification[c].stage = "judge" =>
        item[c].row \in DOMAIN rows /\ RuledBy(rows[item[c].row].api, c)

\* A row is completed after its batch ended.
Completed == \A i \in DOMAIN rows : rows[i].status = "completed" => api[rows[i].api].state # "running"

\* A batch answers for the calls in it only.
NoStrangers == \A b \in DOMAIN api : \A c \in Calls \ api[b].calls : api[b].answer[c] = "none"

Tables == Waiting /\ Judged /\ Completed /\ ResultsApplied

\* What the one command holds: a call whose item is new, items that wait, or
\* the lines of its batch that are not applied yet.
OrderedOf(w) ==
    /\ at[w] = "queue" => Banded(current[w]) /\ item[current[w]].status = "none"
    /\ at[w] = "name" => Banded(current[w]) /\ item[current[w]].status = "queued"
    /\ at[w] \in {"post", "insert", "mark"} => \A c \in todo[w] : item[c].status = "queued"
    /\ at[w] = "mark" => rows[batch[w]].status = "submitted"
    /\ at[w] \in {"apply", "decide"} =>
          /\ \A c \in todo[w] : item[c].row = batch[w]
          /\ \A c \in Calls : item[c].row = batch[w] /\ item[c].named /\ Batch(w).answer[c] \in Verdicts
                => c \in todo[w] \/ verification[c].stage = "judge"

Ordered == Tables /\ \A w \in Runners : OrderedOf(w)

LEMMA StrangersStep ==
    ASSUME Core, NoStrangers, [Next]_vars
    PROVE  NoStrangers'
<1>0. api \in Seq(Batches) /\ DOMAIN api = 1..Len(api) /\ Len(api) \in Nat /\ todo \in [Runners -> SUBSET Calls]
  BY DEF Core, TypeOK
<1>1. ASSUME NEW w \in Runners, PostBatch(w)
      PROVE  NoStrangers'
  <2> DEFINE new == [calls |-> todo[w], state |-> "running", answer |-> [c \in Calls |-> "none"]]
  <2>1. api' = Append(api, new) /\ new \in Batches
    BY <1>0, <1>1 DEF PostBatch, Batches
  <2>2. \A c \in Calls \ new.calls : new.answer[c] = "none"
    OBVIOUS
  <2>3. /\ \A b \in DOMAIN api : api'[b] = api[b]
        /\ DOMAIN api' = DOMAIN api \cup {Len(api) + 1} /\ api'[Len(api) + 1] = new
    BY <2>1, TypeParts DEF Core, TableTypes
  <2> HIDE DEF new
  <2> QED BY <2>2, <2>3 DEF NoStrangers
<1>2. ASSUME NEW b \in DOMAIN api, BatchEnds(b)
      PROVE  NoStrangers'
  <2>1. PICK answers \in [api[b].calls -> Answers] :
           api' = [api EXCEPT ![b].state = "ended",
                              ![b].answer = [c \in Calls |->
                                  IF c \in api[b].calls THEN answers[c] ELSE "none"]]
    BY <1>2 DEF BatchEnds
  <2> DEFINE given == [c \in Calls |-> IF c \in api[b].calls THEN answers[c] ELSE "none"]
             new == [api[b] EXCEPT !.state = "ended", !.answer = given]
  <2>2. api[b] \in Batches
    BY DEF Core, TypeOK
  <2>3. given \in [Calls -> AllAnswers \cup {"none"}] /\ \A c \in Calls \ api[b].calls : given[c] = "none"
    BY <2>2, AnswersAssumption DEF Batches
  <2>4. api' = [api EXCEPT ![b] = new]
    BY <2>1
  <2> HIDE DEF given
  <2>5. new.calls = api[b].calls /\ new.answer = given
    BY <2>2, <2>3 DEF Batches
  <2> HIDE DEF new
  <2> QED BY <1>0, <2>3, <2>4, <2>5 DEF NoStrangers
<1>3. ASSUME NEW b \in DOMAIN api, BatchRetires(b)
      PROVE  NoStrangers'
  <2> DEFINE new == [api[b] EXCEPT !.state = "retired"]
  <2>1. api' = [api EXCEPT ![b] = new] /\ api[b] \in Batches
    BY <1>3 DEF BatchRetires, Core, TypeOK
  <2>2. new.calls = api[b].calls /\ new.answer = api[b].answer
    BY <2>1 DEF Batches
  <2> HIDE DEF new
  <2> QED BY <1>0, <2>1, <2>2 DEF NoStrangers
<1>4. ASSUME UNCHANGED api
      PROVE  NoStrangers'
  BY <1>4 DEF NoStrangers
<1>5. \/ UNCHANGED api
      \/ \E w \in Runners : PostBatch(w)
      \/ \E b \in DOMAIN api : BatchEnds(b) \/ BatchRetires(b)
  BY DEF Next, Command, Replay, Submit, Poll, SelectCandidates, SendReplay, RecordReplay, RunCascade,
         InsertJudgeItem, NameJudgeItem, SkipCandidate, SubmitRead, InsertJudgeBatch,
         MarkItem, PollRead, PollBatch, FetchResults, ApplyResult, ApplyVerdict, CompleteJudgeBatch, Abort
<1> QED BY <1>1, <1>2, <1>3, <1>4, <1>5

\* Tables that grow without a verification, an item or a completion.
LEMMA TablesKept ==
    ASSUME Core, ApiGrows, RowsGrow, Tables, UNCHANGED <<verification, item>>,
           \A i \in DOMAIN rows' : rows'[i].status = "completed" =>
                i \in DOMAIN rows /\ rows[i].status = "completed"
    PROVE  Tables'
<1>1. Waiting'
  BY DEF Tables, Waiting, Banded
<1>2. ASSUME NEW b \in DOMAIN api, NEW c \in Calls, RuledBy(b, c)
      PROVE  RuledBy(b, c)'
  <2>1. api[b].state # "running"
    BY <1>2 DEF RuledBy, Core, Settled
  <2>2. api'[b].answer = api[b].answer
    BY <2>1 DEF ApiGrows
  <2> QED BY <1>2, <2>2 DEF RuledBy
<1>3. Judged'
  <2> SUFFICES ASSUME NEW c \in Calls, verification'[c].stage = "judge"
               PROVE  item'[c].row \in DOMAIN rows' /\ RuledBy(rows[item[c].row].api, c)'
    BY DEF Judged
  <2>1. item[c].row \in DOMAIN rows /\ RuledBy(rows[item[c].row].api, c)
    BY DEF Tables, Judged
  <2>2. PICK b : b = rows[item[c].row].api
    OBVIOUS
  <2>3. b \in DOMAIN api /\ RuledBy(b, c)
    BY <2>1, <2>2, RowsDenote DEF Core
  <2>4. RuledBy(b, c)'
    BY <1>2, <2>3
  <2>5. item'[c].row \in DOMAIN rows' /\ rows'[item'[c].row].api = b
    BY <2>1, <2>2 DEF RowsGrow
  <2> QED BY <2>4, <2>5 DEF RuledBy
<1>4. ASSUME NEW i \in DOMAIN rows', rows'[i].status = "completed"
      PROVE  /\ i \in DOMAIN rows /\ rows[i].status = "completed" /\ rows'[i].api = rows[i].api
             /\ api'[rows[i].api].state # "running" /\ api'[rows[i].api].answer = api[rows[i].api].answer
  <2>1. i \in DOMAIN rows /\ rows[i].status = "completed" /\ rows'[i].api = rows[i].api
    BY <1>4 DEF RowsGrow
  <2>2. rows[i].api \in DOMAIN api /\ api[rows[i].api].state # "running"
    BY <2>1, RowsDenote DEF Core, Tables, Completed
  <2> QED BY <2>1, <2>2 DEF ApiGrows
<1>5. Completed'
  BY <1>4 DEF Completed
<1>6. ResultsApplied'
  <2> SUFFICES ASSUME NEW c \in Calls, item'[c].row > 0, item'[c].named, rows'[item'[c].row].status = "completed",
                      api'[rows'[item'[c].row].api].answer[c] \in {"agree", "differ"}
               PROVE  verification'[c].stage = "judge"
    BY DEF ResultsApplied
  <2>1. PICK i : i = item[c].row
    OBVIOUS
  <2>2. i \in DOMAIN rows /\ i \in DOMAIN rows'
    <3>1. item[c] \in Items /\ rows \in Seq(Rows)
      BY DEF Core, TypeOK
    <3>2. i \in 0..Len(rows) /\ i > 0
      BY <2>1, <3>1 DEF Items
    <3>3. i \in DOMAIN rows
      BY <3>1, <3>2
    <3> QED BY <3>3 DEF RowsGrow
  <2>3. /\ rows[i].status = "completed" /\ rows'[i].api = rows[i].api
        /\ api'[rows[i].api].answer = api[rows[i].api].answer
    BY <1>4, <2>1, <2>2
  <2> QED BY <2>1, <2>3 DEF Tables, ResultsApplied
<1> QED BY <1>1, <1>3, <1>5, <1>6 DEF Tables

\* The steps of the one command that only go on.
LEMMA OrderedGoesOn ==
    ASSUME OneRunner, Core, ApiGrows, RowsGrow, Ordered, NEW w \in Runners,
           SelectCandidates(w) \/ SendReplay(w) \/ RecordReplay(w) \/ SkipCandidate(w)
             \/ SubmitRead(w) \/ PollRead(w) \/ PollBatch(w) \/ Abort(w)
    PROVE  Ordered'
<1>0. at \in [Runners -> Points] /\ todo \in [Runners -> SUBSET Calls]
  BY DEF Core, TypeOK
<1>1. UNCHANGED <<verification, item, rows, api>>
  BY DEF SelectCandidates, SendReplay, RecordReplay, SkipCandidate, SubmitRead, PollRead, PollBatch, Abort
<1>2. Tables'
  BY <1>1, TablesKept DEF Ordered
<1>3. \/ at'[w] \in {"idle", "send", "record", "cascade", "poll", "fetch"}
      \/ at'[w] = "post" /\ todo'[w] = QueuedItems
  BY <1>0 DEF SelectCandidates, SendReplay, RecordReplay, SkipCandidate, SubmitRead, PollRead, PollBatch, Abort,
              NextCandidate, NextBatch
<1>4. OrderedOf(w)'
  BY <1>1, <1>3 DEF OrderedOf, QueuedItems
<1> QED BY <1>2, <1>4 DEF Ordered, OneRunner

LEMMA PostBatchOrdered ==
    ASSUME OneRunner, Core, ApiGrows, RowsGrow, Ordered, NEW w \in Runners, PostBatch(w)
    PROVE  Ordered'
<1>1. Tables'
  BY TablesKept DEF Ordered, PostBatch
<1>2. OrderedOf(w)'
  BY DEF Ordered, OrderedOf, PostBatch, Core, TypeOK
<1> QED BY <1>1, <1>2 DEF Ordered, OneRunner

LEMMA InsertJudgeBatchOrdered ==
    ASSUME OneRunner, Core, ApiGrows, RowsGrow, Ordered, NEW w \in Runners, InsertJudgeBatch(w)
    PROVE  Ordered'
<1>0. /\ at \in [Runners -> Points] /\ batch \in [Runners -> Nat] /\ rows \in Seq(Rows)
      /\ batch[w] \in DOMAIN api /\ DOMAIN api = 1..Len(api)
  BY DEF Core, TypeOK, InHand, InHandOf, InsertJudgeBatch
<1> DEFINE new == [api |-> batch[w], status |-> "submitted"]
<1>1. rows' = Append(rows, new) /\ new \in Rows
  BY <1>0 DEF InsertJudgeBatch, Rows
<1>2. new.status = "submitted"
  OBVIOUS
<1>3. /\ \A i \in DOMAIN rows : rows'[i] = rows[i]
      /\ DOMAIN rows' = DOMAIN rows \cup {Len(rows) + 1} /\ rows'[Len(rows) + 1] = new
  BY <1>1, TypeParts DEF Core, TableTypes
<1> HIDE DEF new
<1>4. Tables'
  <2>1. \A i \in DOMAIN rows' : rows'[i].status = "completed" => i \in DOMAIN rows /\ rows[i].status = "completed"
    BY <1>2, <1>3
  <2> QED BY <2>1, TablesKept DEF Ordered, InsertJudgeBatch
<1>5. OrderedOf(w)'
  <2>1. /\ at'[w] = "mark" /\ batch'[w] = Len(rows) + 1 /\ UNCHANGED <<todo, item>> /\ at[w] = "insert"
    BY <1>0 DEF InsertJudgeBatch
  <2> QED BY <1>2, <1>3, <2>1 DEF Ordered, OrderedOf
<1> QED BY <1>4, <1>5 DEF Ordered, OneRunner

LEMMA FetchResultsOrdered ==
    ASSUME OneRunner, Core, ApiGrows, RowsGrow, NoStrangers, Ordered, NEW w \in Runners, FetchResults(w)
    PROVE  Ordered'
<1>0. /\ at \in [Runners -> Points] /\ todo \in [Runners -> SUBSET Calls] /\ batch[w] \in DOMAIN rows
  BY DEF Core, TypeOK, InHand, InHandOf, FetchResults
<1>1. UNCHANGED <<verification, item, rows, api, batch>> /\ at'[w] = "apply"
  BY <1>0 DEF FetchResults
<1>2. Tables'
  BY <1>1, TablesKept DEF Ordered
<1>3. MatchedLines(w) \subseteq Calls
  <2>1. Batch(w).calls \subseteq Calls
    BY <1>0, RowsDenote DEF Core, Batch, Batches
  <2> QED BY <2>1 DEF MatchedLines
<1>4. todo'[w] = MatchedLines(w)
  BY <1>0, <1>3 DEF FetchResults
<1>5. \A c \in Calls : item[c].row = batch[w] /\ item[c].named /\ Batch(w).answer[c] \in Verdicts
          => c \in MatchedLines(w)
  <2>1. rows[batch[w]].api \in DOMAIN api
    BY <1>0, RowsDenote DEF Core
  <2>2. \A c \in Calls \ Batch(w).calls : Batch(w).answer[c] = "none"
    BY <2>1 DEF NoStrangers, Batch
  <2> QED BY <2>2 DEF MatchedLines, Verdicts
<1>6. \A c \in MatchedLines(w) : item[c].row = batch[w]
  BY DEF MatchedLines
<1>7. OrderedOf(w)'
  BY <1>1, <1>4, <1>5, <1>6 DEF OrderedOf, Batch
<1> QED BY <1>2, <1>7 DEF Ordered, OneRunner

\* The cascade decides for a call that had no verification, and no item.
LEMMA RunCascadeOrdered ==
    ASSUME OneRunner, Core, Stages, Ordered, NEW w \in Runners, RunCascade(w)
    PROVE  Ordered' /\ \A c \in Calls : Decided(c) => verification'[c] = verification[c]
<1>0. /\ at \in [Runners -> Points] /\ verification \in [Calls -> Verifications] /\ item \in [Calls -> Items]
      /\ current[w] \in Calls /\ current \in [Runners -> Calls \cup {None}]
  BY DEF Core, TypeOK, InHand, InHandOf, Handling, RunCascade
<1>1. PICK c \in Calls : c = current[w]
  BY <1>0
<1>2. PICK v \in Judgements :
          /\ verification' = [verification EXCEPT ![c] = v]
          /\ IF v.agree = "null" THEN Goto(w, "queue") /\ UNCHANGED <<todo, current>>
                                 ELSE NextCandidate(w, todo[w] \ {c})
  BY <1>1 DEF RunCascade
<1>3. UNCHANGED <<item, rows, api, batch>>
  BY DEF RunCascade
<1>4. verification[c].stage = "none" /\ item[c].status = "none" /\ verification[c].agree = "null"
  <2>1. verification[c].stage = "none"
    BY <1>1 DEF Stages, StageOf, RunCascade
  <2>2. item[c].status = "none"
    BY <2>1 DEF Stages, StagesBuildUp, Banded
  <2>3. verification[c] = NoVerification
    <3>1. verification[c] \in Verifications
      BY <1>0
    <3>2. CASE verification[c] \in Judgements
      BY <2>1, <3>2, CascadeStages
    <3>3. CASE verification[c] \in [stage : {"judge"}, agree : {"yes", "no"}, conflict : BOOLEAN,
                                    lint : Outcomes, tests : Outcomes]
      BY <2>1, <3>3
    <3> QED BY <3>1, <3>2, <3>3 DEF Verifications
  <2> QED BY <2>1, <2>2, <2>3 DEF NoVerification
<1>5. v.stage \in {"exact", "ast"} /\ (v.agree = "null" => v.stage = "ast")
  BY CascadeStages
<1>6. verification'[c] = v /\ \A d \in Calls \ {c} : verification'[d] = verification[d]
  BY <1>0, <1>2
<1>7. Waiting'
  BY <1>3, <1>4, <1>6 DEF Ordered, Tables, Waiting, Banded
<1>8. Judged'
  BY <1>3, <1>5, <1>6 DEF Ordered, Tables, Judged, RuledBy
<1>9. Completed' /\ ResultsApplied'
  BY <1>3, <1>4, <1>6 DEF Ordered, Tables, Completed, ResultsApplied
<1>10. OrderedOf(w)'
  <2>1. CASE v.agree = "null"
    <3>1. at'[w] = "queue" /\ current'[w] = c
      BY <1>0, <1>1, <1>2, <2>1
    <3> QED BY <1>3, <1>4, <1>5, <1>6, <2>1, <3>1 DEF OrderedOf, Banded
  <2>2. CASE v.agree # "null"
    <3>1. at'[w] \in {"idle", "send"}
      BY <1>0, <1>2, <2>2 DEF NextCandidate
    <3> QED BY <3>1 DEF OrderedOf
  <2> QED BY <2>1, <2>2
<1>11. Ordered'
  BY <1>7, <1>8, <1>9, <1>10 DEF Ordered, Tables, OneRunner
<1> QED BY <1>4, <1>6, <1>11 DEF Decided

\* Queueing: a call in the middle band gets its item, and then its name.
LEMMA InsertJudgeItemOrdered ==
    ASSUME OneRunner, Core, ApiGrows, RowsGrow, Ordered, NEW w \in Runners, InsertJudgeItem(w)
    PROVE  Ordered'
<1>0. /\ at \in [Runners -> Points] /\ item \in [Calls -> Items] /\ current[w] \in Calls
      /\ UNCHANGED <<verification, rows, api, current>>
  BY DEF Core, TypeOK, InHand, InHandOf, Handling, InsertJudgeItem
<1>1. PICK c \in Calls : c = current[w]
  BY <1>0
<1>2. Banded(c) /\ verification[c].stage # "judge"
  BY <1>1 DEF Ordered, OrderedOf, InsertJudgeItem, Banded
<1>3. /\ item'[c] = [status |-> "queued", named |-> FALSE, row |-> 0]
      /\ \A d \in Calls \ {c} : item'[d] = item[d]
  BY <1>0, <1>1 DEF InsertJudgeItem
<1>4. item'[c].status = "queued" /\ item'[c].row = 0
  BY <1>3
<1>5. Waiting' /\ Judged'
  BY <1>0, <1>2, <1>3, <1>4 DEF Ordered, Tables, Waiting, Judged, Banded, RuledBy
<1>6. Completed' /\ ResultsApplied'
  BY <1>0, <1>3, <1>4 DEF Ordered, Tables, Completed, ResultsApplied
<1>7. OrderedOf(w)'
  <2>1. at'[w] = "name" /\ current'[w] = c
    BY <1>0, <1>1 DEF InsertJudgeItem
  <2> QED BY <1>0, <1>2, <1>4, <2>1 DEF OrderedOf, Banded
<1> QED BY <1>5, <1>6, <1>7 DEF Ordered, Tables, OneRunner

LEMMA NameJudgeItemOrdered ==
    ASSUME OneRunner, Core, ApiGrows, RowsGrow, Ordered, NEW w \in Runners, NameJudgeItem(w)
    PROVE  Ordered'
<1>0. /\ at \in [Runners -> Points] /\ item \in [Calls -> Items] /\ current[w] \in Calls
      /\ UNCHANGED <<verification, rows, api>>
  BY DEF Core, TypeOK, InHand, InHandOf, Handling, NameJudgeItem
<1>1. PICK c \in Calls : c = current[w]
  BY <1>0
<1>2. item[c].status = "queued" /\ item[c].row = 0
  BY <1>1 DEF Ordered, OrderedOf, NameJudgeItem, Tables, Waiting
<1>3. /\ item'[c].status = item[c].status /\ item'[c].row = item[c].row
      /\ \A d \in Calls \ {c} : item'[d] = item[d]
  BY <1>0, <1>1 DEF NameJudgeItem, Items
<1>4. Waiting' /\ Judged'
  BY <1>0, <1>3 DEF Ordered, Tables, Waiting, Judged, Banded, RuledBy
<1>5. Completed' /\ ResultsApplied'
  BY <1>0, <1>2, <1>3 DEF Ordered, Tables, Completed, ResultsApplied
<1>6. OrderedOf(w)'
  <2>1. at'[w] \in {"idle", "send"}
    BY <1>0 DEF NameJudgeItem, NextCandidate
  <2> QED BY <2>1 DEF OrderedOf
<1> QED BY <1>4, <1>5, <1>6 DEF Ordered, Tables, OneRunner

\* Marking: an item that waited is linked to a row that is not completed.
LEMMA MarkItemOrdered ==
    ASSUME OneRunner, Core, ApiGrows, RowsGrow, Ordered, NEW w \in Runners, MarkItem(w)
    PROVE  Ordered'
<1>0. /\ at \in [Runners -> Points] /\ item \in [Calls -> Items] /\ todo \in [Runners -> SUBSET Calls]
      /\ batch \in [Runners -> Nat] /\ UNCHANGED <<verification, rows, api>>
  BY DEF Core, TypeOK, MarkItem
<1>1. PICK c \in todo[w] :
         /\ item' = [item EXCEPT ![c] = [item[c] EXCEPT !.status = "submitted", !.row = batch[w]]]
         /\ SetTodo(w, todo[w] \ {c})
         /\ IF todo[w] = {c} THEN Goto(w, "idle") /\ batch' = [batch EXCEPT ![w] = 0]
                             ELSE UNCHANGED <<at, batch>>
  BY DEF MarkItem
<1>2. /\ c \in Calls /\ item[c].status = "queued" /\ item[c].row = 0 /\ Banded(c)
      /\ rows[batch[w]].status = "submitted"
  BY <1>0, <1>1 DEF Ordered, OrderedOf, MarkItem, Tables, Waiting
<1>3. /\ item'[c].status = "submitted" /\ item'[c].row = batch[w]
      /\ \A d \in Calls \ {c} : item'[d] = item[d]
  BY <1>0, <1>1, <1>2 DEF Items
<1>4. Waiting' /\ Judged'
  BY <1>0, <1>2, <1>3 DEF Ordered, Tables, Waiting, Judged, Banded, RuledBy
<1>5. Completed' /\ ResultsApplied'
  BY <1>0, <1>2, <1>3 DEF Ordered, Tables, Completed, ResultsApplied
<1>6. OrderedOf(w)'
  <2>1. at'[w] \in {"idle", "mark"} /\ todo'[w] = todo[w] \ {c} /\ (at'[w] = "mark" => batch'[w] = batch[w])
    BY <1>0, <1>1 DEF MarkItem
  <2>2. \A d \in todo'[w] : d \in Calls \ {c} /\ item[d].status = "queued"
    BY <1>0, <2>1 DEF Ordered, OrderedOf, MarkItem
  <2> QED BY <1>0, <1>2, <1>3, <2>1, <2>2 DEF OrderedOf
<1> QED BY <1>4, <1>5, <1>6 DEF Ordered, Tables, OneRunner

\* Applying a line: the item keeps its row and its name, and a verdict is left
\* to the next statement.
LEMMA ApplyResultOrdered ==
    ASSUME OneRunner, Core, ApiGrows, RowsGrow, Ordered, NEW w \in Runners, ApplyResult(w)
    PROVE  Ordered'
<1>0. /\ at \in [Runners -> Points] /\ item \in [Calls -> Items] /\ todo \in [Runners -> SUBSET Calls]
      /\ UNCHANGED <<verification, rows, api, batch>>
  BY DEF Core, TypeOK, ApplyResult
<1>1. PICK c \in todo[w], status \in {"errored", "done"} :
         /\ item' = [item EXCEPT ![c] = [item[c] EXCEPT !.status = status]]
         /\ \/ Batch(w).answer[c] = "errored" /\ SetTodo(w, todo[w] \ {c}) /\ UNCHANGED at
            \/ Goto(w, "decide") /\ UNCHANGED todo
  BY DEF ApplyResult
<1>2. c \in Calls /\ at[w] = "apply"
  BY <1>0 DEF ApplyResult
<1>3. /\ item'[c].status = status /\ item'[c].row = item[c].row /\ item'[c].named = item[c].named
      /\ \A d \in Calls \ {c} : item'[d] = item[d]
  BY <1>0, <1>1, <1>2 DEF Items
<1>4. Waiting' /\ Judged'
  BY <1>0, <1>3 DEF Ordered, Tables, Waiting, Judged, Banded, RuledBy
<1>5. Completed' /\ ResultsApplied'
  BY <1>0, <1>3 DEF Ordered, Tables, Completed, ResultsApplied
<1>6. OrderedOf(w)'
  <2>1. /\ at'[w] \in {"apply", "decide"} /\ todo'[w] \subseteq todo[w]
        /\ \A d \in todo[w] : Batch(w).answer[d] \in Verdicts => d \in todo'[w]
    BY <1>0, <1>1, <1>2 DEF Verdicts
  <2>2. \A d \in Calls : item'[d].row = item[d].row /\ item'[d].named = item[d].named
    BY <1>3
  <2>3. Batch(w)' = Batch(w)
    BY <1>0 DEF Batch
  <2>4. OrderedOf(w)
    BY DEF Ordered
  <2> QED BY <1>0, <1>2, <2>1, <2>2, <2>3, <2>4 DEF OrderedOf
<1> QED BY <1>4, <1>5, <1>6 DEF Ordered, Tables, OneRunner

\* What the rule says for an answer is one decision.
LEMMA OneDecision ==
    ASSUME NEW v \in Verifications, NEW u \in Verifications, NEW agrees \in BOOLEAN,
           v.stage = "judge", u.stage = "judge", u.tests = v.tests, u.lint = v.lint,
           v.agree = u.agree, v.conflict <=> u.conflict
    PROVE  u = v
<1>1. \A x \in Verifications : x.stage = "judge" =>
          x \in [stage : {"judge"}, agree : {"yes", "no"}, conflict : BOOLEAN,
                 lint : Outcomes, tests : Outcomes]
  BY CascadeStages DEF Verifications, NoVerification
<1> QED BY <1>1

\* A verdict is applied: the item's batch, asked again, decides the same.
LEMMA ApplyVerdictOrdered ==
    ASSUME OneRunner, Core, Core', Stages, Ordered, NEW w \in Runners, ApplyVerdict(w)
    PROVE  Ordered' /\ \A c \in Calls : Decided(c) => verification'[c] = verification[c]
<1>0. /\ at \in [Runners -> Points] /\ todo \in [Runners -> SUBSET Calls] /\ item \in [Calls -> Items]
      /\ verification \in [Calls -> Verifications] /\ verification' \in [Calls -> Verifications]
      /\ batch[w] \in DOMAIN rows /\ current[w] \in todo[w] /\ current[w] \in Calls
      /\ UNCHANGED <<item, rows, api, batch>> /\ InHandOf(w)
  BY DEF Core, TypeOK, InHand, InHandOf, Handling, ApplyVerdict
<1>1. PICK c \in Calls : c = current[w]
  BY <1>0
<1>2. PICK told : told = rows[batch[w]].api
  OBVIOUS
<1>3. item[c].row = batch[w] /\ Queued(c)
  BY <1>0, <1>1 DEF Ordered, OrderedOf, Stages, StageOf, ApplyVerdict
<1>4. item[c].status # "queued"
  BY <1>0, <1>3 DEF Ordered, Tables, Waiting, Core, TypeOK
<1>5. RuledBy(told, c)' /\ verification'[c].stage = "judge"
  BY <1>1, <1>2, VerdictRuled
<1>6. \A d \in Calls \ {c} : verification'[d] = verification[d]
  BY <1>0, <1>1 DEF ApplyVerdict
<1>7. verification'[c].tests = verification[c].tests /\ verification'[c].lint = verification[c].lint
  <2>1. PICK agrees \in BOOLEAN : verification'[c] = Arbitrate(verification[c], agrees)
    BY <1>0, <1>1 DEF ApplyVerdict
  <2>2. PICK yes, conflict \in BOOLEAN : verification'[c] = ByJudge(verification[c], yes, conflict)
    BY <1>0, <2>1, ArbitrateRule
  <2> QED BY <2>2 DEF ByJudge
<1>8. Waiting'
  BY <1>0, <1>4, <1>6 DEF Ordered, Tables, Waiting, Banded
<1>9. Judged'
  BY <1>0, <1>2, <1>3, <1>5, <1>6 DEF Ordered, Tables, Judged, RuledBy
<1>10. Completed' /\ ResultsApplied'
  BY <1>0, <1>5, <1>6 DEF Ordered, Tables, Completed, ResultsApplied
<1>11. OrderedOf(w)'
  <2>1. at'[w] = "apply" /\ todo'[w] = todo[w] \ {c} /\ Batch(w)' = Batch(w)
    BY <1>0, <1>1 DEF ApplyVerdict, Batch
  <2>2. OrderedOf(w) /\ at[w] = "decide"
    BY DEF Ordered, ApplyVerdict
  <2> QED BY <1>0, <1>5, <1>6, <2>1, <2>2 DEF OrderedOf
<1>12. Decided(c) => verification'[c] = verification[c]
  <2> SUFFICES ASSUME Decided(c) PROVE verification'[c] = verification[c]
    OBVIOUS
  <2>1. verification[c].stage = "judge"
    BY <1>3 DEF Stages, StagesBuildUp, Queued, Banded, Decided
  <2>2. RuledBy(told, c)
    BY <1>2, <1>3, <2>1 DEF Ordered, Tables, Judged
  <2>3. verification'[c].agree = verification[c].agree
    BY <1>0, <1>5, <1>7, <2>2 DEF RuledBy
  <2>4. verification'[c].conflict <=> verification[c].conflict
    BY <1>0, <1>5, <2>2, <2>3 DEF RuledBy
  <2>5. verification[c] \in Verifications /\ verification'[c] \in Verifications
    BY <1>0
  <2> QED BY <1>5, <1>7, <2>1, <2>3, <2>4, <2>5, OneDecision
<1> QED BY <1>6, <1>8, <1>9, <1>10, <1>11, <1>12 DEF Ordered, Tables, OneRunner

\* A batch is completed when none of its lines is left.
LEMMA CompleteJudgeBatchOrdered ==
    ASSUME OneRunner, Core, ApiGrows, RowsGrow, Ordered, NEW w \in Runners, CompleteJudgeBatch(w)
    PROVE  Ordered'
<1>0. /\ at \in [Runners -> Points] /\ item \in [Calls -> Items] /\ rows \in Seq(Rows)
      /\ batch[w] \in DOMAIN rows /\ Batch(w).state # "running" /\ todo[w] = {}
      /\ UNCHANGED <<verification, item, api>>
  BY DEF Core, TypeOK, InHand, InHandOf, CompleteJudgeBatch
<1>1. PICK i \in DOMAIN rows : i = batch[w]
  BY <1>0
<1>2. /\ DOMAIN rows' = DOMAIN rows /\ rows'[i].api = rows[i].api /\ rows'[i].status = "completed"
      /\ \A j \in DOMAIN rows \ {i} : rows'[j] = rows[j]
  <2>1. PICK new : new = [rows[i] EXCEPT !.status = "completed"] /\ rows' = [rows EXCEPT ![i] = new]
    BY <1>1 DEF CompleteJudgeBatch
  <2>2. new.api = rows[i].api /\ new.status = "completed"
    BY <2>1, RowsDenote DEF Core, Rows
  <2> QED BY <2>1, <2>2
<1>3. \A j \in DOMAIN rows : rows'[j].api = rows[j].api
  BY <1>2
<1>4. Waiting' /\ Judged'
  BY <1>0, <1>2, <1>3 DEF Ordered, Tables, Waiting, Judged, Banded, RuledBy
<1>5. Completed'
  BY <1>0, <1>1, <1>2 DEF Ordered, Tables, Completed, Batch
<1>6. \A c \in Calls : item[c].row = i /\ item[c].named /\ api[rows[i].api].answer[c] \in Verdicts
          => verification[c].stage = "judge"
  BY <1>0, <1>1 DEF Ordered, OrderedOf, CompleteJudgeBatch, Batch
<1>7. ResultsApplied'
  <2> SUFFICES ASSUME NEW c \in Calls, item[c].row > 0, item[c].named, rows'[item[c].row].status = "completed",
                      api[rows'[item[c].row].api].answer[c] \in Verdicts
               PROVE  verification[c].stage = "judge"
    BY <1>0 DEF ResultsApplied, Verdicts
  <2>1. PICK j : j = item[c].row
    OBVIOUS
  <2>2. j \in DOMAIN rows
    BY <1>0, <2>1 DEF Items
  <2>3. CASE j = i
    BY <1>2, <1>6, <2>1, <2>3
  <2>4. CASE j # i
    BY <1>2, <2>1, <2>2, <2>4 DEF Ordered, Tables, ResultsApplied, Verdicts
  <2> QED BY <2>3, <2>4
<1>8. OrderedOf(w)'
  <2>1. at'[w] \in {"idle", "poll"}
    BY <1>0 DEF CompleteJudgeBatch, NextBatch
  <2> QED BY <2>1 DEF OrderedOf
<1> QED BY <1>4, <1>5, <1>7, <1>8 DEF Ordered, Tables, OneRunner

\* The API goes on by itself, and what a command has in hand stays.
LEMMA ApiStepOrdered ==
    ASSUME Core, ApiGrows, RowsGrow, Ordered, UNCHANGED <<store, local>>
    PROVE  Ordered'
<1>1. UNCHANGED <<verification, item, rows, at, todo, current, batch>>
  BY DEF store, local
<1>2. Tables'
  BY <1>1, TablesKept DEF Ordered
<1>3. ASSUME NEW w \in Runners PROVE OrderedOf(w)'
  <2>1. OrderedOf(w) /\ InHandOf(w)
    BY DEF Ordered, Core, InHand
  <2>2. at[w] \in {"apply", "decide"} => Batch(w)'.answer = Batch(w).answer
    <3>1. at[w] \in {"apply", "decide"} => rows[batch[w]].api \in DOMAIN api /\ Batch(w).state # "running"
      BY <2>1, RowsDenote DEF Core, InHandOf
    <3> QED BY <1>1, <3>1 DEF ApiGrows, Batch
  <2> QED BY <1>1, <2>1, <2>2 DEF OrderedOf, Banded
<1> QED BY <1>2, <1>3 DEF Ordered

LEMMA OrderedStep ==
    ASSUME OneRunner, Core, Stages, NoStrangers, Ordered, [Next]_vars
    PROVE  Ordered' /\ \A c \in Calls : Decided(c) => verification'[c] = verification[c]
<1>1. Core' /\ ApiGrows /\ RowsGrow
  BY CoreNext
<1>2. ASSUME NEW w \in Runners,
             SelectCandidates(w) \/ SendReplay(w) \/ RecordReplay(w) \/ SkipCandidate(w)
               \/ SubmitRead(w) \/ PollRead(w) \/ PollBatch(w) \/ Abort(w)
      PROVE  Ordered'
  BY <1>1, <1>2, OrderedGoesOn
<1>3. ASSUME NEW w \in Runners,
             InsertJudgeItem(w) \/ NameJudgeItem(w) \/ PostBatch(w) \/ InsertJudgeBatch(w) \/ MarkItem(w)
               \/ FetchResults(w) \/ ApplyResult(w) \/ CompleteJudgeBatch(w)
      PROVE  Ordered'
  <2>1. CASE InsertJudgeItem(w) \/ NameJudgeItem(w)
    BY <1>1, <2>1, InsertJudgeItemOrdered, NameJudgeItemOrdered
  <2>2. CASE PostBatch(w) \/ InsertJudgeBatch(w) \/ MarkItem(w)
    BY <1>1, <2>2, PostBatchOrdered, InsertJudgeBatchOrdered, MarkItemOrdered
  <2>3. CASE FetchResults(w)
    BY <1>1, <2>3, FetchResultsOrdered
  <2>4. CASE ApplyResult(w) \/ CompleteJudgeBatch(w)
    BY <1>1, <2>4, ApplyResultOrdered, CompleteJudgeBatchOrdered
  <2> QED BY <1>3, <2>1, <2>2, <2>3, <2>4
<1>4. CASE \E w \in Runners : RunCascade(w)
  BY <1>4, RunCascadeOrdered
<1>5. CASE \E w \in Runners : ApplyVerdict(w)
  BY <1>1, <1>5, ApplyVerdictOrdered
<1>6. CASE \E b \in DOMAIN api : BatchEnds(b) \/ BatchRetires(b)
  BY <1>1, <1>6, ApiStepOrdered DEF BatchEnds, BatchRetires
<1>7. CASE UNCHANGED vars
  BY <1>1, <1>7, ApiStepOrdered DEF vars
<1>8. Ordered'
  BY <1>2, <1>3, <1>4, <1>5, <1>6, <1>7 DEF Next, Command, Replay, Submit, Poll
<1>9. CASE UNCHANGED verification
  BY <1>8, <1>9
<1> QED BY <1>1, <1>4, <1>5, <1>8, <1>9, WhoWrites

LEMMA OrderedHolds ==
    ASSUME OneRunner
    PROVE  Spec => [](Core /\ Stages /\ NoStrangers /\ Ordered)
<1>1. Init => NoStrangers /\ Ordered
  <2> SUFFICES ASSUME Init PROVE NoStrangers /\ Ordered
    OBVIOUS
  <2>1. \A c \in Calls : item[c] = NoItem /\ verification[c] = NoVerification
    BY DEF Init
  <2>2. \A c \in Calls : item[c].status = "none" /\ item[c].row = 0 /\ verification[c].stage = "none"
    BY <2>1 DEF NoItem, NoVerification
  <2>3. Tables /\ NoStrangers
    BY <2>2 DEF Init, Tables, Waiting, Judged, Completed, NoStrangers, ResultsApplied
  <2>4. \A w \in Runners : OrderedOf(w)
    BY DEF Init, OrderedOf
  <2> QED BY <2>3, <2>4 DEF Ordered
<1>2. Core /\ Stages /\ NoStrangers /\ Ordered /\ [Next]_vars => NoStrangers' /\ Ordered'
  BY OrderedStep, StrangersStep
<1> QED BY <1>1, <1>2, CoreHolds, StagesHold, PTL DEF Spec

\* With one command at a time, a completed batch has had every verdict in its
\* results applied to an item of it (Poll), whatever crashed on the way.
THEOREM ResultsAreApplied == OneRunner => (Spec => []ResultsApplied)
<1> SUFFICES ASSUME OneRunner PROVE Spec => []ResultsApplied
  OBVIOUS
<1> QED BY OrderedHolds, PTL DEF Ordered, Tables

\* With one command at a time, what has been decided stays as it was decided:
\* a line applied again after a crash decides the same.
THEOREM DecisionsStand == OneRunner => (Spec => DecisionIsFinal)
<1> SUFFICES ASSUME OneRunner PROVE Spec => DecisionIsFinal
  OBVIOUS
<1>1. Core /\ Stages /\ NoStrangers /\ Ordered /\ [Next]_vars
      => [\A c \in Calls : Decided(c) => verification'[c] = verification[c]]_vars
  BY OrderedStep
<1> QED BY <1>1, OrderedHolds, PTL DEF Spec, DecisionIsFinal

-----------------------------------------------------------------------------
(***************************************************************************)
(* Induction over the numbers, for a set: what it has from 0 on.           *)
(***************************************************************************)
\* What holds of 0 and goes on from each number holds of all of them.
LEMMA NatSetInduction ==
    ASSUME NEW S, 0 \in S, \A n \in Nat : n \in S => n + 1 \in S
    PROVE  Nat \subseteq S
<1> DEFINE T == Nat \ S
<1>1. SUFFICES ASSUME T # {} PROVE FALSE
  OBVIOUS
<1>2. PICK x \in T : \A y \in T : ~ (<<y, x>> \in OpToRel(<, Nat))
  BY <1>1, NatLessThanWellFounded, WFMin
<1>3. \A y \in T : ~ (y < x)
  BY <1>2 DEF OpToRel
<1>4. x \in Nat /\ x # 0
  OBVIOUS
<1>5. x - 1 \in S
  BY <1>3, <1>4
<1> QED BY <1>4, <1>5

(***************************************************************************)
(* The table of distances: its recursions are there.                       *)
(***************************************************************************)
\* f is the row of word x, as far as place m.
RowTo(f, prev, x, i, b, m) ==
    f = [j \in 0..m |-> IF j = 0 THEN i
                        ELSE Least({prev[j] + 1, f[j - 1] + 1, prev[j - 1] + Substitution(x, b[j])})]

\* The recursion of a row of the table is one: some function has these cells.
LEMMA RowExists ==
    ASSUME NEW prev, NEW x, NEW i, NEW b, NEW m \in Nat
    PROVE  \E f : RowTo(f, prev, x, i, b, m)
<1> DEFINE S == {k \in Nat : \E f : RowTo(f, prev, x, i, b, k)}
           value(f, j) == Least({prev[j] + 1, f[j - 1] + 1, prev[j - 1] + Substitution(x, b[j])})
<1>1. 0 \in S
  <2>1. RowTo([j \in 0..0 |-> i], prev, x, i, b, 0)
    BY DEF RowTo
  <2> QED BY <2>1
<1>2. ASSUME NEW k \in Nat, k \in S PROVE k + 1 \in S
  <2>1. PICK f : RowTo(f, prev, x, i, b, k)
    BY <1>2
  <2>2. PICK last : last = Least({prev[k + 1] + 1, f[k] + 1, prev[k] + Substitution(x, b[k + 1])})
    OBVIOUS
  <2> DEFINE g == [j \in 0..k + 1 |-> IF j = k + 1 THEN last ELSE f[j]]
  <2>3. ASSUME NEW j \in 0..k + 1
        PROVE  g[j] = IF j = 0 THEN i ELSE Least({prev[j] + 1, g[j - 1] + 1, prev[j - 1] + Substitution(x, b[j])})
    <3>1. CASE j = k + 1
      <4>1. g[j] = last /\ g[j - 1] = f[k] /\ j - 1 = k /\ j # 0
        BY <3>1
      <4> QED BY <2>2, <3>1, <4>1
    <3>2. CASE j # k + 1
      <4>1. g[j] = f[j] /\ j \in 0..k /\ (j # 0 => g[j - 1] = f[j - 1])
        BY <3>2
      <4>2. f[j] = IF j = 0 THEN i ELSE Least({prev[j] + 1, f[j - 1] + 1, prev[j - 1] + Substitution(x, b[j])})
        BY <2>1, <4>1 DEF RowTo
      <4> QED BY <4>1, <4>2
    <3> QED BY <3>1, <3>2
  <2>4. g = [j \in 0..k + 1 |-> g[j]]
    OBVIOUS
  <2> HIDE DEF g
  <2>5. RowTo(g, prev, x, i, b, k + 1)
    BY <2>3, <2>4 DEF RowTo
  <2> QED BY <2>5
<1> HIDE DEF S
<1>3. Nat \subseteq S
  BY <1>1, <1>2, NatSetInduction
<1> QED BY <1>3 DEF S

\* NextRow is the row its recursion says.
LEMMA RowIs ==
    ASSUME NEW prev, NEW x, NEW i, NEW b, Len(b) \in Nat
    PROVE  RowTo(NextRow(prev, x, i, b), prev, x, i, b, Len(b))
<1>1. \E f : RowTo(f, prev, x, i, b, Len(b))
  BY RowExists
<1>2. NextRow(prev, x, i, b) = CHOOSE f : RowTo(f, prev, x, i, b, Len(b))
  BY DEF NextRow, RowTo
<1> QED BY <1>1, <1>2

\* f is the table, as far as row n.
TableTo(f, a, b, n) ==
    f = [i \in 0..n |-> IF i = 0 THEN [j \in 0..Len(b) |-> j] ELSE NextRow(f[i - 1], a[i], i, b)]

\* The recursion over the rows is one.
LEMMA TableExists ==
    ASSUME NEW a, NEW b, NEW n \in Nat
    PROVE  \E f : TableTo(f, a, b, n)
<1> DEFINE S == {k \in Nat : \E f : TableTo(f, a, b, k)}
<1>1. 0 \in S
  <2>1. TableTo([i \in 0..0 |-> [j \in 0..Len(b) |-> j]], a, b, 0)
    BY DEF TableTo
  <2> QED BY <2>1
<1>2. ASSUME NEW k \in Nat, k \in S PROVE k + 1 \in S
  <2>1. PICK f : TableTo(f, a, b, k)
    BY <1>2
  <2>2. PICK last : last = NextRow(f[k], a[k + 1], k + 1, b)
    OBVIOUS
  <2> DEFINE g == [i \in 0..k + 1 |-> IF i = k + 1 THEN last ELSE f[i]]
  <2>3. ASSUME NEW i \in 0..k + 1
        PROVE  g[i] = IF i = 0 THEN [j \in 0..Len(b) |-> j] ELSE NextRow(g[i - 1], a[i], i, b)
    <3>1. CASE i = k + 1
      <4>1. g[i] = last /\ g[i - 1] = f[k] /\ i # 0
        BY <3>1
      <4> QED BY <2>2, <3>1, <4>1
    <3>2. CASE i # k + 1
      <4>1. g[i] = f[i] /\ i \in 0..k /\ (i # 0 => g[i - 1] = f[i - 1])
        BY <3>2
      <4>2. f[i] = IF i = 0 THEN [j \in 0..Len(b) |-> j] ELSE NextRow(f[i - 1], a[i], i, b)
        BY <2>1, <4>1 DEF TableTo
      <4> QED BY <4>1, <4>2
    <3> QED BY <3>1, <3>2
  <2>4. g = [i \in 0..k + 1 |-> g[i]]
    OBVIOUS
  <2> HIDE DEF g
  <2>5. TableTo(g, a, b, k + 1)
    BY <2>3, <2>4 DEF TableTo
  <2> QED BY <2>5
<1> HIDE DEF S
<1>3. Nat \subseteq S
  BY <1>1, <1>2, NatSetInduction
<1> QED BY <1>3 DEF S

(***************************************************************************)
(* The ways to line two texts up, as far as a place in each.               *)
(***************************************************************************)
InOrder(M) == \A x, y \in M : x = y \/ (x[1] < y[1] /\ x[2] < y[2]) \/ (y[1] < x[1] /\ y[2] < x[2])
Lined(i, j) == {M \in SUBSET ((1..i) \X (1..j)) : InOrder(M)}
SameWords(M, a, b) == {x \in M : a[x[1]] = b[x[2]]}
CostTo(M, a, b, i, j) == i + j - Cardinality(M) - Cardinality(SameWords(M, a, b))

\* v is what the best way to line the first i words up with the first j costs.
BestAt(v, a, b, i, j) ==
    /\ v \in Int
    /\ \E M \in Lined(i, j) : CostTo(M, a, b, i, j) = v
    /\ \A M \in Lined(i, j) : v <= CostTo(M, a, b, i, j)

\* A way to line up is a finite set of pairs.
LEMMA LinedFinite ==
    ASSUME NEW i \in Nat, NEW j \in Nat, NEW M \in Lined(i, j), NEW a, NEW b
    PROVE  /\ IsFiniteSet(M) /\ Cardinality(M) \in Nat
           /\ IsFiniteSet(SameWords(M, a, b)) /\ Cardinality(SameWords(M, a, b)) \in Nat
<1>1. M \in SUBSET ((1..i) \X (1..j))
  BY DEF Lined
<1>2. IsFiniteSet(1..i) /\ IsFiniteSet(1..j)
  BY FS_Interval
<1>3. IsFiniteSet((1..i) \X (1..j))
  BY <1>2, FS_Product
<1>6. IsFiniteSet(M)
  BY <1>1, <1>3, FS_Subset
<1>7. SameWords(M, a, b) \in SUBSET M
  BY DEF SameWords
<1>8. IsFiniteSet(SameWords(M, a, b))
  BY <1>6, <1>7, FS_Subset
<1> QED BY <1>6, <1>8, FS_CardinalityType

\* What a way to line up costs is a number.
LEMMA CostIsNumber ==
    ASSUME NEW i \in Nat, NEW j \in Nat, NEW M \in Lined(i, j), NEW a, NEW b
    PROVE  CostTo(M, a, b, i, j) \in Int
BY LinedFinite DEF CostTo

\* Pairing the two next words costs what substituting them does.
LEMMA OneMorePair ==
    ASSUME NEW i \in Nat, NEW j \in Nat, NEW M \in Lined(i, j), NEW a, NEW b
    PROVE  /\ M \cup {<<i + 1, j + 1>>} \in Lined(i + 1, j + 1)
           /\ CostTo(M \cup {<<i + 1, j + 1>>}, a, b, i + 1, j + 1)
                = CostTo(M, a, b, i, j) + Substitution(a[i + 1], b[j + 1])
<1> DEFINE p == <<i + 1, j + 1>>
           N == M \cup {p}
<1>1. M \in SUBSET ((1..i) \X (1..j)) /\ InOrder(M)
  BY DEF Lined
<1>2. \A x \in M : x[1] \in 1..i /\ x[2] \in 1..j
  BY <1>1
<1>3. p \notin M /\ p[1] = i + 1 /\ p[2] = j + 1
  <2>1. p[1] = i + 1 /\ p[2] = j + 1
    OBVIOUS
  <2> HIDE DEF p
  <2>2. p \notin M
    BY <1>2, <2>1
  <2> QED BY <2>1, <2>2
<1>4. p \in (1..i + 1) \X (1..j + 1)
  OBVIOUS
<1> HIDE DEF p
<1>5. InOrder(N)
  BY <1>1, <1>2, <1>3 DEF InOrder
<1>6. N \in SUBSET ((1..i + 1) \X (1..j + 1))
  <2>1. \A x \in (1..i) \X (1..j) : x \in (1..i + 1) \X (1..j + 1)
    OBVIOUS
  <2> QED BY <1>1, <1>4, <2>1
<1>7. N \in Lined(i + 1, j + 1)
  BY <1>5, <1>6 DEF Lined
<1>8. Cardinality(N) = Cardinality(M) + 1
  BY <1>3, LinedFinite, FS_AddElement
<1>9. Cardinality(SameWords(N, a, b)) = Cardinality(SameWords(M, a, b)) + IF a[i + 1] = b[j + 1] THEN 1 ELSE 0
  <2>1. CASE a[i + 1] = b[j + 1]
    <3>1. SameWords(N, a, b) = SameWords(M, a, b) \cup {p} /\ p \notin SameWords(M, a, b)
      BY <1>3, <2>1 DEF SameWords
    <3> HIDE DEF N
    <3> QED BY <2>1, <3>1, LinedFinite, FS_AddElement
  <2>2. CASE a[i + 1] # b[j + 1]
    <3>1. SameWords(N, a, b) = SameWords(M, a, b)
      BY <1>3, <2>2 DEF SameWords
    <3> HIDE DEF N
    <3> QED BY <2>2, <3>1, LinedFinite
  <2> QED BY <2>1, <2>2
<1>10. Cardinality(M) \in Nat /\ Cardinality(SameWords(M, a, b)) \in Nat
  BY LinedFinite
<1> HIDE DEF N
<1>11. CostTo(N, a, b, i + 1, j + 1) = CostTo(M, a, b, i, j) + Substitution(a[i + 1], b[j + 1])
  BY <1>8, <1>9, <1>10 DEF CostTo, Substitution
<1> QED BY <1>7, <1>11 DEF N, p

\* Leaving the next word of either text out costs one.
LEMMA OneMoreWord ==
    ASSUME NEW i \in Nat, NEW j \in Nat, NEW a, NEW b
    PROVE  /\ \A M \in Lined(i, j + 1) :
                 M \in Lined(i + 1, j + 1) /\ CostTo(M, a, b, i + 1, j + 1) = CostTo(M, a, b, i, j + 1) + 1
           /\ \A M \in Lined(i + 1, j) :
                 M \in Lined(i + 1, j + 1) /\ CostTo(M, a, b, i + 1, j + 1) = CostTo(M, a, b, i + 1, j) + 1
<1>1. ASSUME NEW M \in Lined(i, j + 1)
      PROVE  M \in Lined(i + 1, j + 1) /\ CostTo(M, a, b, i + 1, j + 1) = CostTo(M, a, b, i, j + 1) + 1
  <2>1. \A x \in (1..i) \X (1..j + 1) : x \in (1..i + 1) \X (1..j + 1)
    OBVIOUS
  <2>2. M \in Lined(i + 1, j + 1)
    BY <2>1 DEF Lined
  <2>3. j + 1 \in Nat
    OBVIOUS
  <2>4. Cardinality(M) \in Nat /\ Cardinality(SameWords(M, a, b)) \in Nat
    BY <2>3, LinedFinite
  <2> QED BY <2>2, <2>4 DEF CostTo
<1>2. ASSUME NEW M \in Lined(i + 1, j)
      PROVE  M \in Lined(i + 1, j + 1) /\ CostTo(M, a, b, i + 1, j + 1) = CostTo(M, a, b, i + 1, j) + 1
  <2>1. \A x \in (1..i + 1) \X (1..j) : x \in (1..i + 1) \X (1..j + 1)
    OBVIOUS
  <2>2. M \in Lined(i + 1, j + 1)
    BY <2>1 DEF Lined
  <2>3. i + 1 \in Nat
    OBVIOUS
  <2>4. Cardinality(M) \in Nat /\ Cardinality(SameWords(M, a, b)) \in Nat
    BY <2>3, LinedFinite
  <2> QED BY <2>2, <2>4 DEF CostTo
<1> QED BY <1>1, <1>2

\* A way to line up either leaves out a last word, or pairs the two last words.
LEMMA LastWords ==
    ASSUME NEW i \in Nat, NEW j \in Nat, NEW M \in Lined(i + 1, j + 1)
    PROVE  \/ M \in Lined(i, j + 1)
           \/ M \in Lined(i + 1, j)
           \/ \E N \in Lined(i, j) : M = N \cup {<<i + 1, j + 1>>}
<1>1. M \in SUBSET ((1..i + 1) \X (1..j + 1)) /\ InOrder(M)
  BY DEF Lined
<1>2. \A x \in M : x[1] \in 1..i + 1 /\ x[2] \in 1..j + 1 /\ x = <<x[1], x[2]>>
  BY <1>1
<1>3. CASE \A x \in M : x[1] # i + 1
  <2>1. \A x \in M : x \in (1..i) \X (1..j + 1)
    <3> SUFFICES ASSUME NEW x \in M PROVE x \in (1..i) \X (1..j + 1)
      OBVIOUS
    <3>1. x[1] \in 1..i /\ x[2] \in 1..j + 1
      BY <1>2, <1>3
    <3> QED BY <1>2, <3>1
  <2> QED BY <1>1, <2>1 DEF Lined
<1>4. CASE \A x \in M : x[2] # j + 1
  <2>1. \A x \in M : x \in (1..i + 1) \X (1..j)
    <3> SUFFICES ASSUME NEW x \in M PROVE x \in (1..i + 1) \X (1..j)
      OBVIOUS
    <3>1. x[1] \in 1..i + 1 /\ x[2] \in 1..j
      BY <1>2, <1>4
    <3> QED BY <1>2, <3>1
  <2> QED BY <1>1, <2>1 DEF Lined
<1>5. CASE \E x, y \in M : x[1] = i + 1 /\ y[2] = j + 1
  <2>1. PICK x \in M, y \in M : x[1] = i + 1 /\ y[2] = j + 1
    BY <1>5
  <2>2. x = y
    BY <1>1, <1>2, <2>1 DEF InOrder
  <2>3. x = <<i + 1, j + 1>>
    BY <1>2, <2>1, <2>2
  <2> DEFINE N == M \ {x}
  <2>4. \A z \in N : z \in (1..i) \X (1..j)
    <3> SUFFICES ASSUME NEW z \in N PROVE z \in (1..i) \X (1..j)
      OBVIOUS
    <3>1. z \in M /\ z # x
      OBVIOUS
    <3>2. z[1] < x[1] /\ z[2] < x[2]
      <4>1. z[1] \in 1..i + 1 /\ z[2] \in 1..j + 1 /\ x[2] = j + 1
        BY <1>2, <2>1, <2>2, <3>1
      <4>2. (z[1] < x[1] /\ z[2] < x[2]) \/ (x[1] < z[1] /\ x[2] < z[2])
        BY <1>1, <3>1 DEF InOrder
      <4> QED BY <2>1, <4>1, <4>2
    <3>3. z[1] \in 1..i /\ z[2] \in 1..j
      BY <1>2, <2>1, <2>2, <3>1, <3>2
    <3> QED BY <1>2, <3>1, <3>3
  <2>5. InOrder(N)
    BY <1>1 DEF InOrder
  <2>6. N \in Lined(i, j)
    BY <2>4, <2>5 DEF Lined
  <2>7. M = N \cup {x}
    OBVIOUS
  <2> QED BY <2>3, <2>6, <2>7
<1> QED BY <1>3, <1>4, <1>5

\* min of three, as tokenLevenshtein takes it.
LEMMA LeastOfThree ==
    ASSUME NEW u \in Int, NEW v \in Int, NEW w \in Int
    PROVE  /\ Least({u, v, w}) \in {u, v, w}
           /\ Least({u, v, w}) <= u /\ Least({u, v, w}) <= v /\ Least({u, v, w}) <= w
<1>1. \E x \in {u, v, w} : \A y \in {u, v, w} : x <= y
  OBVIOUS
<1> QED BY <1>1 DEF Least

\* The best way of the three there are to go on is the best there is.
LEMMA BestOfThree ==
    ASSUME NEW i \in Nat, NEW j \in Nat, NEW a, NEW b,
           NEW u, BestAt(u, a, b, i, j + 1),
           NEW v, BestAt(v, a, b, i + 1, j),
           NEW w, BestAt(w, a, b, i, j)
    PROVE  BestAt(Least({u + 1, v + 1, w + Substitution(a[i + 1], b[j + 1])}), a, b, i + 1, j + 1)
<1>1. PICK s \in {0, 1} : s = Substitution(a[i + 1], b[j + 1])
  BY DEF Substitution
<1>2. u \in Int /\ v \in Int /\ w \in Int
  BY DEF BestAt
<1>3. PICK d : d = Least({u + 1, v + 1, w + s})
  OBVIOUS
<1>4. d \in {u + 1, v + 1, w + s} /\ d <= u + 1 /\ d <= v + 1 /\ d <= w + s
  <2>1. u + 1 \in Int /\ v + 1 \in Int /\ w + s \in Int
    BY <1>2
  <2> QED BY <1>3, <2>1, LeastOfThree
<1>5. d \in Int
  BY <1>2, <1>4
<1>6. \E M \in Lined(i + 1, j + 1) : CostTo(M, a, b, i + 1, j + 1) = d
  <2>1. CASE d = u + 1
    <3>1. PICK M \in Lined(i, j + 1) : CostTo(M, a, b, i, j + 1) = u
      BY DEF BestAt
    <3> QED BY <2>1, <3>1, OneMoreWord
  <2>2. CASE d = v + 1
    <3>1. PICK M \in Lined(i + 1, j) : CostTo(M, a, b, i + 1, j) = v
      BY DEF BestAt
    <3> QED BY <2>2, <3>1, OneMoreWord
  <2>3. CASE d = w + s
    <3>1. PICK M \in Lined(i, j) : CostTo(M, a, b, i, j) = w
      BY DEF BestAt
    <3> QED BY <1>1, <2>3, <3>1, OneMorePair
  <2> QED BY <1>4, <2>1, <2>2, <2>3
<1>7. ASSUME NEW M \in Lined(i + 1, j + 1) PROVE d <= CostTo(M, a, b, i + 1, j + 1)
  <2>1. CASE M \in Lined(i, j + 1)
    <3>1. CostTo(M, a, b, i + 1, j + 1) = CostTo(M, a, b, i, j + 1) + 1 /\ u <= CostTo(M, a, b, i, j + 1)
      BY <2>1, OneMoreWord DEF BestAt
    <3>2. CostTo(M, a, b, i, j + 1) \in Int
      <4>1. j + 1 \in Nat
        OBVIOUS
      <4> QED BY <2>1, <4>1, CostIsNumber
    <3> QED BY <1>2, <1>4, <1>5, <3>1, <3>2
  <2>2. CASE M \in Lined(i + 1, j)
    <3>1. CostTo(M, a, b, i + 1, j + 1) = CostTo(M, a, b, i + 1, j) + 1 /\ v <= CostTo(M, a, b, i + 1, j)
      BY <2>2, OneMoreWord DEF BestAt
    <3>2. CostTo(M, a, b, i + 1, j) \in Int
      <4>1. i + 1 \in Nat
        OBVIOUS
      <4> QED BY <2>2, <4>1, CostIsNumber
    <3> QED BY <1>2, <1>4, <1>5, <3>1, <3>2
  <2>3. CASE \E N \in Lined(i, j) : M = N \cup {<<i + 1, j + 1>>}
    <3>1. PICK N \in Lined(i, j) : M = N \cup {<<i + 1, j + 1>>}
      BY <2>3
    <3>2. CostTo(M, a, b, i + 1, j + 1) = CostTo(N, a, b, i, j) + s /\ w <= CostTo(N, a, b, i, j)
      BY <1>1, <3>1, OneMorePair DEF BestAt
    <3>3. CostTo(N, a, b, i, j) \in Int
      BY <3>1, CostIsNumber
    <3> QED BY <1>2, <1>4, <1>5, <3>2, <3>3
  <2> QED BY <2>1, <2>2, <2>3, LastWords
<1>8. BestAt(d, a, b, i + 1, j + 1)
  BY <1>5, <1>6, <1>7 DEF BestAt
<1> QED BY <1>1, <1>3, <1>8

\* With no words on one side, all of the other are left out.
LEMMA NothingToLineUp ==
    ASSUME NEW k \in Nat, NEW a, NEW b
    PROVE  BestAt(k, a, b, 0, k) /\ BestAt(k, a, b, k, 0)
<1>1. SameWords({}, a, b) = {} /\ InOrder({}) /\ Cardinality({}) = 0
  BY FS_EmptySet DEF SameWords, InOrder
<1>2. Lined(0, k) = {{}} /\ Lined(k, 0) = {{}}
  <2>1. (1..0) \X (1..k) = {} /\ (1..k) \X (1..0) = {}
    OBVIOUS
  <2> QED BY <1>1, <2>1 DEF Lined
<1>3. CostTo({}, a, b, 0, k) = k /\ CostTo({}, a, b, k, 0) = k
  BY <1>1 DEF CostTo
<1>4. k \in Int /\ k <= k
  OBVIOUS
<1>5. BestAt(k, a, b, 0, k)
  <2>1. {} \in Lined(0, k) /\ \A M \in Lined(0, k) : M = {}
    BY <1>2
  <2>2. \A M \in Lined(0, k) : CostTo(M, a, b, 0, k) = k
    BY <1>3, <2>1
  <2> QED BY <1>3, <1>4, <2>1, <2>2 DEF BestAt
<1>6. BestAt(k, a, b, k, 0)
  <2>1. {} \in Lined(k, 0) /\ \A M \in Lined(k, 0) : M = {}
    BY <1>2
  <2>2. \A M \in Lined(k, 0) : CostTo(M, a, b, k, 0) = k
    BY <1>3, <2>1
  <2> QED BY <1>3, <1>4, <2>1, <2>2 DEF BestAt
<1> QED BY <1>5, <1>6

\* The last cell of the table is the cost of a best way to line the texts up.
LEMMA DistanceIsBest ==
    ASSUME NEW a, NEW b, Len(a) \in Nat, Len(b) \in Nat
    PROVE  BestAt(TokenLevenshtein(a, b), a, b, Len(a), Len(b))
<1> DEFINE row == CHOOSE f : TableTo(f, a, b, Len(a))
<1>1. TableTo(row, a, b, Len(a))
  BY TableExists
<1>2. TokenLevenshtein(a, b) = row[Len(a)][Len(b)]
  BY DEF TokenLevenshtein, TableTo
<1> HIDE DEF row
<1> DEFINE Best(i) == \A j \in 0..Len(b) : BestAt(row[i][j], a, b, i, j)
           S == {i \in Nat : i <= Len(a) => Best(i)}
<1>3. 0 \in S
  <2>1. row[0] = [j \in 0..Len(b) |-> j]
    BY <1>1 DEF TableTo
  <2>2. \A j \in 0..Len(b) : row[0][j] = j /\ j \in Nat
    BY <2>1
  <2> QED BY <2>2, NothingToLineUp
<1>4. ASSUME NEW i \in Nat, i \in S PROVE i + 1 \in S
  <2> SUFFICES ASSUME i + 1 <= Len(a) PROVE Best(i + 1)
    OBVIOUS
  <2>1. Best(i)
    BY <1>4
  <2> HIDE DEF Best
  <2>2. PICK prev, next : prev = row[i] /\ next = row[i + 1]
    OBVIOUS
  <2>3. next = NextRow(prev, a[i + 1], i + 1, b)
    <3>1. PICK k \in 0..Len(a) : k = i + 1
      OBVIOUS
    <3>2. k # 0 /\ k - 1 = i
      BY <3>1
    <3>3. row[k] = NextRow(row[k - 1], a[k], k, b)
      BY <1>1, <3>2 DEF TableTo
    <3> QED BY <2>2, <3>1, <3>2, <3>3
  <2>4. RowTo(next, prev, a[i + 1], i + 1, b, Len(b))
    BY <2>3, RowIs
  <2>5. \A j \in 0..Len(b) : BestAt(prev[j], a, b, i, j)
    BY <2>1, <2>2 DEF Best
  <2> DEFINE T == {j \in Nat : j <= Len(b) => BestAt(next[j], a, b, i + 1, j)}
  <2>6. 0 \in T
    <3>1. next[0] = i + 1
      BY <2>4 DEF RowTo
    <3>2. i + 1 \in Nat
      OBVIOUS
    <3> QED BY <3>1, <3>2, NothingToLineUp
  <2>7. ASSUME NEW j \in Nat, j \in T PROVE j + 1 \in T
    <3> SUFFICES ASSUME j + 1 <= Len(b) PROVE BestAt(next[j + 1], a, b, i + 1, j + 1)
      OBVIOUS
    <3>1. BestAt(next[j], a, b, i + 1, j)
      BY <2>7
    <3>2. BestAt(prev[j], a, b, i, j) /\ BestAt(prev[j + 1], a, b, i, j + 1)
      BY <2>5
    <3>3. next[j + 1] = Least({prev[j + 1] + 1, next[j] + 1, prev[j] + Substitution(a[i + 1], b[j + 1])})
      <4>1. PICK k \in 0..Len(b) : k = j + 1
        OBVIOUS
      <4>2. k # 0 /\ k - 1 = j
        BY <4>1
      <4>3. next[k] = Least({prev[k] + 1, next[k - 1] + 1, prev[k - 1] + Substitution(a[i + 1], b[k])})
        BY <2>4, <4>2 DEF RowTo
      <4> QED BY <4>1, <4>2, <4>3
    <3>4. PICK u, v, w : u = prev[j + 1] /\ v = next[j] /\ w = prev[j]
      OBVIOUS
    <3>5. BestAt(u, a, b, i, j + 1) /\ BestAt(v, a, b, i + 1, j) /\ BestAt(w, a, b, i, j)
      BY <3>1, <3>2, <3>4
    <3>6. BestAt(Least({u + 1, v + 1, w + Substitution(a[i + 1], b[j + 1])}), a, b, i + 1, j + 1)
      BY <3>5, BestOfThree
    <3> QED BY <3>3, <3>4, <3>6
  <2> HIDE DEF T
  <2>8. Nat \subseteq T
    BY <2>6, <2>7, NatSetInduction
  <2>9. \A j \in 0..Len(b) : BestAt(next[j], a, b, i + 1, j)
    BY <2>8 DEF T
  <2> QED BY <2>2, <2>9 DEF Best
<1> HIDE DEF S
<1>5. Nat \subseteq S
  BY <1>3, <1>4, NatSetInduction
<1>6. Best(Len(a))
  BY <1>5 DEF S
<1> QED BY <1>2, <1>6

\* tokenLevenshtein (internal/verify/similarity.go) finds the cost of a best way
\* to line up any two texts.
THEOREM DistancesAreLeast == DistanceIsLeast
<1> SUFFICES ASSUME NEW a \in Texts, NEW b \in Texts
             PROVE  TokenLevenshtein(a, b) = Least({Cost(M, a, b) : M \in Alignments(a, b)})
  BY DEF DistanceIsLeast
<1>1. IsSeq(a) /\ IsSeq(b)
  BY TextsAssumption
<1>2. Len(a) \in Nat /\ Len(b) \in Nat /\ DOMAIN a = 1..Len(a) /\ DOMAIN b = 1..Len(b)
  BY <1>1 DEF IsSeq
<1>3. PICK v : v = TokenLevenshtein(a, b)
  OBVIOUS
<1>4. BestAt(v, a, b, Len(a), Len(b))
  BY <1>2, <1>3, DistanceIsBest
<1>5. Alignments(a, b) = Lined(Len(a), Len(b))
  BY <1>2 DEF Alignments, Lined, InOrder
<1>6. \A M : Cost(M, a, b) = CostTo(M, a, b, Len(a), Len(b))
  BY DEF Cost, CostTo, SameWords
<1> DEFINE C == {Cost(M, a, b) : M \in Alignments(a, b)}
<1>7. v \in C /\ v \in Int /\ \A c \in C : v <= c
  BY <1>4, <1>5, <1>6 DEF BestAt
<1>8. \A c \in C : c \in Int
  BY <1>2, <1>5, <1>6, CostIsNumber
<1> HIDE DEF C
<1>9. Least(C) = v
  <2>1. PICK c : c = Least(C)
    OBVIOUS
  <2>2. c \in C /\ \A y \in C : c <= y
    BY <1>7, <2>1 DEF Least
  <2>3. c <= v /\ v <= c /\ c \in Int
    BY <1>7, <1>8, <2>2
  <2> QED BY <1>7, <2>1, <2>3
<1> QED BY <1>3, <1>9 DEF C

-----------------------------------------------------------------------------
(***************************************************************************)
(* The recursions of the cascade are there, and each goes item by item. One*)
(* lemma says what all five need, and cannot be stated once: it would have *)
(* the step as a parameter.                                                *)
(***************************************************************************)
\* f is the recursion of ConcatenatedContent, as far as item m.
SayingTo(f, message, m) ==
    f = [n \in 0..m |-> IF n = 0 THEN <<>> ELSE f[n - 1] \o Said(message[n])]

\* The recursion of ConcatenatedContent is one.
LEMMA SayingExists ==
    ASSUME NEW message, NEW m \in Nat
    PROVE  \E f : SayingTo(f, message, m)
<1> DEFINE S == {k \in Nat : \E f : SayingTo(f, message, k)}
<1>1. 0 \in S
  <2>1. SayingTo([n \in 0..0 |-> <<>>], message, 0)
    BY DEF SayingTo
  <2> QED BY <2>1
<1>2. ASSUME NEW k \in Nat, k \in S PROVE k + 1 \in S
  <2>1. PICK f : SayingTo(f, message, k)
    BY <1>2
  <2>2. PICK last : last = f[k] \o Said(message[k + 1])
    OBVIOUS
  <2> DEFINE g == [n \in 0..k + 1 |-> IF n = k + 1 THEN last ELSE f[n]]
  <2>3. ASSUME NEW n \in 0..k + 1
        PROVE  g[n] = IF n = 0 THEN <<>> ELSE g[n - 1] \o Said(message[n])
    <3>1. CASE n = k + 1
      <4>1. g[n] = last /\ g[n - 1] = f[k] /\ n # 0
        BY <3>1
      <4> QED BY <2>2, <3>1, <4>1
    <3>2. CASE n # k + 1
      <4>1. g[n] = f[n] /\ n \in 0..k /\ (n # 0 => g[n - 1] = f[n - 1])
        BY <3>2
      <4>2. f[n] = IF n = 0 THEN <<>> ELSE f[n - 1] \o Said(message[n])
        BY <2>1, <4>1 DEF SayingTo
      <4> QED BY <4>1, <4>2
    <3> QED BY <3>1, <3>2
  <2>4. g = [n \in 0..k + 1 |-> g[n]]
    OBVIOUS
  <2> HIDE DEF g
  <2>5. SayingTo(g, message, k + 1)
    BY <2>3, <2>4 DEF SayingTo
  <2> QED BY <2>5
<1> HIDE DEF S
<1>3. Nat \subseteq S
  BY <1>1, <1>2, NatSetInduction
<1> QED BY <1>3 DEF S

\* ConcatenatedContent, item by item.
LEMMA SayingIs ==
    ASSUME NEW message, Len(message) \in Nat
    PROVE  \E f : /\ f[0] = <<>>
                  /\ \A n \in 0..Len(message) - 1 : f[n + 1] = f[n] \o Said(message[n + 1])
                  /\ ConcatenatedContent(message) = f[Len(message)]
<1> DEFINE f == CHOOSE g : SayingTo(g, message, Len(message))
<1>1. SayingTo(f, message, Len(message))
  BY SayingExists
<1>2. ConcatenatedContent(message) = f[Len(message)]
  BY DEF ConcatenatedContent, SayingTo
<1> HIDE DEF f
<1>3. f[0] = <<>>
  BY <1>1 DEF SayingTo
<1>4. ASSUME NEW n \in 0..Len(message) - 1
      PROVE  f[n + 1] = f[n] \o Said(message[n + 1])
  <2>1. PICK k \in 0..Len(message) : k = n + 1
    OBVIOUS
  <2>2. k # 0 /\ k - 1 = n
    BY <2>1
  <2>3. f[k] = f[k - 1] \o Said(message[k])
    BY <1>1, <2>2 DEF SayingTo
  <2> QED BY <2>1, <2>2, <2>3
<1> QED BY <1>2, <1>3, <1>4

\* f is the recursion of Only, as far as item m.
KeepingTo(f, s, places, m) ==
    f = [n \in 0..m |-> IF n = 0 THEN <<>> ELSE (IF n \in places THEN Append(f[n - 1], s[n]) ELSE f[n - 1])]

\* The recursion of Only is one.
LEMMA KeepingExists ==
    ASSUME NEW s, NEW places, NEW m \in Nat
    PROVE  \E f : KeepingTo(f, s, places, m)
<1> DEFINE S == {k \in Nat : \E f : KeepingTo(f, s, places, k)}
<1>1. 0 \in S
  <2>1. KeepingTo([n \in 0..0 |-> <<>>], s, places, 0)
    BY DEF KeepingTo
  <2> QED BY <2>1
<1>2. ASSUME NEW k \in Nat, k \in S PROVE k + 1 \in S
  <2>1. PICK f : KeepingTo(f, s, places, k)
    BY <1>2
  <2>2. PICK last : last = (IF k + 1 \in places THEN Append(f[k], s[k + 1]) ELSE f[k])
    OBVIOUS
  <2> DEFINE g == [n \in 0..k + 1 |-> IF n = k + 1 THEN last ELSE f[n]]
  <2>3. ASSUME NEW n \in 0..k + 1
        PROVE  g[n] = IF n = 0 THEN <<>> ELSE (IF n \in places THEN Append(g[n - 1], s[n]) ELSE g[n - 1])
    <3>1. CASE n = k + 1
      <4>1. g[n] = last /\ g[n - 1] = f[k] /\ n # 0
        BY <3>1
      <4> QED BY <2>2, <3>1, <4>1
    <3>2. CASE n # k + 1
      <4>1. g[n] = f[n] /\ n \in 0..k /\ (n # 0 => g[n - 1] = f[n - 1])
        BY <3>2
      <4>2. f[n] = IF n = 0 THEN <<>> ELSE (IF n \in places THEN Append(f[n - 1], s[n]) ELSE f[n - 1])
        BY <2>1, <4>1 DEF KeepingTo
      <4> QED BY <4>1, <4>2
    <3> QED BY <3>1, <3>2
  <2>4. g = [n \in 0..k + 1 |-> g[n]]
    OBVIOUS
  <2> HIDE DEF g
  <2>5. KeepingTo(g, s, places, k + 1)
    BY <2>3, <2>4 DEF KeepingTo
  <2> QED BY <2>5
<1> HIDE DEF S
<1>3. Nat \subseteq S
  BY <1>1, <1>2, NatSetInduction
<1> QED BY <1>3 DEF S

\* Only, item by item.
LEMMA KeepingIs ==
    ASSUME NEW s, NEW places, Len(s) \in Nat
    PROVE  \E f : /\ f[0] = <<>>
                  /\ \A n \in 0..Len(s) - 1 : f[n + 1] = (IF n + 1 \in places THEN Append(f[n], s[n + 1]) ELSE f[n])
                  /\ Only(s, places) = f[Len(s)]
<1> DEFINE f == CHOOSE g : KeepingTo(g, s, places, Len(s))
<1>1. KeepingTo(f, s, places, Len(s))
  BY KeepingExists
<1>2. Only(s, places) = f[Len(s)]
  BY DEF Only, KeepingTo
<1> HIDE DEF f
<1>3. f[0] = <<>>
  BY <1>1 DEF KeepingTo
<1>4. ASSUME NEW n \in 0..Len(s) - 1
      PROVE  f[n + 1] = (IF n + 1 \in places THEN Append(f[n], s[n + 1]) ELSE f[n])
  <2>1. PICK k \in 0..Len(s) : k = n + 1
    OBVIOUS
  <2>2. k # 0 /\ k - 1 = n
    BY <2>1
  <2>3. f[k] = (IF k \in places THEN Append(f[k - 1], s[k]) ELSE f[k - 1])
    BY <1>1, <2>2 DEF KeepingTo
  <2> QED BY <2>1, <2>2, <2>3
<1> QED BY <1>2, <1>3, <1>4

\* f is the recursion of Replace, as far as item m.
ScanningTo(f, content, e, m) ==
    f = [n \in 0..m |-> IF n = 0 THEN [out |-> <<>>, skip |-> 0, replaced |-> FALSE] ELSE Scanned(f[n - 1], content, n, e)]

\* The recursion of Replace is one.
LEMMA ScanningExists ==
    ASSUME NEW content, NEW e, NEW m \in Nat
    PROVE  \E f : ScanningTo(f, content, e, m)
<1> DEFINE S == {k \in Nat : \E f : ScanningTo(f, content, e, k)}
<1>1. 0 \in S
  <2>1. ScanningTo([n \in 0..0 |-> [out |-> <<>>, skip |-> 0, replaced |-> FALSE]], content, e, 0)
    BY DEF ScanningTo
  <2> QED BY <2>1
<1>2. ASSUME NEW k \in Nat, k \in S PROVE k + 1 \in S
  <2>1. PICK f : ScanningTo(f, content, e, k)
    BY <1>2
  <2>2. PICK last : last = Scanned(f[k], content, k + 1, e)
    OBVIOUS
  <2> DEFINE g == [n \in 0..k + 1 |-> IF n = k + 1 THEN last ELSE f[n]]
  <2>3. ASSUME NEW n \in 0..k + 1
        PROVE  g[n] = IF n = 0 THEN [out |-> <<>>, skip |-> 0, replaced |-> FALSE] ELSE Scanned(g[n - 1], content, n, e)
    <3>1. CASE n = k + 1
      <4>1. g[n] = last /\ g[n - 1] = f[k] /\ n # 0
        BY <3>1
      <4> QED BY <2>2, <3>1, <4>1
    <3>2. CASE n # k + 1
      <4>1. g[n] = f[n] /\ n \in 0..k /\ (n # 0 => g[n - 1] = f[n - 1])
        BY <3>2
      <4>2. f[n] = IF n = 0 THEN [out |-> <<>>, skip |-> 0, replaced |-> FALSE] ELSE Scanned(f[n - 1], content, n, e)
        BY <2>1, <4>1 DEF ScanningTo
      <4> QED BY <4>1, <4>2
    <3> QED BY <3>1, <3>2
  <2>4. g = [n \in 0..k + 1 |-> g[n]]
    OBVIOUS
  <2> HIDE DEF g
  <2>5. ScanningTo(g, content, e, k + 1)
    BY <2>3, <2>4 DEF ScanningTo
  <2> QED BY <2>5
<1> HIDE DEF S
<1>3. Nat \subseteq S
  BY <1>1, <1>2, NatSetInduction
<1> QED BY <1>3 DEF S

\* Replace, item by item.
LEMMA ScanningIs ==
    ASSUME NEW content, NEW e, Len(content) \in Nat
    PROVE  \E f : /\ f[0] = [out |-> <<>>, skip |-> 0, replaced |-> FALSE]
                  /\ \A n \in 0..Len(content) : f[n + 1] = Scanned(f[n], content, n + 1, e)
                  /\ Replace(content, e) = f[Len(content) + 1].out
<1> DEFINE f == CHOOSE g : ScanningTo(g, content, e, Len(content) + 1)
<1>1. ScanningTo(f, content, e, Len(content) + 1)
  BY ScanningExists
<1>2. Replace(content, e) = f[Len(content) + 1].out
  BY DEF Replace, ScanningTo
<1> HIDE DEF f
<1>3. f[0] = [out |-> <<>>, skip |-> 0, replaced |-> FALSE]
  BY <1>1 DEF ScanningTo
<1>4. ASSUME NEW n \in 0..Len(content)
      PROVE  f[n + 1] = Scanned(f[n], content, n + 1, e)
  <2>1. PICK k \in 0..Len(content) + 1 : k = n + 1
    OBVIOUS
  <2>2. k # 0 /\ k - 1 = n
    BY <2>1
  <2>3. f[k] = Scanned(f[k - 1], content, k, e)
    BY <1>1, <2>2 DEF ScanningTo
  <2> QED BY <2>1, <2>2, <2>3
<1> QED BY <1>2, <1>3, <1>4

\* f is the recursion of ApplyTextEdits, as far as item m.
TextingTo(f, content, edits, m) ==
    f = [n \in 0..m |-> IF n = 0 THEN [ok |-> TRUE, content |-> content] ELSE TextEdited(f[n - 1], content, edits[n])]

\* The recursion of ApplyTextEdits is one.
LEMMA TextingExists ==
    ASSUME NEW content, NEW edits, NEW m \in Nat
    PROVE  \E f : TextingTo(f, content, edits, m)
<1> DEFINE S == {k \in Nat : \E f : TextingTo(f, content, edits, k)}
<1>1. 0 \in S
  <2>1. TextingTo([n \in 0..0 |-> [ok |-> TRUE, content |-> content]], content, edits, 0)
    BY DEF TextingTo
  <2> QED BY <2>1
<1>2. ASSUME NEW k \in Nat, k \in S PROVE k + 1 \in S
  <2>1. PICK f : TextingTo(f, content, edits, k)
    BY <1>2
  <2>2. PICK last : last = TextEdited(f[k], content, edits[k + 1])
    OBVIOUS
  <2> DEFINE g == [n \in 0..k + 1 |-> IF n = k + 1 THEN last ELSE f[n]]
  <2>3. ASSUME NEW n \in 0..k + 1
        PROVE  g[n] = IF n = 0 THEN [ok |-> TRUE, content |-> content] ELSE TextEdited(g[n - 1], content, edits[n])
    <3>1. CASE n = k + 1
      <4>1. g[n] = last /\ g[n - 1] = f[k] /\ n # 0
        BY <3>1
      <4> QED BY <2>2, <3>1, <4>1
    <3>2. CASE n # k + 1
      <4>1. g[n] = f[n] /\ n \in 0..k /\ (n # 0 => g[n - 1] = f[n - 1])
        BY <3>2
      <4>2. f[n] = IF n = 0 THEN [ok |-> TRUE, content |-> content] ELSE TextEdited(f[n - 1], content, edits[n])
        BY <2>1, <4>1 DEF TextingTo
      <4> QED BY <4>1, <4>2
    <3> QED BY <3>1, <3>2
  <2>4. g = [n \in 0..k + 1 |-> g[n]]
    OBVIOUS
  <2> HIDE DEF g
  <2>5. TextingTo(g, content, edits, k + 1)
    BY <2>3, <2>4 DEF TextingTo
  <2> QED BY <2>5
<1> HIDE DEF S
<1>3. Nat \subseteq S
  BY <1>1, <1>2, NatSetInduction
<1> QED BY <1>3 DEF S

\* ApplyTextEdits, item by item.
LEMMA TextingIs ==
    ASSUME NEW content, NEW edits, Len(edits) \in Nat
    PROVE  \E f : /\ f[0] = [ok |-> TRUE, content |-> content]
                  /\ \A n \in 0..Len(edits) - 1 : f[n + 1] = TextEdited(f[n], content, edits[n + 1])
                  /\ ApplyTextEdits(content, edits) = f[Len(edits)]
<1> DEFINE f == CHOOSE g : TextingTo(g, content, edits, Len(edits))
<1>1. TextingTo(f, content, edits, Len(edits))
  BY TextingExists
<1>2. ApplyTextEdits(content, edits) = f[Len(edits)]
  BY DEF ApplyTextEdits, TextingTo
<1> HIDE DEF f
<1>3. f[0] = [ok |-> TRUE, content |-> content]
  BY <1>1 DEF TextingTo
<1>4. ASSUME NEW n \in 0..Len(edits) - 1
      PROVE  f[n + 1] = TextEdited(f[n], content, edits[n + 1])
  <2>1. PICK k \in 0..Len(edits) : k = n + 1
    OBVIOUS
  <2>2. k # 0 /\ k - 1 = n
    BY <2>1
  <2>3. f[k] = TextEdited(f[k - 1], content, edits[k])
    BY <1>1, <2>2 DEF TextingTo
  <2> QED BY <2>1, <2>2, <2>3
<1> QED BY <1>2, <1>3, <1>4

\* f is the recursion of ApplyFileEdits, as far as item m.
FilingTo(f, edits, m) ==
    f = [n \in 0..m |-> IF n = 0 THEN [tree |-> Commit, touched |-> <<>>, failed |-> FALSE] ELSE FileEdited(f[n - 1], edits[n])]

\* The recursion of ApplyFileEdits is one.
LEMMA FilingExists ==
    ASSUME NEW edits, NEW m \in Nat
    PROVE  \E f : FilingTo(f, edits, m)
<1> DEFINE S == {k \in Nat : \E f : FilingTo(f, edits, k)}
<1>1. 0 \in S
  <2>1. FilingTo([n \in 0..0 |-> [tree |-> Commit, touched |-> <<>>, failed |-> FALSE]], edits, 0)
    BY DEF FilingTo
  <2> QED BY <2>1
<1>2. ASSUME NEW k \in Nat, k \in S PROVE k + 1 \in S
  <2>1. PICK f : FilingTo(f, edits, k)
    BY <1>2
  <2>2. PICK last : last = FileEdited(f[k], edits[k + 1])
    OBVIOUS
  <2> DEFINE g == [n \in 0..k + 1 |-> IF n = k + 1 THEN last ELSE f[n]]
  <2>3. ASSUME NEW n \in 0..k + 1
        PROVE  g[n] = IF n = 0 THEN [tree |-> Commit, touched |-> <<>>, failed |-> FALSE] ELSE FileEdited(g[n - 1], edits[n])
    <3>1. CASE n = k + 1
      <4>1. g[n] = last /\ g[n - 1] = f[k] /\ n # 0
        BY <3>1
      <4> QED BY <2>2, <3>1, <4>1
    <3>2. CASE n # k + 1
      <4>1. g[n] = f[n] /\ n \in 0..k /\ (n # 0 => g[n - 1] = f[n - 1])
        BY <3>2
      <4>2. f[n] = IF n = 0 THEN [tree |-> Commit, touched |-> <<>>, failed |-> FALSE] ELSE FileEdited(f[n - 1], edits[n])
        BY <2>1, <4>1 DEF FilingTo
      <4> QED BY <4>1, <4>2
    <3> QED BY <3>1, <3>2
  <2>4. g = [n \in 0..k + 1 |-> g[n]]
    OBVIOUS
  <2> HIDE DEF g
  <2>5. FilingTo(g, edits, k + 1)
    BY <2>3, <2>4 DEF FilingTo
  <2> QED BY <2>5
<1> HIDE DEF S
<1>3. Nat \subseteq S
  BY <1>1, <1>2, NatSetInduction
<1> QED BY <1>3 DEF S

\* ApplyFileEdits, item by item.
LEMMA FilingIs ==
    ASSUME NEW edits, Len(edits) \in Nat
    PROVE  \E f : /\ f[0] = [tree |-> Commit, touched |-> <<>>, failed |-> FALSE]
                  /\ \A n \in 0..Len(edits) - 1 : f[n + 1] = FileEdited(f[n], edits[n + 1])
                  /\ ApplyFileEdits(edits) = f[Len(edits)]
<1> DEFINE f == CHOOSE g : FilingTo(g, edits, Len(edits))
<1>1. FilingTo(f, edits, Len(edits))
  BY FilingExists
<1>2. ApplyFileEdits(edits) = f[Len(edits)]
  BY DEF ApplyFileEdits, FilingTo
<1> HIDE DEF f
<1>3. f[0] = [tree |-> Commit, touched |-> <<>>, failed |-> FALSE]
  BY <1>1 DEF FilingTo
<1>4. ASSUME NEW n \in 0..Len(edits) - 1
      PROVE  f[n + 1] = FileEdited(f[n], edits[n + 1])
  <2>1. PICK k \in 0..Len(edits) : k = n + 1
    OBVIOUS
  <2>2. k # 0 /\ k - 1 = n
    BY <2>1
  <2>3. f[k] = FileEdited(f[k - 1], edits[k])
    BY <1>1, <2>2 DEF FilingTo
  <2> QED BY <2>1, <2>2, <2>3
<1> QED BY <1>2, <1>3, <1>4

-----------------------------------------------------------------------------
(***************************************************************************)
(* Sequences, and what ConcatenatedContent and FileEdits find in an answer.*)
(***************************************************************************)
\* A sequence over any set is one over its own items.
LEMMA SeqIs ==
    ASSUME NEW S, NEW s \in Seq(S)
    PROVE  IsSeq(s)
<1>1. s \in [1..Len(s) -> S] /\ Len(s) \in Nat /\ DOMAIN s = 1..Len(s)
  OBVIOUS
<1>2. s \in [1..Len(s) -> {s[i] : i \in DOMAIN s}]
  BY <1>1
<1> QED BY <1>1, <1>2, SeqDef DEF IsSeq

\* What it means to be a sequence.
LEMMA SeqFacts ==
    ASSUME NEW s, IsSeq(s)
    PROVE  Len(s) \in Nat /\ DOMAIN s = 1..Len(s) /\ s = [i \in 1..Len(s) |-> s[i]]
           /\ \A S : (\A i \in 1..Len(s) : s[i] \in S) => s \in Seq(S)
<1>1. s \in Seq({s[i] : i \in DOMAIN s})
  BY DEF IsSeq
<1>2. Len(s) \in Nat /\ DOMAIN s = 1..Len(s) /\ s = [i \in 1..Len(s) |-> s[i]]
  BY <1>1
<1>3. ASSUME NEW S, \A i \in 1..Len(s) : s[i] \in S PROVE s \in Seq(S)
  <2>1. s \in [1..Len(s) -> S]
    BY <1>2, <1>3
  <2> QED BY <1>2, <2>1, SeqDef
<1> QED BY <1>2, <1>3

\* The empty sequence is one.
LEMMA EmptyIs == IsSeq(<<>>) /\ Len(<<>>) = 0
<1>1. <<>> \in Seq({})
  OBVIOUS
<1> QED BY <1>1, SeqIs

\* Two sequences, one after the other.
LEMMA ConcatIs ==
    ASSUME NEW s, NEW t, IsSeq(s), IsSeq(t)
    PROVE  /\ IsSeq(s \o t) /\ Len(s \o t) = Len(s) + Len(t)
           /\ \A i \in 1..Len(s) : (s \o t)[i] = s[i]
           /\ \A i \in 1..Len(t) : (s \o t)[Len(s) + i] = t[i]
<1> DEFINE S == {s[i] : i \in DOMAIN s} \cup {t[i] : i \in DOMAIN t}
<1>1. s \in Seq(S) /\ t \in Seq(S)
  BY SeqFacts
<1> HIDE DEF S
<1>2. s \o t \in Seq(S) /\ Len(s \o t) = Len(s) + Len(t)
  BY <1>1, ConcatProperties
<1>3. \A i \in 1..Len(s) + Len(t) : (s \o t)[i] = IF i <= Len(s) THEN s[i] ELSE t[i - Len(s)]
  BY <1>1, ConcatProperties
<1>4. Len(s) \in Nat /\ Len(t) \in Nat
  BY <1>1
<1>5. \A i \in 1..Len(s) : (s \o t)[i] = s[i]
  BY <1>3, <1>4
<1>6. ASSUME NEW i \in 1..Len(t) PROVE (s \o t)[Len(s) + i] = t[i]
  <2>1. PICK k : k = Len(s) + i
    OBVIOUS
  <2>2. k \in 1..Len(s) + Len(t) /\ ~ (k <= Len(s)) /\ k - Len(s) = i
    BY <1>4, <2>1
  <2> QED BY <1>3, <2>1, <2>2
<1> QED BY <1>2, <1>5, <1>6, SeqIs

\* A sequence and one item more.
LEMMA AppendIs ==
    ASSUME NEW s, NEW x, IsSeq(s)
    PROVE  /\ IsSeq(Append(s, x)) /\ Len(Append(s, x)) = Len(s) + 1
           /\ \A i \in 1..Len(s) : Append(s, x)[i] = s[i]
           /\ Append(s, x)[Len(s) + 1] = x
<1> DEFINE S == {s[i] : i \in DOMAIN s} \cup {x}
<1>1. s \in Seq(S) /\ x \in S
  BY SeqFacts
<1> HIDE DEF S
<1>2. Append(s, x) \in Seq(S) /\ Len(Append(s, x)) = Len(s) + 1
  BY <1>1, AppendProperties
<1>3. \A i \in 1..Len(s) : Append(s, x)[i] = s[i]
  BY <1>1, AppendProperties
<1>4. Append(s, x)[Len(s) + 1] = x
  BY <1>1, AppendProperties
<1> QED BY <1>2, <1>3, <1>4, SeqIs

\* The beginning of a sequence, and the same with one item more.
LEMMA PrefixIs ==
    ASSUME NEW s, IsSeq(s), NEW k \in 0..Len(s)
    PROVE  /\ IsSeq(SubSeq(s, 1, k)) /\ Len(SubSeq(s, 1, k)) = k
           /\ \A i \in 1..k : SubSeq(s, 1, k)[i] = s[i]
           /\ k < Len(s) => SubSeq(s, 1, k + 1) = Append(SubSeq(s, 1, k), s[k + 1])
<1> DEFINE S == {s[i] : i \in DOMAIN s}
<1>1. s \in Seq(S) /\ Len(s) \in Nat
  BY DEF IsSeq
<1> HIDE DEF S
<1>2. ASSUME NEW m \in 0..Len(s)
      PROVE  /\ SubSeq(s, 1, m) \in Seq(S) /\ Len(SubSeq(s, 1, m)) = m
             /\ \A i \in 1..m : SubSeq(s, 1, m)[i] = s[i]
  BY <1>1
<1>3. ASSUME k < Len(s)
      PROVE  SubSeq(s, 1, k + 1) = Append(SubSeq(s, 1, k), s[k + 1])
  <2>1. PICK m \in 0..Len(s) : m = k + 1
    BY <1>1, <1>3
  <2>2. PICK p, q : p = SubSeq(s, 1, k) /\ q = SubSeq(s, 1, m)
    OBVIOUS
  <2>3. p \in Seq(S) /\ Len(p) = k /\ \A i \in 1..k : p[i] = s[i]
    BY <1>2, <2>2
  <2>4. q \in Seq(S) /\ Len(q) = m /\ \A i \in 1..m : q[i] = s[i]
    BY <1>2, <2>2
  <2>5. Append(p, s[m]) \in Seq(S \cup {s[m]}) /\ Len(Append(p, s[m])) = m
    <3>1. p \in Seq(S \cup {s[m]})
      BY <2>3, SeqMonotonic
    <3> QED BY <2>1, <2>3, <3>1, AppendProperties
  <2>6. \A i \in 1..m : Append(p, s[m])[i] = s[i]
    <3>1. IsSeq(p)
      BY <2>3, SeqIs
    <3> QED BY <2>1, <2>3, <3>1, AppendIs
  <2>7. q = Append(p, s[m])
    BY <2>4, <2>5, <2>6, SeqEqual
  <2> QED BY <2>1, <2>2, <2>7
<1> QED BY <1>2, <1>3, SeqIs

-----------------------------------------------------------------------------
\* The words of an answer are a sequence.
LEMMA WordsOfAnswer ==
    ASSUME NEW m, WellFormed(m)
    PROVE  IsSeq(ConcatenatedContent(m))
<1>1. Len(m) \in Nat /\ DOMAIN m = 1..Len(m)
  BY SeqFacts DEF WellFormed
<1>2. PICK f : /\ f[0] = <<>>
               /\ \A n \in 0..Len(m) - 1 : f[n + 1] = f[n] \o Said(m[n + 1])
               /\ ConcatenatedContent(m) = f[Len(m)]
  BY <1>1, SayingIs
<1>3. ASSUME NEW i \in 1..Len(m) PROVE IsSeq(Said(m[i]))
  <2>1. CASE m[i].type = "text"
    <3>1. PICK w : w = m[i].words
      OBVIOUS
    <3>2. IsSeq(w)
      BY <1>1, <2>1, <3>1 DEF WellFormed
    <3>3. Said(m[i]) = [k \in 1..Len(w) |-> [word |-> w[k]]]
      BY <2>1, <3>1, <3>2, SeqFacts DEF Said
    <3>4. Said(m[i]) \in [1..Len(w) -> {[word |-> w[k]] : k \in 1..Len(w)}]
      BY <3>3
    <3>5. Len(w) \in Nat
      BY <3>2, SeqFacts
    <3> QED BY <3>4, <3>5, SeqDef, SeqIs
  <2>2. CASE m[i].type = "tool_use"
    <3>1. Said(m[i]) = <<[name |-> m[i].name], [input |-> m[i].input]>>
      BY <2>2 DEF Said
    <3>2. Said(m[i]) \in Seq({[name |-> m[i].name], [input |-> m[i].input]})
      BY <3>1
    <3> QED BY <3>2, SeqIs
  <2>3. CASE m[i].type \notin {"text", "tool_use"}
    <3>1. Said(m[i]) = <<>>
      BY <2>3 DEF Said
    <3> QED BY <3>1, EmptyIs
  <2> QED BY <2>1, <2>2, <2>3
<1> DEFINE S == {n \in Nat : n <= Len(m) => IsSeq(f[n])}
<1>4. 0 \in S
  BY <1>2, EmptyIs
<1>5. ASSUME NEW n \in Nat, n \in S PROVE n + 1 \in S
  <2> SUFFICES ASSUME n + 1 <= Len(m) PROVE IsSeq(f[n + 1])
    OBVIOUS
  <2>1. n \in 0..Len(m) - 1 /\ n + 1 \in 1..Len(m)
    BY <1>1
  <2>2. IsSeq(f[n])
    BY <1>1, <1>5
  <2>3. IsSeq(Said(m[n + 1]))
    BY <1>3, <2>1
  <2>4. PICK x, y : x = f[n] /\ y = Said(m[n + 1])
    OBVIOUS
  <2>5. IsSeq(x \o y)
    BY <2>2, <2>3, <2>4, ConcatIs
  <2> QED BY <1>2, <2>1, <2>4, <2>5
<1> HIDE DEF S
<1>6. Nat \subseteq S
  BY <1>4, <1>5, NatSetInduction
<1> QED BY <1>1, <1>2, <1>6 DEF S

-----------------------------------------------------------------------------
\* What one has and the other begins with.
LEMMA OnlyOne ==
    ASSUME NEW s, IsSeq(s), NEW places, NEW k \in 0..Len(s) - 1
    PROVE  Only(SubSeq(s, 1, k + 1), places)
             = IF k + 1 \in places THEN Append(Only(SubSeq(s, 1, k), places), s[k + 1])
                                   ELSE Only(SubSeq(s, 1, k), places)
<1>1. Len(s) \in Nat
  BY SeqFacts
<1>2. PICK p, q : p = SubSeq(s, 1, k) /\ q = SubSeq(s, 1, k + 1)
  OBVIOUS
<1>3. Len(p) = k /\ \A i \in 1..k : p[i] = s[i]
  BY <1>1, <1>2, PrefixIs
<1>4. Len(q) = k + 1 /\ \A i \in 1..k + 1 : q[i] = s[i]
  <2>1. k + 1 \in 0..Len(s)
    BY <1>1
  <2> QED BY <1>2, <2>1, PrefixIs
<1>5. PICK f : /\ f[0] = <<>>
               /\ \A n \in 0..k - 1 : f[n + 1] = IF n + 1 \in places THEN Append(f[n], p[n + 1]) ELSE f[n]
               /\ Only(p, places) = f[k]
  <2>1. PICK h : /\ h[0] = <<>>
                 /\ \A n \in 0..Len(p) - 1 : h[n + 1] = IF n + 1 \in places THEN Append(h[n], p[n + 1]) ELSE h[n]
                 /\ Only(p, places) = h[Len(p)]
    BY <1>1, <1>3, KeepingIs
  <2> QED BY <1>3, <2>1
<1>6. PICK g : /\ g[0] = <<>>
               /\ \A n \in 0..k : g[n + 1] = IF n + 1 \in places THEN Append(g[n], q[n + 1]) ELSE g[n]
               /\ Only(q, places) = g[k + 1]
  <2>1. Len(q) \in Nat /\ Len(q) - 1 = k
    BY <1>4
  <2>2. PICK h : /\ h[0] = <<>>
                 /\ \A n \in 0..Len(q) - 1 : h[n + 1] = IF n + 1 \in places THEN Append(h[n], q[n + 1]) ELSE h[n]
                 /\ Only(q, places) = h[Len(q)]
    BY <2>1, KeepingIs
  <2> QED BY <1>4, <2>1, <2>2
<1> DEFINE S == {n \in Nat : n <= k => f[n] = g[n]}
<1>7. 0 \in S
  BY <1>5, <1>6
<1>8. ASSUME NEW n \in Nat, n \in S PROVE n + 1 \in S
  <2> SUFFICES ASSUME n + 1 <= k PROVE f[n + 1] = g[n + 1]
    OBVIOUS
  <2>1. n \in 0..k - 1 /\ n \in 0..k /\ n + 1 \in 1..k /\ n + 1 \in 1..k + 1
    OBVIOUS
  <2>2. f[n] = g[n] /\ p[n + 1] = q[n + 1]
    BY <1>3, <1>4, <1>8, <2>1
  <2> QED BY <1>5, <1>6, <2>1, <2>2
<1> HIDE DEF S
<1>9. Nat \subseteq S
  BY <1>7, <1>8, NatSetInduction
<1>10. f[k] = g[k] /\ q[k + 1] = s[k + 1]
  BY <1>4, <1>9 DEF S
<1> QED BY <1>2, <1>5, <1>6, <1>10

\* Of nothing, nothing is kept.
LEMMA OnlyNone ==
    ASSUME NEW s, NEW places, Len(s) = 0
    PROVE  Only(s, places) = <<>>
<1>1. PICK f : f[0] = <<>> /\ Only(s, places) = f[Len(s)]
  BY KeepingIs
<1> QED BY <1>1

\* What is kept of a sequence is in it, at one of the places.
LEMMA OnlyOf ==
    ASSUME NEW s, IsSeq(s), NEW places
    PROVE  /\ IsSeq(Only(s, places))
           /\ \A i \in DOMAIN Only(s, places) :
                 \E j \in DOMAIN s : j \in places /\ Only(s, places)[i] = s[j]
<1>1. Len(s) \in Nat /\ DOMAIN s = 1..Len(s)
  BY SeqFacts
<1> DEFINE Kept == {s[j] : j \in DOMAIN s \cap places}
           S == {n \in Nat : n <= Len(s) => Only(SubSeq(s, 1, n), places) \in Seq(Kept)}
<1> HIDE DEF Kept
<1>2. 0 \in S
  <2>1. Len(SubSeq(s, 1, 0)) = 0
    BY <1>1, PrefixIs
  <2>2. Only(SubSeq(s, 1, 0), places) = <<>>
    BY <2>1, OnlyNone
  <2>3. <<>> \in Seq(Kept)
    OBVIOUS
  <2> QED BY <2>2, <2>3
<1>3. ASSUME NEW n \in Nat, n \in S PROVE n + 1 \in S
  <2> SUFFICES ASSUME n + 1 <= Len(s) PROVE Only(SubSeq(s, 1, n + 1), places) \in Seq(Kept)
    OBVIOUS
  <2>1. n \in 0..Len(s) - 1 /\ n + 1 \in DOMAIN s
    BY <1>1
  <2>2. PICK had : had = Only(SubSeq(s, 1, n), places)
    OBVIOUS
  <2>3. had \in Seq(Kept)
    BY <1>1, <1>3, <2>2
  <2>4. n + 1 \in places => s[n + 1] \in Kept
    BY <2>1 DEF Kept
  <2>5. Only(SubSeq(s, 1, n + 1), places) = IF n + 1 \in places THEN Append(had, s[n + 1]) ELSE had
    BY <2>1, <2>2, OnlyOne
  <2>6. \A x \in Kept : Append(had, x) \in Seq(Kept)
    BY <2>3, AppendProperties
  <2> QED BY <2>3, <2>4, <2>5, <2>6
<1> HIDE DEF S
<1>4. Nat \subseteq S
  BY <1>2, <1>3, NatSetInduction
<1>5. SubSeq(s, 1, Len(s)) = s
  BY SubSeqFull DEF IsSeq
<1>6. Only(s, places) \in Seq(Kept)
  <2>1. Len(s) \in S
    BY <1>1, <1>4
  <2>2. Only(SubSeq(s, 1, Len(s)), places) \in Seq(Kept)
    BY <1>1, <2>1 DEF S
  <2> QED BY <1>5, <2>2
<1>7. \A i \in DOMAIN Only(s, places) : Only(s, places)[i] \in Kept
  BY <1>6
<1> QED BY <1>6, <1>7, SeqIs DEF Kept

\* The edits of an answer are a sequence of calls that say what to do.
EditIs(b) ==
    /\ IsSeq(b.input.content) /\ IsSeq(b.input.edits)
    /\ \A k \in DOMAIN b.input.edits :
          IsSeq(b.input.edits[k].old) /\ IsSeq(b.input.edits[k].new)

\* extractFileEdits: what it finds in an answer can be applied.
LEMMA EditsOfAnswer ==
    ASSUME NEW m, WellFormed(m)
    PROVE  IsSeq(FileEdits(m)) /\ \A i \in DOMAIN FileEdits(m) : EditIs(FileEdits(m)[i])
<1> DEFINE places == {i \in DOMAIN m : /\ m[i].type = "tool_use" /\ m[i].input.path # ""
                                       /\ m[i].name \in {"Edit", "MultiEdit", "Write", "NotebookEdit"}}
<1>1. FileEdits(m) = Only(m, places)
  BY DEF FileEdits
<1>2. \A j \in DOMAIN m : j \in places => EditIs(m[j])
  BY DEF WellFormed, EditIs
<1> HIDE DEF places
<1>3. IsSeq(m)
  BY DEF WellFormed
<1> QED BY <1>1, <1>2, <1>3, OnlyOf

-----------------------------------------------------------------------------
(***************************************************************************)
(* Text edits, and one call.                                               *)
(***************************************************************************)
\* Replacing an old_string leaves a sequence of words.
LEMMA ReplacedIs ==
    ASSUME NEW content, IsSeq(content), NEW e, IsSeq(e.old), IsSeq(e.new)
    PROVE  IsSeq(Replace(content, e))
<1>0. \A i : IsSeq(WordAt(content, i))
  <2> SUFFICES ASSUME NEW i PROVE IsSeq(WordAt(content, i))
    OBVIOUS
  <2>1. CASE i > Len(content)
    BY <2>1, EmptyIs DEF WordAt
  <2>2. CASE ~ (i > Len(content))
    <3>1. WordAt(content, i) = <<content[i]>> /\ <<content[i]>> \in Seq({content[i]})
      BY <2>2 DEF WordAt
    <3> QED BY <3>1, SeqIs
  <2> QED BY <2>1, <2>2
<1>1. Len(content) \in Nat /\ Len(e.old) \in Nat
  BY SeqFacts
<1>2. PICK f : /\ f[0] = [out |-> <<>>, skip |-> 0, replaced |-> FALSE]
               /\ \A n \in 0..Len(content) : f[n + 1] = Scanned(f[n], content, n + 1, e)
               /\ Replace(content, e) = f[Len(content) + 1].out
  BY <1>1, ScanningIs
<1> DEFINE Good(scan) == /\ scan = [out |-> scan.out, skip |-> scan.skip, replaced |-> scan.replaced]
                         /\ IsSeq(scan.out) /\ scan.skip \in Nat
           S == {n \in Nat : n <= Len(content) + 1 => Good(f[n])}
<1>3. ASSUME NEW scan, Good(scan), NEW i PROVE Good(Scanned(scan, content, i, e))
  <2>1. CASE scan.skip > 0
    <3>1. Scanned(scan, content, i, e) = [scan EXCEPT !.skip = @ - 1]
      BY <2>1 DEF Scanned
    <3>2. Scanned(scan, content, i, e) = [out |-> scan.out, skip |-> scan.skip - 1, replaced |-> scan.replaced]
      BY <1>3, <3>1
    <3> QED BY <1>3, <2>1, <3>2
  <2>2. CASE ~ (scan.skip > 0) /\ i \in Occurrences(content, e.old) /\ (e.all \/ ~scan.replaced)
    <3>1. PICK put, skip : /\ put = IF e.old = <<>> THEN e.new \o WordAt(content, i) ELSE e.new
                           /\ skip = IF e.old = <<>> THEN 0 ELSE Len(e.old) - 1
      OBVIOUS
    <3>2. Scanned(scan, content, i, e) = [out |-> scan.out \o put, skip |-> skip, replaced |-> TRUE]
      BY <2>2, <3>1 DEF Scanned
    <3>3. IsSeq(put)
      BY <1>0, <3>1, ConcatIs
    <3>4. IsSeq(scan.out \o put)
      BY <1>3, <3>3, ConcatIs
    <3>5. skip \in Nat
      <4>1. e.old # <<>> => Len(e.old) # 0
        BY EmptySeq DEF IsSeq
      <4> QED BY <1>1, <3>1, <4>1
    <3> QED BY <3>2, <3>4, <3>5
  <2>3. CASE ~ (scan.skip > 0) /\ ~ (i \in Occurrences(content, e.old) /\ (e.all \/ ~scan.replaced))
    <3>1. Scanned(scan, content, i, e) = [scan EXCEPT !.out = @ \o WordAt(content, i)]
      BY <2>3 DEF Scanned
    <3>2. Scanned(scan, content, i, e)
            = [out |-> scan.out \o WordAt(content, i), skip |-> scan.skip, replaced |-> scan.replaced]
      BY <1>3, <3>1
    <3>3. IsSeq(scan.out \o WordAt(content, i))
      BY <1>0, <1>3, ConcatIs
    <3> QED BY <1>3, <3>2, <3>3
  <2> QED BY <2>1, <2>2, <2>3
<1> HIDE DEF Good
<1>4. 0 \in S
  BY <1>2, EmptyIs DEF Good
<1>5. ASSUME NEW n \in Nat, n \in S PROVE n + 1 \in S
  <2> SUFFICES ASSUME n + 1 <= Len(content) + 1 PROVE Good(f[n + 1])
    OBVIOUS
  <2>1. n \in 0..Len(content)
    BY <1>1
  <2>2. PICK scan : scan = f[n]
    OBVIOUS
  <2>3. Good(scan)
    BY <1>1, <1>5, <2>2
  <2>4. Good(Scanned(scan, content, n + 1, e))
    BY <1>3, <2>3
  <2> QED BY <1>2, <2>1, <2>2, <2>4
<1> HIDE DEF S
<1>6. Nat \subseteq S
  BY <1>4, <1>5, NatSetInduction
<1>7. Good(f[Len(content) + 1])
  BY <1>1, <1>6 DEF S
<1> QED BY <1>2, <1>7 DEF Good

\* A call of text edits: it did all of them, or nothing.
LEMMA AllOrNothing ==
    ASSUME NEW content, IsSeq(content), NEW edits, IsSeq(edits),
           \A k \in DOMAIN edits : IsSeq(edits[k].old) /\ IsSeq(edits[k].new)
    PROVE  LET file == ApplyTextEdits(content, edits)
           IN  file.ok \in BOOLEAN /\ IsSeq(file.content) /\ (~file.ok => file.content = content)
<1>1. Len(edits) \in Nat /\ DOMAIN edits = 1..Len(edits)
  BY SeqFacts
<1>2. PICK f : /\ f[0] = [ok |-> TRUE, content |-> content]
               /\ \A n \in 0..Len(edits) - 1 : f[n + 1] = TextEdited(f[n], content, edits[n + 1])
               /\ ApplyTextEdits(content, edits) = f[Len(edits)]
  <2>1. Len(edits) \in Nat
    BY <1>1
  <2> QED BY <2>1, TextingIs
<1> DEFINE Good(file) == /\ file = [ok |-> file.ok, content |-> file.content]
                         /\ file.ok \in BOOLEAN /\ IsSeq(file.content) /\ (~file.ok => file.content = content)
           S == {n \in Nat : n <= Len(edits) => Good(f[n])}
<1>3. ASSUME NEW file, Good(file), NEW e, IsSeq(e.old), IsSeq(e.new)
      PROVE  Good(TextEdited(file, content, e))
  <2>1. CASE ~file.ok
    <3>1. TextEdited(file, content, e) = file
      BY <2>1 DEF TextEdited
    <3> QED BY <1>3, <3>1
  <2>2. CASE file.ok /\ Occurrences(file.content, e.old) = {}
    <3>1. TextEdited(file, content, e) = [ok |-> FALSE, content |-> content]
      BY <2>2 DEF TextEdited
    <3> QED BY <3>1
  <2>3. CASE file.ok /\ Occurrences(file.content, e.old) # {}
    <3>1. TextEdited(file, content, e) = [file EXCEPT !.content = Replace(file.content, e)]
      BY <2>3 DEF TextEdited
    <3>2. TextEdited(file, content, e) = [ok |-> file.ok, content |-> Replace(file.content, e)]
      BY <1>3, <3>1
    <3>3. IsSeq(Replace(file.content, e))
      <4>1. PICK c : c = file.content
        OBVIOUS
      <4>2. IsSeq(c)
        BY <1>3, <4>1
      <4>3. IsSeq(Replace(c, e))
        BY <1>3, <4>2, ReplacedIs
      <4> QED BY <4>1, <4>3
    <3> QED BY <1>3, <2>3, <3>2, <3>3
  <2> QED BY <1>3, <2>1, <2>2, <2>3
<1> HIDE DEF Good
<1>4. 0 \in S
  <2>1. PICK file : file = [ok |-> TRUE, content |-> content]
    OBVIOUS
  <2>2. file.ok = TRUE /\ file.content = content
    BY <2>1
  <2>3. Good(file)
    BY <2>1, <2>2 DEF Good
  <2> QED BY <1>2, <2>1, <2>3
<1>5. ASSUME NEW n \in Nat, n \in S PROVE n + 1 \in S
  <2> SUFFICES ASSUME n + 1 <= Len(edits) PROVE Good(f[n + 1])
    OBVIOUS
  <2>1. n \in 0..Len(edits) - 1 /\ n + 1 \in DOMAIN edits
    BY <1>1
  <2>2. PICK file, e : file = f[n] /\ e = edits[n + 1]
    OBVIOUS
  <2>3. Good(file)
    BY <1>1, <1>5, <2>2
  <2>4. Good(TextEdited(file, content, e))
    <3>1. IsSeq(e.old) /\ IsSeq(e.new)
      BY <2>1, <2>2
    <3> QED BY <1>3, <2>3, <3>1
  <2> QED BY <1>2, <2>1, <2>2, <2>4
<1> HIDE DEF S
<1>6. Nat \subseteq S
  BY <1>4, <1>5, NatSetInduction
<1>7. Good(f[Len(edits)])
  BY <1>1, <1>6 DEF S
<1> QED BY <1>2, <1>7 DEF Good

\* A tree of texts.
TreeIs(tree) == tree = [p \in DOMAIN tree |-> tree[p]] /\ \A p \in DOMAIN tree : IsSeq(tree[p])

\* A file written leaves a tree of texts.
LEMMA WrittenIs ==
    ASSUME NEW tree, TreeIs(tree), NEW path, NEW content, IsSeq(content)
    PROVE  TreeIs(Write(tree, path, content))
<1>1. PICK D : D = DOMAIN tree \cup {path}
  OBVIOUS
<1>2. Write(tree, path, content) = [p \in D |-> IF p = path THEN content ELSE tree[p]]
  BY <1>1 DEF Write
<1>3. \A p \in D : IsSeq(IF p = path THEN content ELSE tree[p])
  BY <1>1 DEF TreeIs
<1> QED BY <1>2, <1>3 DEF TreeIs

\* A file written as it was leaves the tree as it was.
LEMMA SameWritten ==
    ASSUME NEW tree, TreeIs(tree), NEW path \in DOMAIN tree
    PROVE  Write(tree, path, tree[path]) = tree
<1>1. DOMAIN tree \cup {path} = DOMAIN tree
  OBVIOUS
<1>2. Write(tree, path, tree[path]) = [p \in DOMAIN tree |-> IF p = path THEN tree[path] ELSE tree[p]]
  BY <1>1 DEF Write
<1>3. \A p \in DOMAIN tree : (IF p = path THEN tree[path] ELSE tree[p]) = tree[p]
  OBVIOUS
<1>4. Write(tree, path, tree[path]) = [p \in DOMAIN tree |-> tree[p]]
  BY <1>2, <1>3
<1> QED BY <1>4 DEF TreeIs

\* One call on a worktree: if it failed, nothing happened.
LEMMA CallFailsWhole ==
    ASSUME NEW tree, TreeIs(tree), NEW b, EditIs(b)
    PROVE  LET applied == ApplyEdit(tree, b)
           IN  applied.ok \in BOOLEAN /\ TreeIs(applied.tree) /\ (~applied.ok => applied.tree = tree)
<1> DEFINE path == Resolve[b.input.path]
<1>1. CASE path # "" /\ b.name = "Write"
  <2>1. ApplyEdit(tree, b) = [ok |-> TRUE, tree |-> Write(tree, path, b.input.content)]
    BY <1>1 DEF ApplyEdit
  <2>2. TreeIs(Write(tree, path, b.input.content))
    BY WrittenIs DEF EditIs
  <2> QED BY <2>1, <2>2
<1>2. CASE path # "" /\ b.name \in {"Edit", "MultiEdit"} /\ path \in DOMAIN tree
  <2>1. PICK file : file = ApplyTextEdits(tree[path], b.input.edits)
    OBVIOUS
  <2>2. b.name # "Write"
    BY <1>2
  <2>3. ApplyEdit(tree, b) = [ok |-> file.ok, tree |-> Write(tree, path, file.content)]
    BY <1>2, <2>1, <2>2 DEF ApplyEdit
  <2>4. PICK content, edits : content = tree[path] /\ edits = b.input.edits
    OBVIOUS
  <2>5. IsSeq(content) /\ IsSeq(edits)
    BY <1>2, <2>4 DEF TreeIs, EditIs
  <2>6. \A k \in DOMAIN edits : IsSeq(edits[k].old) /\ IsSeq(edits[k].new)
    BY <2>4 DEF EditIs
  <2>7. file.ok \in BOOLEAN /\ IsSeq(file.content) /\ (~file.ok => file.content = content)
    BY <2>1, <2>4, <2>5, <2>6, AllOrNothing
  <2>8. TreeIs(Write(tree, path, file.content))
    BY <2>7, WrittenIs
  <2>9. ~file.ok => Write(tree, path, file.content) = tree
    BY <1>2, <2>4, <2>7, SameWritten
  <2> QED BY <2>3, <2>7, <2>8, <2>9
<1>3. CASE path = "" \/ ~ (b.name = "Write" \/ (b.name \in {"Edit", "MultiEdit"} /\ path \in DOMAIN tree))
  <2>1. ApplyEdit(tree, b) = [ok |-> FALSE, tree |-> tree]
    BY <1>3 DEF ApplyEdit
  <2> QED BY <2>1
<1> QED BY <1>1, <1>2, <1>3

-----------------------------------------------------------------------------
(***************************************************************************)
(* All calls of an answer, on a worktree.                                  *)
(***************************************************************************)
\* A worktree nobody has edited.
Fresh == [tree |-> Commit, touched |-> <<>>, failed |-> FALSE]

\* With no edits a worktree is fresh.
LEMMA FilesNone ==
    ASSUME NEW edits, Len(edits) = 0
    PROVE  ApplyFileEdits(edits) = Fresh
<1>1. PICK f : f[0] = [tree |-> Commit, touched |-> <<>>, failed |-> FALSE] /\ ApplyFileEdits(edits) = f[Len(edits)]
  <2>1. Len(edits) \in Nat
    OBVIOUS
  <2> QED BY <2>1, FilingIs
<1> QED BY <1>1 DEF Fresh

\* One call more, of any sequence of calls.
LEMMA FilesAppend ==
    ASSUME NEW edits, IsSeq(edits), NEW b
    PROVE  ApplyFileEdits(Append(edits, b)) = FileEdited(ApplyFileEdits(edits), b)
<1>1. PICK k : k = Len(edits)
  OBVIOUS
<1>2. k \in Nat
  BY <1>1, SeqFacts
<1>3. PICK q : q = Append(edits, b)
  OBVIOUS
<1>4. Len(q) = k + 1 /\ (\A i \in 1..k : q[i] = edits[i]) /\ q[k + 1] = b
  BY <1>1, <1>3, AppendIs
<1>5. PICK f : /\ f[0] = Fresh
               /\ \A n \in 0..k - 1 : f[n + 1] = FileEdited(f[n], edits[n + 1])
               /\ ApplyFileEdits(edits) = f[k]
  <2>1. PICK h : /\ h[0] = [tree |-> Commit, touched |-> <<>>, failed |-> FALSE]
                 /\ \A n \in 0..Len(edits) - 1 : h[n + 1] = FileEdited(h[n], edits[n + 1])
                 /\ ApplyFileEdits(edits) = h[Len(edits)]
    BY <1>1, <1>2, FilingIs
  <2> QED BY <1>1, <2>1 DEF Fresh
<1>6. PICK g : /\ g[0] = Fresh
               /\ \A n \in 0..k : g[n + 1] = FileEdited(g[n], q[n + 1])
               /\ ApplyFileEdits(q) = g[k + 1]
  <2>1. Len(q) \in Nat /\ Len(q) - 1 = k
    BY <1>2, <1>4
  <2>2. PICK h : /\ h[0] = [tree |-> Commit, touched |-> <<>>, failed |-> FALSE]
                 /\ \A n \in 0..Len(q) - 1 : h[n + 1] = FileEdited(h[n], q[n + 1])
                 /\ ApplyFileEdits(q) = h[Len(q)]
    BY <2>1, FilingIs
  <2> QED BY <1>4, <2>1, <2>2 DEF Fresh
<1> DEFINE S == {n \in Nat : n <= k => f[n] = g[n]}
<1>7. 0 \in S
  BY <1>5, <1>6
<1>8. ASSUME NEW n \in Nat, n \in S PROVE n + 1 \in S
  <2> SUFFICES ASSUME n + 1 <= k PROVE f[n + 1] = g[n + 1]
    OBVIOUS
  <2>1. n \in 0..k - 1 /\ n \in 0..k /\ n + 1 \in 1..k
    BY <1>2
  <2>2. f[n] = g[n] /\ edits[n + 1] = q[n + 1]
    BY <1>2, <1>4, <1>8, <2>1
  <2> QED BY <1>5, <1>6, <2>1, <2>2
<1> HIDE DEF S
<1>9. Nat \subseteq S
  BY <1>7, <1>8, NatSetInduction
<1>10. f[k] = g[k] /\ k \in 0..k
  BY <1>2, <1>9 DEF S
<1> QED BY <1>3, <1>4, <1>5, <1>6, <1>10

\* As far as a call: the one before it, and the call.
LEMMA FilesOne ==
    ASSUME NEW edits, IsSeq(edits), NEW k \in 0..Len(edits) - 1
    PROVE  ApplyFileEdits(SubSeq(edits, 1, k + 1)) = FileEdited(ApplyFileEdits(SubSeq(edits, 1, k)), edits[k + 1])
<1>1. Len(edits) \in Nat
  BY SeqFacts
<1>2. PICK p : p = SubSeq(edits, 1, k)
  OBVIOUS
<1>3. IsSeq(p) /\ SubSeq(edits, 1, k + 1) = Append(p, edits[k + 1])
  BY <1>1, <1>2, PrefixIs
<1> QED BY <1>2, <1>3, FilesAppend

\* A worktree: its files are texts, its failures are a yes or a no, and the
\* paths it has touched are paths.
SideIs(side) ==
    /\ TreeIs(side.tree) /\ side.failed \in BOOLEAN
    /\ IsSeq(side.touched) /\ \A i \in DOMAIN side.touched : side.touched[i] # ""

\* One edit leaves a worktree one.
LEMMA EditedIs ==
    ASSUME NEW side, SideIs(side), NEW b, EditIs(b)
    PROVE  SideIs(FileEdited(side, b))
<1> DEFINE path == Resolve[b.input.path]
<1>1. PICK applied : applied = ApplyEdit(side.tree, b)
  OBVIOUS
<1>2. applied.ok \in BOOLEAN /\ TreeIs(applied.tree)
  <2>1. PICK tree : tree = side.tree
    OBVIOUS
  <2>2. TreeIs(tree)
    BY <2>1 DEF SideIs
  <2> QED BY <1>1, <2>1, <2>2, CallFailsWhole
<1>3. PICK touched : touched = IF path = "" \/ Contains(side.touched, path) THEN side.touched
                               ELSE Append(side.touched, path)
  OBVIOUS
<1>4. IsSeq(touched) /\ \A i \in DOMAIN touched : touched[i] # ""
  <2>1. PICK had : had = side.touched
    OBVIOUS
  <2>2. IsSeq(had) /\ \A i \in DOMAIN had : had[i] # ""
    BY <2>1 DEF SideIs
  <2>3. CASE touched = had
    BY <2>2, <2>3
  <2>4. CASE touched = Append(had, path) /\ path # ""
    <3>1. IsSeq(touched) /\ Len(touched) = Len(had) + 1 /\ (\A i \in 1..Len(had) : touched[i] = had[i])
          /\ touched[Len(had) + 1] = path
      BY <2>2, <2>4, AppendIs
    <3>2. Len(had) \in Nat /\ DOMAIN had = 1..Len(had) /\ DOMAIN touched = 1..Len(touched)
      BY <2>2, <3>1, SeqFacts
    <3>3. ASSUME NEW i \in DOMAIN touched PROVE touched[i] # ""
      <4>1. CASE i = Len(had) + 1
        BY <2>4, <3>1, <4>1
      <4>2. CASE i # Len(had) + 1
        <5>1. i \in 1..Len(had)
          BY <3>1, <3>2, <4>2
        <5> QED BY <2>2, <3>1, <3>2, <5>1
      <4> QED BY <4>1, <4>2
    <3> QED BY <3>1, <3>3
  <2> QED BY <1>3, <2>1, <2>3, <2>4
<1>5. FileEdited(side, b) = [tree |-> applied.tree, touched |-> touched, failed |-> side.failed \/ ~applied.ok]
  BY <1>1, <1>3 DEF FileEdited
<1>6. PICK failed \in BOOLEAN : failed = (side.failed \/ ~applied.ok)
  OBVIOUS
<1>7. PICK next : next = [tree |-> applied.tree, touched |-> touched, failed |-> failed]
  OBVIOUS
<1>8. next.tree = applied.tree /\ next.touched = touched /\ next.failed = failed
  BY <1>7
<1>9. SideIs(next)
  BY <1>2, <1>4, <1>8 DEF SideIs
<1> QED BY <1>5, <1>6, <1>7, <1>9

\* So do all edits up to any of them.
LEMMA PrefixSideIs ==
    ASSUME NEW edits, IsSeq(edits), \A i \in DOMAIN edits : EditIs(edits[i])
    PROVE  \A k \in 0..Len(edits) : SideIs(ApplyFileEdits(SubSeq(edits, 1, k)))
<1>1. Len(edits) \in Nat /\ DOMAIN edits = 1..Len(edits)
  BY SeqFacts
<1> DEFINE S == {k \in Nat : k <= Len(edits) => SideIs(ApplyFileEdits(SubSeq(edits, 1, k)))}
<1>2. 0 \in S
  <2>1. Len(SubSeq(edits, 1, 0)) = 0
    BY <1>1, PrefixIs
  <2>2. ApplyFileEdits(SubSeq(edits, 1, 0)) = Fresh
    BY <2>1, FilesNone
  <2>3. TreeIs(Commit)
    BY CommitAssumption DEF TreeIs
  <2>4. SideIs(Fresh)
    <3>1. Fresh.tree = Commit /\ Fresh.touched = <<>> /\ Fresh.failed = FALSE
      BY DEF Fresh
    <3>2. IsSeq(<<>>) /\ DOMAIN <<>> = {}
      BY EmptyIs
    <3> QED BY <2>3, <3>1, <3>2 DEF SideIs
  <2> QED BY <2>2, <2>4
<1>3. ASSUME NEW k \in Nat, k \in S PROVE k + 1 \in S
  <2> SUFFICES ASSUME k + 1 <= Len(edits) PROVE SideIs(ApplyFileEdits(SubSeq(edits, 1, k + 1)))
    OBVIOUS
  <2>1. k \in 0..Len(edits) - 1 /\ k + 1 \in DOMAIN edits
    BY <1>1
  <2>2. PICK side, b : side = ApplyFileEdits(SubSeq(edits, 1, k)) /\ b = edits[k + 1]
    OBVIOUS
  <2>3. SideIs(side)
    BY <1>1, <1>3, <2>2
  <2>4. EditIs(b)
    BY <2>1, <2>2
  <2>5. SideIs(FileEdited(side, b))
    BY <2>3, <2>4, EditedIs
  <2> QED BY <2>1, <2>2, <2>5, FilesOne
<1> HIDE DEF S
<1>4. Nat \subseteq S
  BY <1>2, <1>3, NatSetInduction
<1> QED BY <1>1, <1>4 DEF S

\* All items of a sequence are the sequence.
LEMMA WholeIs ==
    ASSUME NEW s, IsSeq(s)
    PROVE  SubSeq(s, 1, Len(s)) = s
BY SubSeqFull DEF IsSeq

\* What applyFileEdits makes of an answer is a worktree.
LEMMA WorktreeIs ==
    ASSUME NEW m, WellFormed(m)
    PROVE  SideIs(Worktree(m))
<1>1. PICK edits : edits = FileEdits(m)
  OBVIOUS
<1>2. IsSeq(edits) /\ \A i \in DOMAIN edits : EditIs(edits[i])
  BY <1>1, EditsOfAnswer
<1>3. Len(edits) \in 0..Len(edits)
  BY <1>2, SeqFacts
<1>4. SideIs(ApplyFileEdits(SubSeq(edits, 1, Len(edits))))
  BY <1>2, <1>3, PrefixSideIs
<1> QED BY <1>1, <1>2, <1>4, WholeIs DEF Worktree

-----------------------------------------------------------------------------
\* Calls that failed left no trace, and a worktree knows that one did.
LEMMA NoTrace ==
    ASSUME NEW edits, IsSeq(edits), \A i \in DOMAIN edits : EditIs(edits[i])
    PROVE  LET Before(i) == ApplyFileEdits(SubSeq(edits, 1, i - 1)).tree
               good == {i \in DOMAIN edits : ApplyEdit(Before(i), edits[i]).ok}
           IN  /\ ApplyFileEdits(Only(edits, good)).tree = ApplyFileEdits(edits).tree
               /\ ApplyFileEdits(edits).failed <=> good # DOMAIN edits
<1> DEFINE good == {i \in DOMAIN edits : ApplyEdit(ApplyFileEdits(SubSeq(edits, 1, i - 1)).tree, edits[i]).ok}
<1>1. Len(edits) \in Nat /\ DOMAIN edits = 1..Len(edits)
  BY SeqFacts
<1>2. ASSUME NEW k \in 0..Len(edits) - 1, NEW side, side = ApplyFileEdits(SubSeq(edits, 1, k))
      PROVE  k + 1 \in good <=> ApplyEdit(side.tree, edits[k + 1]).ok
  <2>1. PICK i \in DOMAIN edits : i = k + 1
    BY <1>1
  <2>2. i - 1 = k
    BY <2>1
  <2>3. i \in good <=> ApplyEdit(side.tree, edits[i]).ok
    BY <1>2, <2>2
  <2> QED BY <2>1, <2>3
<1>3. good \subseteq DOMAIN edits
  OBVIOUS
<1> HIDE DEF good
<1> DEFINE Right(k) ==
             /\ ApplyFileEdits(Only(SubSeq(edits, 1, k), good)).tree = ApplyFileEdits(SubSeq(edits, 1, k)).tree
             /\ ApplyFileEdits(SubSeq(edits, 1, k)).failed <=> \E i \in 1..k : i \notin good
           S == {k \in Nat : k <= Len(edits) => Right(k)}
<1>4. 0 \in S
  <2>1. Len(SubSeq(edits, 1, 0)) = 0
    BY <1>1, PrefixIs
  <2>2. Only(SubSeq(edits, 1, 0), good) = <<>>
    BY <2>1, OnlyNone
  <2>3. ApplyFileEdits(SubSeq(edits, 1, 0)) = Fresh
    BY <2>1, FilesNone
  <2>4. ApplyFileEdits(<<>>) = Fresh
    BY EmptyIs, FilesNone
  <2>5. Fresh.failed = FALSE
    BY DEF Fresh
  <2> QED BY <2>2, <2>3, <2>4, <2>5
<1>5. ASSUME NEW k \in Nat, k \in S PROVE k + 1 \in S
  <2> SUFFICES ASSUME k + 1 <= Len(edits) PROVE Right(k + 1)
    OBVIOUS
  <2>1. k \in 0..Len(edits) - 1 /\ k \in 0..Len(edits) /\ k + 1 \in DOMAIN edits
    BY <1>1
  <2>2. Right(k)
    BY <1>1, <1>5
  <2>3. PICK side, b, had : /\ side = ApplyFileEdits(SubSeq(edits, 1, k)) /\ b = edits[k + 1]
                            /\ had = Only(SubSeq(edits, 1, k), good)
    OBVIOUS
  <2>4. SideIs(side) /\ EditIs(b)
    BY <2>1, <2>3, PrefixSideIs
  <2>5. PICK applied : applied = ApplyEdit(side.tree, b)
    OBVIOUS
  <2>6. applied.ok \in BOOLEAN /\ (~applied.ok => applied.tree = side.tree)
    <3>1. PICK tree : tree = side.tree
      OBVIOUS
    <3>2. TreeIs(tree)
      BY <2>4, <3>1 DEF SideIs
    <3> QED BY <2>4, <2>5, <3>1, <3>2, CallFailsWhole
  <2>7. k + 1 \in good <=> applied.ok
    BY <1>2, <2>1, <2>3, <2>5
  <2>8. PICK next : next = ApplyFileEdits(SubSeq(edits, 1, k + 1))
    OBVIOUS
  <2>9. next.tree = applied.tree /\ next.failed = (side.failed \/ ~applied.ok)
    <3>1. next = FileEdited(side, b)
      BY <2>1, <2>3, <2>8, FilesOne
    <3> QED BY <2>5, <3>1 DEF FileEdited
  <2>10. next.failed <=> \E i \in 1..k + 1 : i \notin good
    <3>1. side.failed <=> \E i \in 1..k : i \notin good
      BY <2>2, <2>3
    <3>2. (\E i \in 1..k + 1 : i \notin good) <=> (\E i \in 1..k : i \notin good) \/ k + 1 \notin good
      OBVIOUS
    <3> QED BY <2>6, <2>7, <2>9, <3>1, <3>2
  <2>11. ApplyFileEdits(had).tree = side.tree
    BY <2>2, <2>3
  <2>12. ApplyFileEdits(Only(SubSeq(edits, 1, k + 1), good)).tree = next.tree
    <3>1. CASE k + 1 \in good
      <4>1. Only(SubSeq(edits, 1, k + 1), good) = Append(had, b)
        BY <2>1, <2>3, <3>1, OnlyOne
      <4>2. IsSeq(had)
        <5>1. PICK p : p = SubSeq(edits, 1, k)
          OBVIOUS
        <5>2. IsSeq(p)
          BY <2>1, <5>1, PrefixIs
        <5> QED BY <2>3, <5>1, <5>2, OnlyOf
      <4>3. ApplyFileEdits(Append(had, b)) = FileEdited(ApplyFileEdits(had), b)
        BY <4>2, FilesAppend
      <4>4. FileEdited(ApplyFileEdits(had), b).tree = applied.tree
        BY <2>5, <2>11 DEF FileEdited
      <4> QED BY <2>9, <4>1, <4>3, <4>4
    <3>2. CASE k + 1 \notin good
      <4>1. Only(SubSeq(edits, 1, k + 1), good) = had
        BY <2>1, <2>3, <3>2, OnlyOne
      <4> QED BY <2>6, <2>7, <2>9, <2>11, <3>2, <4>1
    <3> QED BY <3>1, <3>2
  <2> QED BY <2>8, <2>10, <2>12
<1> HIDE DEF S
<1>6. Nat \subseteq S
  BY <1>4, <1>5, NatSetInduction
<1>7. Right(Len(edits))
  BY <1>1, <1>6 DEF S
<1>8. SubSeq(edits, 1, Len(edits)) = edits
  BY WholeIs
<1>9. (\E i \in 1..Len(edits) : i \notin good) <=> good # DOMAIN edits
  BY <1>1, <1>3
<1>10. /\ ApplyFileEdits(Only(edits, good)).tree = ApplyFileEdits(edits).tree
       /\ ApplyFileEdits(edits).failed <=> good # DOMAIN edits
  BY <1>7, <1>8, <1>9
<1> QED BY <1>10 DEF good

\* applyTextEdits and applyFileEdits (internal/verify/editapply.go): the files are
\* those the calls that worked leave by themselves, and a side has failures
\* exactly if some call failed.
THEOREM FailedCallsLeaveNoTrace == FailuresLeaveNoTrace
<1> SUFFICES ASSUME NEW m \in Messages
             PROVE  LET edits == FileEdits(m)
                        Before(i) == ApplyFileEdits(SubSeq(edits, 1, i - 1)).tree
                        good == {i \in DOMAIN edits : ApplyEdit(Before(i), edits[i]).ok}
                    IN  /\ ApplyFileEdits(Only(edits, good)).tree = ApplyFileEdits(edits).tree
                        /\ ApplyFileEdits(edits).failed <=> good # DOMAIN edits
  BY DEF FailuresLeaveNoTrace
<1>1. PICK edits : edits = FileEdits(m)
  OBVIOUS
<1>2. IsSeq(edits) /\ \A i \in DOMAIN edits : EditIs(edits[i])
  BY <1>1, MessagesAssumption, EditsOfAnswer
<1> QED BY <1>1, <1>2, NoTrace

-----------------------------------------------------------------------------
(***************************************************************************)
(* Neither side is preferred.                                              *)
(***************************************************************************)
\* The cells of the table of distances.
LEMMA TableCells ==
    ASSUME NEW a, NEW b, Len(a) \in Nat, Len(b) \in Nat
    PROVE  \E row : /\ \A j \in 0..Len(b) : row[0][j] = j
                    /\ \A i \in 0..Len(a) - 1 : row[i + 1][0] = i + 1
                    /\ \A i \in 0..Len(a) - 1, j \in 0..Len(b) - 1 :
                          row[i + 1][j + 1] = Least({row[i][j + 1] + 1, row[i + 1][j] + 1,
                                                     row[i][j] + Substitution(a[i + 1], b[j + 1])})
                    /\ TokenLevenshtein(a, b) = row[Len(a)][Len(b)]
<1> DEFINE row == CHOOSE f : TableTo(f, a, b, Len(a))
<1>1. TableTo(row, a, b, Len(a))
  BY TableExists
<1>2. TokenLevenshtein(a, b) = row[Len(a)][Len(b)]
  BY DEF TokenLevenshtein, TableTo
<1> HIDE DEF row
<1>3. \A j \in 0..Len(b) : row[0][j] = j
  <2>1. row[0] = [j \in 0..Len(b) |-> j]
    BY <1>1 DEF TableTo
  <2> QED BY <2>1
<1>4. ASSUME NEW i \in 0..Len(a) - 1
      PROVE  RowTo(row[i + 1], row[i], a[i + 1], i + 1, b, Len(b))
  <2>1. PICK k \in 0..Len(a) : k = i + 1
    OBVIOUS
  <2>2. k # 0 /\ k - 1 = i
    BY <2>1
  <2>3. row[k] = NextRow(row[k - 1], a[k], k, b)
    BY <1>1, <2>2 DEF TableTo
  <2>4. PICK prev, x : prev = row[i] /\ x = a[k]
    OBVIOUS
  <2>5. RowTo(NextRow(prev, x, k, b), prev, x, k, b, Len(b))
    BY RowIs
  <2> QED BY <2>1, <2>2, <2>3, <2>4, <2>5
<1>5. ASSUME NEW i \in 0..Len(a) - 1 PROVE row[i + 1][0] = i + 1
  <2>1. PICK prev, next, x : prev = row[i] /\ next = row[i + 1] /\ x = a[i + 1]
    OBVIOUS
  <2>2. RowTo(next, prev, x, i + 1, b, Len(b))
    BY <1>4, <2>1
  <2>3. next[0] = i + 1
    BY <2>2 DEF RowTo
  <2> QED BY <2>1, <2>3
<1>6. ASSUME NEW i \in 0..Len(a) - 1, NEW j \in 0..Len(b) - 1
      PROVE  row[i + 1][j + 1] = Least({row[i][j + 1] + 1, row[i + 1][j] + 1,
                                        row[i][j] + Substitution(a[i + 1], b[j + 1])})
  <2>1. PICK k \in 0..Len(b) : k = j + 1
    OBVIOUS
  <2>2. k # 0 /\ k - 1 = j
    BY <2>1
  <2>3. PICK prev, next, x : prev = row[i] /\ next = row[i + 1] /\ x = a[i + 1]
    OBVIOUS
  <2>4. RowTo(next, prev, x, i + 1, b, Len(b))
    BY <1>4, <2>3
  <2>5. next[k] = Least({prev[k] + 1, next[k - 1] + 1, prev[k - 1] + Substitution(x, b[k])})
    BY <2>2, <2>4 DEF RowTo
  <2> QED BY <2>1, <2>2, <2>3, <2>5
<1> QED BY <1>2, <1>3, <1>5, <1>6

\* The distance from one text to the other is the one back.
LEMMA DistanceBothWays ==
    ASSUME NEW a, NEW b, Len(a) \in Nat, Len(b) \in Nat
    PROVE  TokenLevenshtein(a, b) = TokenLevenshtein(b, a)
<1>1. PICK there : /\ \A j \in 0..Len(b) : there[0][j] = j
                   /\ \A i \in 0..Len(a) - 1 : there[i + 1][0] = i + 1
                   /\ \A i \in 0..Len(a) - 1, j \in 0..Len(b) - 1 :
                         there[i + 1][j + 1] = Least({there[i][j + 1] + 1, there[i + 1][j] + 1,
                                                      there[i][j] + Substitution(a[i + 1], b[j + 1])})
                   /\ TokenLevenshtein(a, b) = there[Len(a)][Len(b)]
  BY TableCells
<1>2. PICK back : /\ \A i \in 0..Len(a) : back[0][i] = i
                  /\ \A j \in 0..Len(b) - 1 : back[j + 1][0] = j + 1
                  /\ \A j \in 0..Len(b) - 1, i \in 0..Len(a) - 1 :
                        back[j + 1][i + 1] = Least({back[j][i + 1] + 1, back[j + 1][i] + 1,
                                                    back[j][i] + Substitution(b[j + 1], a[i + 1])})
                  /\ TokenLevenshtein(b, a) = back[Len(b)][Len(a)]
  BY TableCells
<1> DEFINE Same(i, j) == there[i][j] = back[j][i]
           S == {i \in Nat : i <= Len(a) => \A j \in 0..Len(b) : Same(i, j)}
<1>3. 0 \in S
  <2>1. there[0][0] = 0 /\ back[0][0] = 0
    BY <1>1, <1>2
  <2>2. ASSUME NEW j \in 0..Len(b) PROVE Same(0, j)
    <3>1. CASE j = 0
      BY <2>1, <3>1
    <3>2. CASE j # 0
      <4>1. PICK k \in 0..Len(b) - 1 : k + 1 = j
        <5>1. j - 1 \in 0..Len(b) - 1 /\ (j - 1) + 1 = j
          BY <3>2
        <5> QED BY <5>1
      <4>2. back[k + 1][0] = k + 1
        BY <1>2
      <4> QED BY <1>1, <4>1, <4>2
    <3> QED BY <3>1, <3>2
  <2> HIDE DEF Same
  <2> QED BY <2>2
<1>4. ASSUME NEW i \in Nat, i \in S PROVE i + 1 \in S
  <2> SUFFICES ASSUME i + 1 <= Len(a) PROVE \A j \in 0..Len(b) : Same(i + 1, j)
    OBVIOUS
  <2>1. i \in 0..Len(a) - 1 /\ i + 1 \in 0..Len(a)
    OBVIOUS
  <2>2. \A j \in 0..Len(b) : Same(i, j)
    BY <1>4
  <2> DEFINE T == {j \in Nat : j <= Len(b) => Same(i + 1, j)}
  <2>3. 0 \in T
    <3>1. there[i + 1][0] = i + 1
      BY <1>1, <2>1
    <3>2. back[0][i + 1] = i + 1
      BY <1>2, <2>1
    <3> QED BY <3>1, <3>2
  <2>4. ASSUME NEW j \in Nat, j \in T PROVE j + 1 \in T
    <3> SUFFICES ASSUME j + 1 <= Len(b) PROVE Same(i + 1, j + 1)
      OBVIOUS
    <3>1. j \in 0..Len(b) - 1 /\ j \in 0..Len(b) /\ j + 1 \in 0..Len(b)
      OBVIOUS
    <3>2. there[i][j + 1] = back[j + 1][i] /\ there[i][j] = back[j][i] /\ there[i + 1][j] = back[j][i + 1]
      BY <2>2, <2>4, <3>1
    <3>3. PICK u, v, w : u = back[j + 1][i] /\ v = back[j][i + 1] /\ w = back[j][i]
      OBVIOUS
    <3>4. PICK x, y : x = Substitution(a[i + 1], b[j + 1]) /\ y = Substitution(b[j + 1], a[i + 1])
      OBVIOUS
    <3>5. x = y
      BY <3>4 DEF Substitution
    <3>6. there[i + 1][j + 1] = Least({u + 1, v + 1, w + x})
      BY <1>1, <2>1, <3>1, <3>2, <3>3, <3>4
    <3>7. back[j + 1][i + 1] = Least({v + 1, u + 1, w + y})
      BY <1>2, <2>1, <3>1, <3>3, <3>4
    <3>8. {u + 1, v + 1, w + x} = {v + 1, u + 1, w + y}
      BY <3>5
    <3> QED BY <3>6, <3>7, <3>8
  <2> HIDE DEF T
  <2>5. Nat \subseteq T
    BY <2>3, <2>4, NatSetInduction
  <2> HIDE DEF Same
  <2> QED BY <2>5 DEF T
<1> HIDE DEF S
<1>5. Nat \subseteq S
  BY <1>3, <1>4, NatSetInduction
<1>6. Same(Len(a), Len(b))
  <2>1. Len(a) \in S
    BY <1>5
  <2> HIDE DEF Same
  <2> QED BY <2>1 DEF S
<1> QED BY <1>1, <1>2, <1>6

\* tokenSimilarity is the same both ways.
LEMMA SimilarBothWays ==
    ASSUME NEW a, NEW b, IsSeq(a), IsSeq(b)
    PROVE  TokenSimilarity(a, b) = TokenSimilarity(b, a)
<1>1. Len(a) \in Nat /\ Len(b) \in Nat
  BY SeqFacts
<1>2. PICK m, n, d : m = Len(a) /\ n = Len(b) /\ d = TokenLevenshtein(a, b)
  OBVIOUS
<1>3. d = TokenLevenshtein(b, a)
  BY <1>1, <1>2, DistanceBothWays
<1>4. TokenSimilarity(a, b)
        = LET longer == IF n > m THEN n ELSE m IN IF longer = 0 THEN <<1, 1>> ELSE <<longer - d, longer>>
  BY <1>2 DEF TokenSimilarity
<1>5. TokenSimilarity(b, a)
        = LET longer == IF m > n THEN m ELSE n IN IF longer = 0 THEN <<1, 1>> ELSE <<longer - d, longer>>
  BY <1>2, <1>3 DEF TokenSimilarity
<1>6. (IF n > m THEN n ELSE m) = IF m > n THEN m ELSE n
  BY <1>1, <1>2
<1> QED BY <1>4, <1>5, <1>6

\* fileSimilarity is the same both ways, if difft is.
LEMMA FilesBothWays ==
    ASSUME DifftIsFair, NEW a, NEW b, IsSeq(a), IsSeq(b)
    PROVE  FileSimilarity(a, b) = FileSimilarity(b, a)
<1>1. ASSUME NEW x, NEW y, <<x, y>> \in DOMAIN Difft
      PROVE  <<y, x>> \in DOMAIN Difft /\ Difft[<<y, x>>] = Difft[<<x, y>>]
  <2>1. PICK d \in DOMAIN Difft : d = <<x, y>>
    BY <1>1
  <2>2. <<d[2], d[1]>> = <<y, x>>
    BY <2>1
  <2> QED BY <2>1, <2>2 DEF DifftIsFair
<1>2. CASE <<a, b>> \in DOMAIN Difft
  <2>1. <<b, a>> \in DOMAIN Difft /\ Difft[<<b, a>>] = Difft[<<a, b>>]
    BY <1>1, <1>2
  <2> QED BY <1>2, <2>1 DEF FileSimilarity
<1>3. CASE <<a, b>> \notin DOMAIN Difft
  <2>1. <<b, a>> \notin DOMAIN Difft
    BY <1>1, <1>3
  <2>2. FileSimilarity(a, b) = TokenSimilarity(a, b) /\ FileSimilarity(b, a) = TokenSimilarity(b, a)
    BY <1>3, <2>1 DEF FileSimilarity
  <2> QED BY <2>2, SimilarBothWays
<1> QED BY <1>2, <1>3

\* meanSimilarity is the same both ways: it takes the same files, in any order.
LEMMA MeanBothWays ==
    ASSUME DifftIsFair, NEW one, NEW other, SideIs(one), SideIs(other)
    PROVE  MeanSimilarity(one, other) = MeanSimilarity(other, one)
<1> DEFINE both == ToSet(one.touched) \cap ToSet(other.touched) \cap DOMAIN one.tree \cap DOMAIN other.tree
           back == ToSet(other.touched) \cap ToSet(one.touched) \cap DOMAIN other.tree \cap DOMAIN one.tree
           alike == [p \in both |-> FileSimilarity(one.tree[p], other.tree[p])]
           alikeBack == [p \in back |-> FileSimilarity(other.tree[p], one.tree[p])]
           files == ToSet(one.touched) \cup ToSet(other.touched)
           filesBack == ToSet(other.touched) \cup ToSet(one.touched)
<1>1. both = back /\ files = filesBack
  OBVIOUS
<1>2. ASSUME NEW p \in both PROVE FileSimilarity(one.tree[p], other.tree[p]) = FileSimilarity(other.tree[p], one.tree[p])
  <2>1. PICK a, b : a = one.tree[p] /\ b = other.tree[p]
    OBVIOUS
  <2>2. IsSeq(a) /\ IsSeq(b)
    BY <2>1 DEF SideIs, TreeIs
  <2> QED BY <2>1, <2>2, FilesBothWays
<1>3. MeanSimilarity(one, other)
        = IF Cardinality(files) = 0 THEN <<0, 1>> ELSE <<Total(alike)[1], Total(alike)[2] * Cardinality(files)>>
  BY DEF MeanSimilarity
<1>4. MeanSimilarity(other, one)
        = IF Cardinality(filesBack) = 0 THEN <<0, 1>>
          ELSE <<Total(alikeBack)[1], Total(alikeBack)[2] * Cardinality(filesBack)>>
  BY DEF MeanSimilarity
<1> HIDE DEF both, back, files, filesBack
<1>5. alike = alikeBack
  BY <1>1, <1>2
<1> HIDE DEF alike, alikeBack
<1> QED BY <1>1, <1>3, <1>4, <1>5

-----------------------------------------------------------------------------
\* The language the thresholds are chosen by.
FirstOfBoth(one, other) ==
    LET touched == one.touched \o other.touched IN IF touched = <<>> THEN "" ELSE touched[1]
LanguageOfBoth(one, other) ==
    IF FirstOfBoth(one, other) = "" THEN "" ELSE Language[FirstOfBoth(one, other)]

\* firstOf, of one side after the other.
LEMMA FirstIs ==
    ASSUME NEW s, NEW t, IsSeq(s), IsSeq(t)
    PROVE  /\ s # <<>> => s \o t # <<>> /\ (s \o t)[1] = s[1] /\ 1 \in DOMAIN s
           /\ s = <<>> => s \o t = t
<1>1. Len(s) \in Nat /\ Len(t) \in Nat /\ DOMAIN s = 1..Len(s)
  BY SeqFacts
<1>2. ASSUME s # <<>> PROVE s \o t # <<>> /\ (s \o t)[1] = s[1] /\ 1 \in DOMAIN s
  <2>1. Len(s) # 0
    BY <1>2, EmptySeq DEF IsSeq
  <2>2. 1 \in 1..Len(s)
    BY <1>1, <2>1
  <2>3. (s \o t)[1] = s[1] /\ Len(s \o t) = Len(s) + Len(t)
    BY <2>2, ConcatIs
  <2>4. Len(s \o t) # 0
    BY <1>1, <2>1, <2>3
  <2>5. s \o t # <<>>
    BY <2>4, EmptyIs
  <2> QED BY <1>1, <2>2, <2>3, <2>5
<1>3. ASSUME s = <<>> PROVE s \o t = t
  BY <1>3, ConcatEmptySeq DEF IsSeq
<1> QED BY <1>2, <1>3

\* Both sides begin with the same language, or one touches nothing.
LEMMA LanguageBothWays ==
    ASSUME NEW one, NEW other, SideIs(one), SideIs(other),
           one.touched = <<>> \/ other.touched = <<>> \/ Language[one.touched[1]] = Language[other.touched[1]]
    PROVE  LanguageOfBoth(one, other) = LanguageOfBoth(other, one)
<1>1. PICK s, t : s = one.touched /\ t = other.touched
  OBVIOUS
<1>2. IsSeq(s) /\ IsSeq(t) /\ (\A i \in DOMAIN s : s[i] # "") /\ (\A i \in DOMAIN t : t[i] # "")
  BY <1>1 DEF SideIs
<1>3. CASE s = <<>> /\ t = <<>>
  BY <1>1, <1>3 DEF LanguageOfBoth, FirstOfBoth
<1>4. CASE s = <<>> /\ t # <<>>
  <2>1. s \o t = t
    BY <1>2, <1>4, FirstIs
  <2>2. t \o s # <<>> /\ (t \o s)[1] = t[1]
    BY <1>2, <1>4, FirstIs
  <2> QED BY <1>1, <1>4, <2>1, <2>2 DEF LanguageOfBoth, FirstOfBoth
<1>5. CASE s # <<>> /\ t = <<>>
  <2>1. t \o s = s
    BY <1>2, <1>5, FirstIs
  <2>2. s \o t # <<>> /\ (s \o t)[1] = s[1]
    BY <1>2, <1>5, FirstIs
  <2> QED BY <1>1, <1>5, <2>1, <2>2 DEF LanguageOfBoth, FirstOfBoth
<1>6. CASE s # <<>> /\ t # <<>>
  <2>1. s \o t # <<>> /\ (s \o t)[1] = s[1] /\ s[1] # ""
    BY <1>2, <1>6, FirstIs
  <2>2. t \o s # <<>> /\ (t \o s)[1] = t[1] /\ t[1] # ""
    BY <1>2, <1>6, FirstIs
  <2>3. FirstOfBoth(one, other) = s[1] /\ FirstOfBoth(other, one) = t[1]
    BY <1>1, <2>1, <2>2 DEF FirstOfBoth
  <2>4. Language[s[1]] = Language[t[1]]
    BY <1>1, <1>6
  <2> QED BY <2>1, <2>2, <2>3, <2>4 DEF LanguageOfBoth
<1> QED BY <1>3, <1>4, <1>5, <1>6

\* There is always some outcome to store.
LEMMA SomeOutcome ==
    ASSUME NEW failed \in BOOLEAN, NEW touched, NEW first
    PROVE  LintOutcomes(failed, touched) # {} /\ TestOutcomes(first) # {}
BY OutcomesAssumption DEF LintOutcomes, TestOutcomes

\* What an edit turn is decided to be.
LEMMA EditTurnAgrees ==
    ASSUME NEW e, WellFormed(e.frontier), WellFormed(e.local)
    PROVE  {v.agree : v \in VerifyEditTurn(e)}
             = {Agree(MeanSimilarity(Worktree(e.frontier), Worktree(e.local)),
                      ThresholdsFor(LanguageOfBoth(Worktree(e.frontier), Worktree(e.local)), e.turnType))}
<1>1. PICK one, other : one = Worktree(e.frontier) /\ other = Worktree(e.local)
  OBVIOUS
<1>2. SideIs(one) /\ SideIs(other)
  <2>1. PICK m, n : m = e.frontier /\ n = e.local
    OBVIOUS
  <2> QED BY <1>1, <2>1, WorktreeIs
<1>3. PICK failed \in BOOLEAN : failed = (one.failed \/ other.failed)
  OBVIOUS
<1>4. PICK x : x = Agree(MeanSimilarity(one, other), ThresholdsFor(LanguageOfBoth(one, other), e.turnType))
  OBVIOUS
<1>5. PICK lint, tests : /\ lint = LintOutcomes(failed, ToSet(one.touched \o other.touched))
                         /\ tests = TestOutcomes(FirstOfBoth(one, other))
  OBVIOUS
<1>6. VerifyEditTurn(e) = [stage : {"ast"}, conflict : {FALSE}, agree : {x}, lint : lint, tests : tests]
  BY <1>1, <1>3, <1>4, <1>5 DEF VerifyEditTurn, LanguageOfBoth, FirstOfBoth
<1>7. PICK l \in lint, t \in tests : TRUE
  BY <1>5, SomeOutcome
<1>8. \A v \in VerifyEditTurn(e) : v.agree = x
  BY <1>6
<1>9. PICK v \in VerifyEditTurn(e) : TRUE
  <2>1. [stage |-> "ast", conflict |-> FALSE, agree |-> x, lint |-> l, tests |-> t] \in VerifyEditTurn(e)
    BY <1>6, <1>7
  <2> QED BY <2>1
<1>10. {w.agree : w \in VerifyEditTurn(e)} = {x}
  BY <1>8, <1>9
<1> QED BY <1>1, <1>4, <1>10

\* A comparison of texts decides the same both ways.
LEMMA TextAgrees ==
    ASSUME NEW e, NEW one, NEW other, IsSeq(one), IsSeq(other)
    PROVE  VerifyText(e, one, other).agree = VerifyText(Swapped(e), other, one).agree
<1>1. TokenSimilarity(one, other) = TokenSimilarity(other, one)
  BY SimilarBothWays
<1>2. Swapped(e).turnType = e.turnType
  BY DEF Swapped
<1> QED BY <1>1, <1>2 DEF VerifyText

\* Verify and meanSimilarity (internal/verify): with the sides swapped, whatever
\* the answers and the edits, the cascade decides the same.
THEOREM NeitherSideIsPreferred == SidesCountAlike
<1> SUFFICES ASSUME DifftIsFair, NEW e \in Compared,
                    LET one == Worktree(e.frontier).touched
                        other == Worktree(e.local).touched
                    IN  one = <<>> \/ other = <<>> \/ Language[one[1]] = Language[other[1]]
             PROVE  {v.agree : v \in Verify(e)} = {v.agree : v \in Verify(Swapped(e))}
  BY DEF SidesCountAlike
<1>1. PICK f : f = Swapped(e)
  OBVIOUS
<1>2. f.turnType = e.turnType /\ f.head = e.head /\ f.frontier = e.local /\ f.local = e.frontier
  BY <1>1 DEF Swapped
<1>3. WellFormed(e.frontier) /\ WellFormed(e.local) /\ WellFormed(f.frontier) /\ WellFormed(f.local)
  BY <1>2, MessagesAssumption
<1>4. PICK one, other : one = ConcatenatedContent(e.frontier) /\ other = ConcatenatedContent(e.local)
  OBVIOUS
<1>5. CASE one = other
  <2>1. Verify(e) = {ExactMatch} /\ Verify(f) = {ExactMatch}
    BY <1>2, <1>4, <1>5 DEF Verify
  <2> QED BY <1>1, <2>1
<1> DEFINE edits == /\ e.turnType \in EditTurnTypes /\ e.head
                    /\ FileEdits(e.frontier) # <<>> \/ FileEdits(e.local) # <<>>
<1>6. CASE one # other /\ edits
  <2>1. Verify(e) = VerifyEditTurn(e) /\ Verify(f) = VerifyEditTurn(f)
    BY <1>2, <1>4, <1>6 DEF Verify
  <2>2. PICK there, back : there = Worktree(e.frontier) /\ back = Worktree(e.local)
    OBVIOUS
  <2>3. SideIs(there) /\ SideIs(back)
    <3>1. PICK m, n : m = e.frontier /\ n = e.local
      OBVIOUS
    <3> QED BY <1>3, <2>2, <3>1, WorktreeIs
  <2>4. there.touched = <<>> \/ back.touched = <<>> \/ Language[there.touched[1]] = Language[back.touched[1]]
    BY <2>2
  <2>5. MeanSimilarity(there, back) = MeanSimilarity(back, there)
    BY <2>3, MeanBothWays
  <2>6. LanguageOfBoth(there, back) = LanguageOfBoth(back, there)
    BY <2>3, <2>4, LanguageBothWays
  <2>7. {v.agree : v \in VerifyEditTurn(e)}
          = {Agree(MeanSimilarity(there, back), ThresholdsFor(LanguageOfBoth(there, back), e.turnType))}
    BY <1>3, <2>2, EditTurnAgrees
  <2>8. {v.agree : v \in VerifyEditTurn(f)}
          = {Agree(MeanSimilarity(back, there), ThresholdsFor(LanguageOfBoth(back, there), e.turnType))}
    <3>1. {v.agree : v \in VerifyEditTurn(f)}
            = {Agree(MeanSimilarity(Worktree(f.frontier), Worktree(f.local)),
                     ThresholdsFor(LanguageOfBoth(Worktree(f.frontier), Worktree(f.local)), f.turnType))}
      BY <1>3, EditTurnAgrees
    <3> QED BY <1>2, <2>2, <3>1
  <2> QED BY <1>1, <2>1, <2>5, <2>6, <2>7, <2>8
<1>7. CASE one # other /\ ~edits
  <2>1. Verify(e) = {VerifyText(e, one, other)} /\ Verify(f) = {VerifyText(f, other, one)}
    BY <1>2, <1>4, <1>7 DEF Verify
  <2>2. IsSeq(one) /\ IsSeq(other)
    <3>1. PICK m, n : m = e.frontier /\ n = e.local
      OBVIOUS
    <3> QED BY <1>3, <1>4, <3>1, WordsOfAnswer
  <2>3. VerifyText(e, one, other).agree = VerifyText(f, other, one).agree
    BY <1>1, <2>2, TextAgrees
  <2>4. {v.agree : v \in Verify(e)} = {VerifyText(e, one, other).agree}
    BY <2>1
  <2>5. {v.agree : v \in Verify(f)} = {VerifyText(f, other, one).agree}
    BY <2>1
  <2> QED BY <1>1, <2>3, <2>4, <2>5
<1> QED BY <1>5, <1>6, <1>7

\* runCascade: a verdict of the pipeline that rests on how alike the answers are
\* rests on a cascade that measures what it says.
THEOREM MeasuresHold == Spec => []CascadeMeasures
<1>1. Measures
  BY DistancesAreLeast, FailedCallsLeaveNoTrace, NeitherSideIsPreferred DEF Measures
<1>2. CascadeMeasures
  BY <1>1 DEF CascadeMeasures
<1> QED BY <1>2, PTL
=============================================================================
