------------------------- MODULE RouterUpdateProofs -------------------------
(***************************************************************************)
(* Proofs about RouterUpdate, for any evidence, number of processes,       *)
(* escalations and faults: the types, and that no row of router_state      *)
(* counts more agreement than there ever was.                              *)
(*                                                                         *)
(* What a process read or computed a while ago is still covered by what is *)
(* known now: agreement, once there, is never taken back. A row is counted *)
(* from the agreeing pieces of its group, at most one for each piece of    *)
(* evidence, whichever versions its statistics are made of.                *)
(***************************************************************************)
EXTENDS RouterUpdate, FiniteSetTheorems, TLAPS

StatsRow(n, agreed, reason, routable) ==
    [n |-> n, agreed |-> agreed, reason |-> reason, routable |-> routable]
Shaped(row) == row = StatsRow(row.n, row.agreed, row.reason, row.routable) /\ row.agreed \in Nat

Agreement(key) == Cardinality(AgreeingVerifications(key)) + Cardinality(AgreeingResults(key))

Earned(key, row) == key \in KnownKeys /\ Shaped(row) /\ row.agreed <= Agreement(key)

Grades == {Unjudged, "pass", "fail"}
Outcomes == [score : Scores, judge : Grades]

-----------------------------------------------------------------------------
(***************************************************************************)
(* The inductive invariant.                                                *)
(***************************************************************************)
EvidenceInv ==
    /\ decided \in [DOMAIN decided -> BOOLEAN] /\ DOMAIN decided \subseteq Verifications
    /\ results \in [DOMAIN results -> Outcomes] /\ DOMAIN results \subseteq EvalResults

CountersInv == disables \in 0..MaxDisables /\ faults \in 0..MaxFaults

TableInv == \A key \in DOMAIN routerState : Earned(key, routerState[key])

\* A process holds nothing, verifications that still say what it read, or rows
\* that are earned.
UpdaterInv(u) ==
    LET at == updater[u]
    IN  \/ at = UpdaterIdle
        \/ /\ at = [pc |-> "results", rows |-> at.rows, todo |-> <<>>]
           /\ at.rows \subseteq DecidedVerifications
        \/ /\ at = [pc |-> "write", rows |-> {}, todo |-> at.todo]
           /\ \A key \in DOMAIN at.todo : Earned(key, at.todo[key])

UpdatersInv ==
    /\ updater = [u \in Updaters |-> updater[u]]
    /\ \A u \in Updaters : UpdaterInv(u)

IInv == EvidenceInv /\ CountersInv /\ TableInv /\ UpdatersInv

-----------------------------------------------------------------------------
(***************************************************************************)
(* Lemmas.                                                                 *)
(***************************************************************************)
LEMMA AgreeingFinite ==
    ASSUME EvidenceInv, NEW key
    PROVE  /\ IsFiniteSet(AgreeingVerifications(key)) /\ IsFiniteSet(AgreeingResults(key))
           /\ Cardinality(AgreeingVerifications(key)) \in Nat /\ Cardinality(AgreeingResults(key)) \in Nat
           /\ Agreement(key) \in Nat
<1>1. AgreeingVerifications(key) \in SUBSET Verifications
  BY DEF AgreeingVerifications, EvidenceInv
<1>2. AgreeingResults(key) \in SUBSET EvalResults
  BY DEF AgreeingResults, EvidenceInv
<1>3. IsFiniteSet(AgreeingVerifications(key)) /\ IsFiniteSet(AgreeingResults(key))
  BY <1>1, <1>2, FS_Subset, RouterUpdateAssumption
<1>4. Cardinality(AgreeingVerifications(key)) \in Nat /\ Cardinality(AgreeingResults(key)) \in Nat
  BY <1>3, FS_CardinalityType
<1> QED
  BY <1>3, <1>4 DEF Agreement

\* Evidence that only grows and never loses an agreeing piece.
Kept ==
    /\ EvidenceInv'
    /\ \A key : /\ AgreeingVerifications(key) \subseteq AgreeingVerifications(key)'
                /\ AgreeingResults(key) \subseteq AgreeingResults(key)'
    /\ KnownKeys \subseteq KnownKeys'
    /\ DecidedVerifications \subseteq DecidedVerifications'

LEMMA EarnedKept ==
    ASSUME EvidenceInv, Kept, NEW key, NEW row, Earned(key, row)
    PROVE  Earned(key, row)'
<1>1. /\ Cardinality(AgreeingVerifications(key)) <= Cardinality(AgreeingVerifications(key)')
      /\ Cardinality(AgreeingResults(key)) <= Cardinality(AgreeingResults(key)')
      /\ Cardinality(AgreeingVerifications(key)') \in Nat /\ Cardinality(AgreeingResults(key)') \in Nat
  <2>1. IsFiniteSet(AgreeingVerifications(key)') /\ IsFiniteSet(AgreeingResults(key)')
    <3>1. AgreeingVerifications(key)' \in SUBSET Verifications
      BY DEF AgreeingVerifications, Kept, EvidenceInv
    <3>2. AgreeingResults(key)' \in SUBSET EvalResults
      BY DEF AgreeingResults, Kept, EvidenceInv
    <3> QED
      BY <3>1, <3>2, FS_Subset, RouterUpdateAssumption
  <2>2. AgreeingVerifications(key) \in SUBSET (AgreeingVerifications(key)')
        /\ AgreeingResults(key) \in SUBSET (AgreeingResults(key)')
    BY DEF Kept
  <2> QED
    BY <2>1, <2>2, FS_Subset, FS_CardinalityType
<1>2. Agreement(key) <= Agreement(key)'
  BY <1>1, AgreeingFinite DEF Agreement
<1>3. Agreement(key) \in Nat /\ Agreement(key)' \in Nat
  BY <1>1, AgreeingFinite DEF Agreement
<1>4. row.agreed <= Agreement(key)'
  <2>1. row.agreed \in Nat /\ row.agreed <= Agreement(key)
    BY DEF Earned, Shaped
  <2> QED
    BY <1>2, <1>3, <2>1
<1> QED
  BY <1>4 DEF Earned, Kept, Shaped

\* An image is no larger than what it is an image of.
LEMMA ImageOfVerifications ==
    ASSUME EvidenceInv, NEW key
    PROVE  LET T == {VerificationRow(v) : v \in AgreeingVerifications(key)}
           IN  IsFiniteSet(T) /\ Cardinality(T) <= Cardinality(AgreeingVerifications(key))
<1> DEFINE S == AgreeingVerifications(key)
           T == {VerificationRow(v) : v \in S}
           f == [v \in S |-> VerificationRow(v)]
<1>1. f \in Surjection(S, T)
  <2>1. f \in [S -> T]
    OBVIOUS
  <2>2. \A t \in T : \E v \in S : f[v] = t
    OBVIOUS
  <2> QED
    BY <2>1, <2>2 DEF Surjection
<1>2. IsFiniteSet(S)
  BY AgreeingFinite
<1> HIDE DEF f, S, T
<1>3. IsFiniteSet(T) /\ Cardinality(T) <= Cardinality(S)
  BY <1>1, <1>2, FS_Surjection
<1> QED
  BY <1>3 DEF S, T

LEMMA ImageOfResults ==
    ASSUME EvidenceInv, NEW key
    PROVE  LET T == {ResultRow(e) : e \in AgreeingResults(key)}
           IN  IsFiniteSet(T) /\ Cardinality(T) <= Cardinality(AgreeingResults(key))
<1> DEFINE S == AgreeingResults(key)
           T == {ResultRow(v) : v \in S}
           f == [v \in S |-> ResultRow(v)]
<1>1. f \in Surjection(S, T)
  <2>1. f \in [S -> T]
    OBVIOUS
  <2>2. \A t \in T : \E v \in S : f[v] = t
    OBVIOUS
  <2> QED
    BY <2>1, <2>2 DEF Surjection
<1>2. IsFiniteSet(S)
  BY AgreeingFinite
<1> HIDE DEF f, S, T
<1>3. IsFiniteSet(T) /\ Cardinality(T) <= Cardinality(S)
  BY <1>1, <1>2, FS_Surjection
<1> QED
  BY <1>3 DEF S, T

\* The agreeing rows of a group, or of a part of it, are at most as many as the
\* pieces of evidence that agree.
LEMMA AgreedIsCovered ==
    ASSUME EvidenceInv, NEW key, NEW rows, rows \subseteq DecidedVerifications \cup TrustedEvalResults,
           NEW basis, basis \subseteq Group(rows, key)
    PROVE  Agreed(basis) \in Nat /\ Agreed(basis) <= Agreement(key)
<1> DEFINE V == {VerificationRow(v) : v \in AgreeingVerifications(key)}
           R == {ResultRow(e) : e \in AgreeingResults(key)}
           A == {e \in basis : e.agree}
<1>1. A \subseteq V \cup R
  <2> SUFFICES ASSUME NEW r \in A
               PROVE  r \in V \cup R
    OBVIOUS
  <2>0. r.agree /\ GroupKey(r) = key /\ r \in DecidedVerifications \cup TrustedEvalResults
    BY DEF Group
  <2>1. CASE r \in DecidedVerifications
    <3>1. PICK v \in DOMAIN decided : r = VerificationRow(v)
      BY <2>1 DEF DecidedVerifications
    <3>2. r.agree = decided[v]
      BY <3>1 DEF VerificationRow
    <3>3. v \in AgreeingVerifications(key)
      BY <2>0, <3>1, <3>2 DEF AgreeingVerifications
    <3> QED
      BY <3>1, <3>3
  <2>2. CASE r \in TrustedEvalResults
    <3>1. PICK e \in DOMAIN results : Trusted(e) /\ r = ResultRow(e)
      BY <2>2 DEF TrustedEvalResults
    <3>2. r.agree = Passed(e)
      BY <3>1 DEF ResultRow
    <3>3. results[e].score \in Scores
      BY DEF EvidenceInv, Outcomes
    <3>4. e \in AgreeingResults(key)
      <4>1. \/ results[e].score \in {"exact", "similar"}
            \/ results[e].score = "different" /\ results[e].judge = "pass"
        BY <2>0, <3>1, <3>2, <3>3 DEF Passed, Trusted, Scores
      <4> QED
        BY <2>0, <3>1, <4>1 DEF AgreeingResults
    <3> QED
      BY <3>1, <3>4
  <2> QED
    BY <2>0, <2>1, <2>2
<1>2. /\ IsFiniteSet(V) /\ Cardinality(V) <= Cardinality(AgreeingVerifications(key))
      /\ IsFiniteSet(R) /\ Cardinality(R) <= Cardinality(AgreeingResults(key))
  BY ImageOfVerifications, ImageOfResults
<1> HIDE DEF V, R, A
<1>3. Cardinality(V) \in Nat /\ Cardinality(R) \in Nat /\ IsFiniteSet(V \cup R)
      /\ Cardinality(V \cup R) = Cardinality(V) + Cardinality(R) - Cardinality(V \cap R)
  BY <1>2, FS_Union, FS_CardinalityType
<1>4. Cardinality(V \cap R) \in Nat
  BY <1>2, FS_Subset, FS_CardinalityType
<1>5. IsFiniteSet(A) /\ Cardinality(A) <= Cardinality(V \cup R) /\ Cardinality(A) \in Nat
  BY <1>1, <1>3, FS_Subset, FS_CardinalityType
<1>6. Cardinality(A) <= Cardinality(AgreeingVerifications(key)) + Cardinality(AgreeingResults(key))
  BY <1>2, <1>3, <1>4, <1>5, AgreeingFinite
<1> QED
  BY <1>5, <1>6 DEF A, Agreed, Agreement

\* Statistics count a part of their rows.
LEMMA StatsAre ==
    ASSUME NEW rows
    PROVE  \E basis \in SUBSET rows :
              /\ CategoryStats(rows).agreed = Agreed(basis)
              /\ CategoryStats(rows) =
                    StatsRow(CategoryStats(rows).n, Agreed(basis),
                             CategoryStats(rows).reason, CategoryStats(rows).routable)
<1> DEFINE diverged == Diverged(rows)
           basis == IF diverged = {} THEN rows ELSE {e \in rows : e.local \in diverged}
<1>1. basis \in SUBSET rows
  OBVIOUS
<1>2. /\ CategoryStats(rows).agreed = Agreed(basis)
      /\ CategoryStats(rows) =
            StatsRow(CategoryStats(rows).n, Agreed(basis),
                     CategoryStats(rows).reason, CategoryStats(rows).routable)
  BY DEF CategoryStats, StatsRow
<1> QED
  BY <1>1, <1>2

LEMMA KeysKnown ==
    ASSUME NEW rows, rows \subseteq DecidedVerifications \cup TrustedEvalResults
    PROVE  GroupKeys(rows) \subseteq KnownKeys
BY DEF GroupKeys, KnownKeys, DecidedVerifications, TrustedEvalResults

LEMMA StatisticsEarned ==
    ASSUME EvidenceInv, NEW rows, rows \subseteq DecidedVerifications \cup TrustedEvalResults,
           NEW key \in DOMAIN Statistics(rows)
    PROVE  Earned(key, Statistics(rows)[key])
<1>1. key \in GroupKeys(rows) /\ Statistics(rows)[key] = CategoryStats(Group(rows, key))
  BY DEF Statistics
<1>2. PICK basis \in SUBSET Group(rows, key) :
          /\ CategoryStats(Group(rows, key)).agreed = Agreed(basis)
          /\ CategoryStats(Group(rows, key)) =
                StatsRow(CategoryStats(Group(rows, key)).n, Agreed(basis),
                         CategoryStats(Group(rows, key)).reason, CategoryStats(Group(rows, key)).routable)
  BY StatsAre
<1>3. Agreed(basis) \in Nat /\ Agreed(basis) <= Agreement(key)
  BY <1>2, AgreedIsCovered
<1> QED
  BY <1>1, <1>2, <1>3, KeysKnown DEF Earned, Shaped

-----------------------------------------------------------------------------
(***************************************************************************)
(* Steps of the evidence.                                                  *)
(***************************************************************************)
LEMMA UnchangedKeeps ==
    ASSUME EvidenceInv, UNCHANGED evidence
    PROVE  Kept
<1>1. decided' = decided /\ results' = results
  BY DEF evidence
<1>2. \A x : VerificationRow(x)' = VerificationRow(x) /\ ResultRow(x)' = ResultRow(x)
  BY <1>1 DEF VerificationRow, ResultRow, Passed
<1>3. EvidenceInv'
  BY <1>1 DEF EvidenceInv
<1>4. KnownKeys' = KnownKeys /\ DecidedVerifications' = DecidedVerifications
  BY <1>1, <1>2 DEF KnownKeys, DecidedVerifications
<1>5. \A key : AgreeingVerifications(key)' = AgreeingVerifications(key)
               /\ AgreeingResults(key)' = AgreeingResults(key)
  BY <1>1, <1>2 DEF AgreeingVerifications, AgreeingResults
<1> QED
  BY <1>3, <1>4, <1>5 DEF Kept

LEMMA DecideKeeps ==
    ASSUME EvidenceInv, Decide
    PROVE  Kept
<1>1. PICK v \in Verifications \ DOMAIN decided, agree \in BOOLEAN : decided' = With(decided, v, agree)
  BY DEF Decide
<1>2. results' = results
  BY DEF Decide
<1>3. /\ DOMAIN decided' = DOMAIN decided \cup {v} /\ decided'[v] = agree
      /\ \A x \in DOMAIN decided : decided'[x] = decided[x]
      /\ decided' = [x \in DOMAIN decided' |-> decided'[x]]
  BY <1>1 DEF With
<1>4. EvidenceInv'
  BY <1>1, <1>2, <1>3 DEF EvidenceInv
<1>5. \A x : /\ GroupKey(VerificationRow(x)') = GroupKey(VerificationRow(x))
             /\ GroupKey(ResultRow(x)') = GroupKey(ResultRow(x))
  BY DEF GroupKey, VerificationRow, ResultRow
<1>6. KnownKeys \subseteq KnownKeys'
  BY <1>2, <1>3, <1>5 DEF KnownKeys
<1>7. DecidedVerifications \subseteq DecidedVerifications'
  BY <1>3 DEF DecidedVerifications, VerificationRow
<1>8. \A key : AgreeingVerifications(key) \subseteq AgreeingVerifications(key)'
               /\ AgreeingResults(key) \subseteq AgreeingResults(key)'
  BY <1>2, <1>3, <1>5 DEF AgreeingVerifications, AgreeingResults
<1> QED
  BY <1>4, <1>6, <1>7, <1>8 DEF Kept

\* A result that changes its record, or appears, and does not lose agreement.
LEMMA ResultsKeep ==
    ASSUME EvidenceInv, decided' = decided, NEW e \in EvalResults, NEW outcome \in Outcomes,
           results' = With(results, e, outcome),
           e \in DOMAIN results =>
              /\ outcome.score = results[e].score
              /\ results[e].judge = Unjudged
    PROVE  Kept
<1>1. /\ DOMAIN results' = DOMAIN results \cup {e} /\ results'[e] = outcome
      /\ \A x \in DOMAIN results \ {e} : results'[x] = results[x]
      /\ results' = [x \in DOMAIN results' |-> results'[x]]
  BY DEF With
<1>2. EvidenceInv'
  BY <1>1 DEF EvidenceInv
<1>3. \A x : /\ GroupKey(VerificationRow(x)') = GroupKey(VerificationRow(x))
             /\ GroupKey(ResultRow(x)') = GroupKey(ResultRow(x))
  BY DEF GroupKey, VerificationRow, ResultRow
<1>4. KnownKeys \subseteq KnownKeys'
  BY <1>1, <1>3 DEF KnownKeys
<1>5. DecidedVerifications \subseteq DecidedVerifications'
  BY DEF DecidedVerifications, VerificationRow
<1>6. ASSUME NEW key
      PROVE  AgreeingVerifications(key) \subseteq AgreeingVerifications(key)'
             /\ AgreeingResults(key) \subseteq AgreeingResults(key)'
  <2>1. AgreeingVerifications(key) \subseteq AgreeingVerifications(key)'
    BY <1>3 DEF AgreeingVerifications
  <2>2. ASSUME NEW x \in AgreeingResults(key)
        PROVE  x \in AgreeingResults(key)'
    <3>1. CASE x # e
      BY <1>1, <1>3, <2>2, <3>1 DEF AgreeingResults
    <3>2. CASE x = e
      <4>1. results[e].score \in {"exact", "similar"}
        BY <2>2, <3>2 DEF AgreeingResults, Unjudged
      <4> QED
        BY <1>1, <1>3, <2>2, <3>2, <4>1 DEF AgreeingResults
    <3> QED
      BY <3>1, <3>2
  <2> QED
    BY <2>1, <2>2
<1> QED
  BY <1>2, <1>4, <1>5, <1>6 DEF Kept

LEMMA RecordKeeps ==
    ASSUME EvidenceInv, Record
    PROVE  Kept
<1>1. PICK e \in EvalResults \ DOMAIN results, score \in Scores :
          results' = With(results, e, [score |-> score, judge |-> Unjudged])
  BY DEF Record
<1>2. [score |-> score, judge |-> Unjudged] \in Outcomes
  BY DEF Outcomes, Grades
<1> QED
  BY <1>1, <1>2, ResultsKeep DEF Record

LEMMA GradeKeeps ==
    ASSUME EvidenceInv, Grade
    PROVE  Kept
<1>1. PICK e \in DOMAIN results, verdict \in {"pass", "fail"} :
          /\ results[e].judge = Unjudged
          /\ results' = [results EXCEPT ![e].judge = verdict]
  BY DEF Grade
<1>2. results[e] \in Outcomes /\ e \in EvalResults
  BY DEF EvidenceInv
<1> DEFINE outcome == [results[e] EXCEPT !.judge = verdict]
<1>3. outcome \in Outcomes /\ outcome.score = results[e].score
  BY <1>2 DEF Outcomes, Grades
<1>4. results' = With(results, e, outcome)
  BY <1>1 DEF EvidenceInv, With
<1> HIDE DEF outcome
<1> QED
  BY <1>1, <1>2, <1>3, <1>4, ResultsKeep DEF Grade

-----------------------------------------------------------------------------
(***************************************************************************)
(* What the evidence's growth leaves true.                                 *)
(***************************************************************************)
LEMMA TableMoved ==
    ASSUME EvidenceInv, Kept, \A k \in DOMAIN routerState' : Earned(k, routerState'[k])
    PROVE  TableInv'
<1> SUFFICES ASSUME NEW k \in DOMAIN routerState'
             PROVE  Earned(k, routerState[k])'
  BY DEF TableInv
<1>0. PICK row : row = routerState'[k]
  OBVIOUS
<1>1. Earned(k, row)
  BY <1>0
<1>2. Earned(k, row)'
  BY <1>1, EarnedKept
<1> QED
  BY <1>0, <1>2 DEF Earned, Shaped

LEMMA TableKept ==
    ASSUME EvidenceInv, Kept, TableInv, routerState' = routerState
    PROVE  TableInv'
<1>1. \A k \in DOMAIN routerState' : Earned(k, routerState'[k])
  BY DEF TableInv
<1> QED
  BY <1>1, TableMoved

LEMMA UpdaterKept ==
    ASSUME EvidenceInv, Kept, NEW u \in Updaters, UpdaterInv(u), updater'[u] = updater[u]
    PROVE  UpdaterInv(u)'
<1>1. CASE updater[u] = UpdaterIdle
  BY <1>1 DEF UpdaterInv, UpdaterIdle, Idle
<1>2. CASE /\ updater[u] = [pc |-> "results", rows |-> updater[u].rows, todo |-> <<>>]
           /\ updater[u].rows \subseteq DecidedVerifications
  BY <1>2 DEF UpdaterInv, Kept
<1>3. CASE /\ updater[u] = [pc |-> "write", rows |-> {}, todo |-> updater[u].todo]
           /\ \A key \in DOMAIN updater[u].todo : Earned(key, updater[u].todo[key])
  <2> DEFINE todo == updater[u].todo
  <2>1. ASSUME NEW key \in DOMAIN todo
        PROVE  /\ key \in KnownKeys' /\ Shaped(todo[key])
               /\ todo[key].agreed <= Agreement(key)'
    <3>0. PICK row : row = todo[key]
      OBVIOUS
    <3>1. Earned(key, row)
      BY <1>3, <3>0
    <3>2. Earned(key, row)'
      BY <3>1, EarnedKept
    <3> QED
      BY <3>0, <3>2 DEF Earned, Shaped
  <2>2. updater'[u].todo = todo
    OBVIOUS
  <2>3. \A key \in DOMAIN updater'[u].todo : Earned(key, updater[u].todo[key])'
    BY <2>1, <2>2 DEF Earned, Shaped
  <2> QED
    BY <1>3, <2>2, <2>3 DEF UpdaterInv
<1> QED
  BY <1>1, <1>2, <1>3 DEF UpdaterInv

LEMMA UpdatersKept ==
    ASSUME EvidenceInv, Kept, UpdatersInv, updater' = updater
    PROVE  UpdatersInv'
<1>1. \A u \in Updaters : UpdaterInv(u)'
  BY UpdaterKept DEF UpdatersInv
<1> QED
  BY <1>1 DEF UpdatersInv

\* One process moved, to a state that is right.
LEMMA UpdaterMoved ==
    ASSUME EvidenceInv, UNCHANGED evidence, UpdatersInv, NEW u \in Updaters, NEW at,
           updater' = [updater EXCEPT ![u] = at],
           \/ at = UpdaterIdle
           \/ /\ at = [pc |-> "results", rows |-> at.rows, todo |-> <<>>]
              /\ at.rows \subseteq DecidedVerifications
           \/ /\ at = [pc |-> "write", rows |-> {}, todo |-> at.todo]
              /\ \A key \in DOMAIN at.todo : Earned(key, at.todo[key])
    PROVE  UpdatersInv'
<1>1. Kept
  BY UnchangedKeeps
<1>2. updater' = [x \in Updaters |-> updater'[x]] /\ updater'[u] = at
      /\ \A x \in Updaters \ {u} : updater'[x] = updater[x]
  BY DEF UpdatersInv
<1>3. \A x \in Updaters \ {u} : UpdaterInv(x)'
  BY <1>1, <1>2, UpdaterKept DEF UpdatersInv
<1>4. UpdaterInv(u)'
  <2>1. CASE at = UpdaterIdle
    BY <1>2, <2>1 DEF UpdaterInv, UpdaterIdle, Idle
  <2>2. CASE /\ at = [pc |-> "results", rows |-> at.rows, todo |-> <<>>]
             /\ at.rows \subseteq DecidedVerifications
    BY <1>1, <1>2, <2>2 DEF UpdaterInv, Kept
  <2>3. CASE /\ at = [pc |-> "write", rows |-> {}, todo |-> at.todo]
             /\ \A key \in DOMAIN at.todo : Earned(key, at.todo[key])
    <3>1. ASSUME NEW key \in DOMAIN at.todo
          PROVE  key \in KnownKeys' /\ Shaped(at.todo[key]) /\ at.todo[key].agreed <= Agreement(key)'
      <4> DEFINE row == at.todo[key]
      <4>1. Earned(key, row)
        BY <2>3
      <4> HIDE DEF row
      <4>2. Earned(key, row)'
        BY <1>1, <4>1, EarnedKept
      <4> QED
        BY <4>2 DEF Earned, Shaped, row
    <3>2. updater'[u].todo = at.todo
      BY <1>2
    <3>3. \A key \in DOMAIN updater'[u].todo : Earned(key, updater[u].todo[key])'
      BY <3>1, <3>2 DEF Earned, Shaped
    <3> QED
      BY <1>2, <2>3, <3>3 DEF UpdaterInv
  <2> QED
    BY <2>1, <2>2, <2>3
<1> QED
  BY <1>2, <1>3, <1>4 DEF UpdatersInv

-----------------------------------------------------------------------------
(***************************************************************************)
(* Steps of the processes and of the proxy.                                *)
(***************************************************************************)
LEMMA StartStands ==
    ASSUME IInv, NEW u \in Updaters, UpdateStart(u)
    PROVE  IInv'
<1> DEFINE at == [UpdaterIdle EXCEPT !.pc = "results", !.rows = DecidedVerifications]
<1>1. UNCHANGED <<evidence, routerState, disables, faults>> /\ updater' = [updater EXCEPT ![u] = at]
  BY DEF UpdateStart
<1>2. at = [pc |-> "results", rows |-> DecidedVerifications, todo |-> <<>>]
  <2> DEFINE R == [pc : {Idle, "results"}, rows : {{}, DecidedVerifications}, todo : {<<>>}]
  <2>1. UpdaterIdle \in R
    BY DEF UpdaterIdle
  <2>2. at \in R /\ at.pc = "results" /\ at.rows = DecidedVerifications
    BY <2>1
  <2> HIDE DEF at
  <2> QED
    BY <2>2
<1> HIDE DEF at
<1>3. UpdatersInv'
  <2>1. at = [pc |-> "results", rows |-> at.rows, todo |-> <<>>] /\ at.rows \subseteq DecidedVerifications
    BY <1>2
  <2> QED
    BY <1>1, <2>1, UpdaterMoved DEF IInv
<1> QED
  BY <1>1, <1>3, UnchangedKeeps, TableKept DEF IInv, Kept, CountersInv

LEMMA ResultsStands ==
    ASSUME IInv, NEW u \in Updaters, UpdateResults(u)
    PROVE  IInv'
<1>1. PICK rows, todo :
        /\ rows = updater[u].rows \cup TrustedEvalResults
        /\ todo = Statistics(rows)
        /\ updater' = [updater EXCEPT
              ![u] = IF rows = {} THEN UpdaterIdle ELSE [pc |-> "write", rows |-> {}, todo |-> todo]]
  BY DEF UpdateResults
<1>2. updater[u].pc = "results" /\ UNCHANGED <<evidence, routerState, disables, faults>>
  BY DEF UpdateResults
<1>3. rows \subseteq DecidedVerifications \cup TrustedEvalResults
  <2>1. updater[u].rows \subseteq DecidedVerifications
    BY <1>2 DEF IInv, UpdatersInv, UpdaterInv, UpdaterIdle, Idle
  <2> QED
    BY <1>1, <2>1
<1>4. \A key \in DOMAIN todo : Earned(key, todo[key])
  BY <1>1, <1>3, StatisticsEarned DEF IInv
<1> DEFINE at == IF rows = {} THEN UpdaterIdle ELSE [pc |-> "write", rows |-> {}, todo |-> todo]
<1>5. \/ at = UpdaterIdle
      \/ /\ at = [pc |-> "write", rows |-> {}, todo |-> at.todo]
         /\ \A key \in DOMAIN at.todo : Earned(key, at.todo[key])
  BY <1>4
<1>6. updater' = [updater EXCEPT ![u] = at]
  BY <1>1
<1> HIDE DEF at
<1>7. UpdatersInv'
  BY <1>2, <1>5, <1>6, UpdaterMoved DEF IInv
<1> QED
  BY <1>2, <1>7, UnchangedKeeps, TableKept DEF IInv, Kept, CountersInv

LEMMA WriteStands ==
    ASSUME IInv, NEW u \in Updaters, UpdateWrite(u)
    PROVE  IInv'
<1>1. PICK key \in DOMAIN updater[u].todo :
        LET rest == [k \in DOMAIN updater[u].todo \ {key} |-> updater[u].todo[k]]
        IN  /\ routerState' = Upserted(key, updater[u].todo[key])
            /\ updater' = [updater EXCEPT
                  ![u] = IF rest = <<>> THEN UpdaterIdle ELSE [@ EXCEPT !.todo = rest]]
  BY DEF UpdateWrite
<1>2. updater[u].pc = "write" /\ UNCHANGED <<evidence, disables, faults>>
  BY DEF UpdateWrite
<1> DEFINE todo == updater[u].todo
           rest == [k \in DOMAIN todo \ {key} |-> todo[k]]
           at == IF rest = <<>> THEN UpdaterIdle ELSE [updater[u] EXCEPT !.todo = rest]
<1>3. updater[u] = [pc |-> "write", rows |-> {}, todo |-> todo]
      /\ \A k \in DOMAIN todo : Earned(k, todo[k])
  BY <1>2 DEF IInv, UpdatersInv, UpdaterInv, UpdaterIdle, Idle
<1>4. \/ at = UpdaterIdle
      \/ /\ at = [pc |-> "write", rows |-> {}, todo |-> at.todo]
         /\ \A k \in DOMAIN at.todo : Earned(k, at.todo[k])
  <2>1. [updater[u] EXCEPT !.todo = rest] = [pc |-> "write", rows |-> {}, todo |-> rest]
    BY <1>3
  <2>2. \A k \in DOMAIN rest : Earned(k, rest[k])
    BY <1>3
  <2> QED
    BY <2>1, <2>2
<1>5. updater' = [updater EXCEPT ![u] = at]
  BY <1>1 DEF IInv, UpdatersInv
<1>6. UpdatersInv'
  <2> HIDE DEF at
  <2> QED
    BY <1>2, <1>4, <1>5, UpdaterMoved DEF IInv
<1>7. routerState' = With(routerState, key, todo[key])
  BY <1>1 DEF Upserted
<1>8. \A k \in DOMAIN routerState' : Earned(k, routerState'[k])
  <2>1. \A k \in DOMAIN routerState : Earned(k, routerState[k])
    BY DEF IInv, TableInv
  <2>2. Earned(key, todo[key])
    BY <1>1, <1>3
  <2> QED
    BY <1>7, <2>1, <2>2 DEF With
<1>9. TableInv'
  <2>1. Kept
    BY <1>2, UnchangedKeeps DEF IInv
  <2> QED
    BY <1>8, <2>1, TableMoved DEF IInv
<1> QED
  BY <1>2, <1>6, <1>9, UnchangedKeeps DEF IInv, Kept, CountersInv

LEMMA FailsStands ==
    ASSUME IInv, NEW u \in Updaters, UpdateFails(u)
    PROVE  IInv'
<1>1. /\ UNCHANGED <<evidence, routerState, disables>> /\ faults < MaxFaults /\ faults' = faults + 1
      /\ updater' = [updater EXCEPT ![u] = UpdaterIdle]
  BY DEF UpdateFails
<1>2. UpdatersInv'
  BY <1>1, UpdaterMoved DEF IInv
<1>3. CountersInv'
  BY <1>1, RouterUpdateAssumption DEF IInv, CountersInv
<1> QED
  BY <1>1, <1>2, <1>3, UnchangedKeeps, TableKept DEF IInv, Kept

\* The row an escalation leaves has the numbers it had.
LEMMA DisabledRow ==
    ASSUME NEW row, Shaped(row), NEW why
    PROVE  LET disabled == [[row EXCEPT !.reason = why] EXCEPT !.routable = FALSE]
           IN  Shaped(disabled) /\ disabled.agreed = row.agreed
<1> DEFINE disabled == [[row EXCEPT !.reason = why] EXCEPT !.routable = FALSE]
           R == [n : {row.n}, agreed : {row.agreed}, reason : {row.reason, why}, routable : {row.routable, FALSE}]
<1>1. row \in R
  BY DEF Shaped, StatsRow
<1>2. disabled \in R
  BY <1>1
<1> HIDE DEF disabled
<1>3. disabled.agreed = row.agreed
      /\ disabled = StatsRow(disabled.n, disabled.agreed, disabled.reason, disabled.routable)
  BY <1>2 DEF StatsRow
<1> QED
  BY <1>3 DEF disabled, Shaped

LEMMA DisableStands ==
    ASSUME IInv, Disable
    PROVE  IInv'
<1>1. PICK key : routerState' = Disabled(key)
  BY DEF Disable
<1>2. UNCHANGED <<evidence, updater, faults>> /\ disables < MaxDisables /\ disables' = disables + 1
  BY DEF Disable
<1>3. Kept
  BY <1>2, UnchangedKeeps DEF IInv
<1>4. \A k \in DOMAIN routerState' : Earned(k, routerState'[k])
  <2>1. \A k \in DOMAIN routerState : Earned(k, routerState[k])
    BY DEF IInv, TableInv
  <2>2. CASE key \notin DOMAIN routerState
    BY <1>1, <2>1, <2>2 DEF Disabled
  <2>3. CASE key \in DOMAIN routerState
    <3> DEFINE row == routerState[key]
               disabled == [[row EXCEPT !.reason = Reason("escalation", {})] EXCEPT !.routable = FALSE]
    <3>1. DOMAIN routerState' = DOMAIN routerState /\ routerState'[key] = disabled
          /\ \A k \in DOMAIN routerState \ {key} : routerState'[k] = routerState[k]
      BY <1>1, <2>3 DEF Disabled
    <3>2. Shaped(disabled) /\ disabled.agreed = row.agreed
      BY <2>1, <2>3, DisabledRow DEF Earned
    <3> HIDE DEF disabled
    <3> QED
      BY <2>1, <2>3, <3>1, <3>2 DEF Earned
  <2> QED
    BY <2>2, <2>3
<1>5. TableInv'
  BY <1>2, <1>3, <1>4, TableMoved DEF IInv
<1>6. UpdatersInv'
  BY <1>2, <1>3, UpdatersKept DEF IInv
<1>7. CountersInv'
  BY <1>2, RouterUpdateAssumption DEF IInv, CountersInv
<1> QED
  BY <1>3, <1>5, <1>6, <1>7 DEF IInv, Kept

LEMMA EvidenceStands ==
    ASSUME IInv, Decide \/ Record \/ Grade
    PROVE  IInv'
<1>1. Kept
  BY DecideKeeps, RecordKeeps, GradeKeeps DEF IInv
<1>2. UNCHANGED <<routerState, updater, disables, faults>>
  BY DEF Decide, Record, Grade
<1> QED
  BY <1>1, <1>2, TableKept, UpdatersKept DEF IInv, Kept, CountersInv

LEMMA StutterStands ==
    ASSUME IInv, UNCHANGED vars
    PROVE  IInv'
<1>1. UNCHANGED <<evidence, routerState, updater, disables, faults>>
  BY DEF vars
<1> QED
  BY <1>1, UnchangedKeeps, TableKept, UpdatersKept DEF IInv, Kept, CountersInv

LEMMA InitStands == Init => IInv
BY RouterUpdateAssumption
   DEF Init, IInv, EvidenceInv, CountersInv, TableInv, UpdatersInv, UpdaterInv

LEMMA StepStands == IInv /\ [Next]_vars => IInv'
<1> SUFFICES ASSUME IInv, [Next]_vars
             PROVE  IInv'
  OBVIOUS
<1> QED
  BY EvidenceStands, StartStands, ResultsStands, WriteStands, FailsStands, DisableStands, StutterStands
  DEF Next, UpdateGoesOn

THEOREM Invariance == Spec => []IInv
  BY InitStands, StepStands, PTL DEF Spec

-----------------------------------------------------------------------------
(***************************************************************************)
(* What follows.                                                           *)
(***************************************************************************)
\* Rows are of groups with evidence, whatever overlaps and fails.
THEOREM Typing == Spec => []TypeOK
<1>1. IInv => TypeOK
  <2> SUFFICES ASSUME IInv
               PROVE  TypeOK
    OBVIOUS
  <2>1. /\ decided \in UNION {[V -> BOOLEAN] : V \in SUBSET Verifications}
        /\ results \in UNION {[R -> [score : Scores, judge : {Unjudged, "pass", "fail"}]] : R \in SUBSET EvalResults}
    BY DEF IInv, EvidenceInv, Outcomes, Grades
  <2>2. DOMAIN routerState \subseteq KnownKeys
    BY DEF IInv, TableInv, Earned
  <2>3. \A u \in Updaters : updater[u].pc \in {Idle, "results", "write"}
    BY DEF IInv, UpdatersInv, UpdaterInv, UpdaterIdle
  <2> QED
    BY <2>1, <2>2, <2>3 DEF IInv, CountersInv, TypeOK
<1> QED
  BY <1>1, Invariance, PTL

\* No row counts more agreement than its group ever had, for any evidence and
\* any number of updates that overlap, fail half-way or read between grades.
THEOREM AgreementIsEarned == Spec => []AgreementEarned
<1>1. IInv => AgreementEarned
  BY DEF IInv, TableInv, Earned, Agreement, AgreementEarned
<1> QED
  BY <1>1, Invariance, PTL

=============================================================================
