-------------------------- MODULE RouterStatistics --------------------------
(***************************************************************************)
(* How `splitter router update` turns evidence into router_state rows      *)
(* (internal/router: family.go, category.go, wilson.go, update.go).        *)
(*                                                                         *)
(* Tokens gives a model id's tokens behind any namespace and before any    *)
(* date, lower-cased, each with the separator before it, its stem and the  *)
(* digits and dots it ends in (a stem that ends in a letter has none).     *)
(* A piece of evidence is [turnType, subsystem, frontier, local, agree]    *)
(* and an id that tells it from equal ones.                                *)
(***************************************************************************)
EXTENDS Integers, Sequences, FiniteSets

CONSTANTS
    Tokens,            \* model id -> its tokens
    Overrides,         \* [families] of config: model id -> family
    MinN,              \* [router] min_n
    MinWilsonLB,       \* [router] min_wilson_lb, in percent
    MinDivergenceN,    \* rows of one version before it may diverge
    DivergencePoints   \* and how far below the family it then is

ASSUME RouterStatisticsAssumption ==
    /\ {MinN, MinDivergenceN} \subseteq Nat
    /\ {MinWilsonLB, DivergencePoints} \subseteq 0..100

\* Tokens that are only a version are dropped, with their separator.
Family ==
    [model \in DOMAIN Tokens |->
        IF model \in DOMAIN Overrides THEN Overrides[model]
        ELSE LET kept == SelectSeq(Tokens[model], LAMBDA t : t.stem # "")
             IN  [i \in DOMAIN kept |-> <<IF i = 1 THEN "" ELSE kept[i].sep, kept[i].stem>>]]

Category(turnType, subsystem) == <<turnType, subsystem>>

FamilyPair(frontier, local) == <<Family[frontier], Family[local]>>

GroupKey(e) ==
    [category |-> Category(e.turnType, e.subsystem), families |-> FamilyPair(e.frontier, e.local)]

GroupKeys(evidence) == {GroupKey(e) : e \in evidence}

Group(evidence, key) == {e \in evidence : GroupKey(e) = key}

-----------------------------------------------------------------------------
Agreed(rows) == Cardinality({e \in rows : e.agree})

\* The Wilson score interval's lower bound at z = 1.96 is at least percent:
\* (p - L)^2 >= z^2 * L * (1 - L) / n with p >= L, over the integers. The bound
\* is below 1, whatever agreed.
WilsonAtLeast(agreed, n, percent) ==
    LET above == 100 * agreed - percent * n
    IN  \/ percent = 0
        \/ /\ n > 0
           /\ percent < 100
           /\ above >= 0
           /\ 625 * above * above >= 2401 * n * percent * (100 - percent)

\* disabled_reason: "" when there is none.
Reason(why, versions) == [why |-> why, versions |-> versions]
NoReason == Reason("", {})

Routable(n, agreed, reason) ==
    reason = NoReason /\ n >= MinN /\ WilsonAtLeast(agreed, n, MinWilsonLB)

Version(rows, local) == {e \in rows : e.local = local}

\* More than so many points below the whole group. (Exact; the code's floats
\* may put a difference of exactly ten points on either side.)
FarBelow(version, rows) ==
    100 * (Agreed(rows) * Cardinality(version) - Agreed(version) * Cardinality(rows))
      > DivergencePoints * Cardinality(rows) * Cardinality(version)

Diverged(rows) ==
    {v \in {e.local : e \in rows} :
        /\ Cardinality(Version(rows, v)) >= MinDivergenceN
        /\ FarBelow(Version(rows, v), rows)}

\* The row of one group: of its divergent versions alone when it has any,
\* which are then the reason why it is disabled.
CategoryStats(rows) ==
    LET diverged == Diverged(rows)
        basis == IF diverged = {} THEN rows ELSE {e \in rows : e.local \in diverged}
        reason == IF diverged = {} THEN NoReason ELSE Reason("divergent_version", diverged)
        n == Cardinality(basis)
    IN  [n |-> n, agreed |-> Agreed(basis), reason |-> reason,
         routable |-> Routable(n, Agreed(basis), reason)]
=============================================================================
