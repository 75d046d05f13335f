------------------------- MODULE LiveRoutingProofs -------------------------
(***************************************************************************)
(* Theorems about LiveRouting, for every set of sessions, categories and   *)
(* requests, every number of updates, restarts and SQL failures, and any   *)
(* choice of the sessions whose clients wait for an answer.                *)
(***************************************************************************)
EXTENDS LiveRouting, FiniteSetTheorems, TLAPS

\* Where each kind of state lives is expanded in every proof below.
USE DEF shared, rounds, workers, handler, history, vars, Goto, Finish, LogDecision, StatementFails

LEMMA RowFacts ==
    /\ Disabled \in Row
    /\ WrittenRow \subseteq Row
    /\ None \notin Row
    /\ NoRows \in [Cats -> RowOrNone]
  BY NoneAssumption DEF Disabled, WrittenRow, Row, NoRows, RowOrNone

\* Types and the handlers' locals are preserved by every step: the type of the
\* snapshot DisableCategory stores depends on what its handler has loaded.
TypeInv == TypeOK /\ LocalsMatchPoint

LEMMA TypeInvHolds == Spec => []TypeInv
<1>1. Init => TypeInv
  <2> SUFFICES ASSUME Init PROVE TypeInv
    OBVIOUS
  <2>1. db \in [Cats -> RowOrNone] /\ snap \in [Cats -> RowOrNone]
    BY RowFacts DEF Init, RowOrNone
  <2>2. RoutableIn(db) \subseteq Cats
    BY DEF RoutableIn
  <2> QED BY <2>1, <2>2, RowFacts, BoundAssumption
          DEF Init, TypeInv, TypeOK, LocalsMatchPoint, Points
<1>2. TypeInv /\ [Next]_vars => TypeInv'
  <2> SUFFICES ASSUME TypeInv, [Next]_vars PROVE TypeInv'
    OBVIOUS
  <2> USE DEF TypeInv, TypeOK, LocalsMatchPoint, Points, Arrived, Choosing, Serving
  <2>1. ASSUME NEW r \in Reqs, Arrive(r) PROVE TypeInv'
    BY <2>1 DEF Arrive
  <2>2. ASSUME NEW r \in Reqs, Escalate(r) PROVE TypeInv'
    <3>1. CASE TakePending(r)
      BY <3>1, NoneAssumption DEF TakePending
    <3>2. CASE TripBreaker(r)
      BY <3>2 DEF TripBreaker
    <3>3. CASE DisableRouterState(r)
      <4>1. db' \in [Cats -> RowOrNone]
        BY <3>3, RowFacts DEF DisableRouterState, RowOrNone
      <4> QED BY <3>3, <4>1, BoundAssumption DEF DisableRouterState
    <3>4. CASE LoadSnapshot(r)
      BY <3>4 DEF LoadSnapshot
    <3>5. CASE StoreSnapshot(r)
      <4>1. copied[r] \in [Cats -> RowOrNone] /\ Disabled \in RowOrNone
        BY <3>5, RowFacts DEF StoreSnapshot, RowOrNone
      <4>2. snap' \in [Cats -> RowOrNone]
        BY <3>5, <4>1 DEF StoreSnapshot
      <4> QED BY <3>5, <4>2 DEF StoreSnapshot
    <3>6. CASE LogEscalated(r)
      BY <3>6, BoundAssumption DEF LogEscalated
    <3> QED BY <2>2, <3>1, <3>2, <3>3, <3>4, <3>5, <3>6 DEF Escalate
  <2>3. ASSUME NEW r \in Reqs, Decide(r) PROVE TypeInv'
    <3>1. CASE SessionBroken(r)
      BY <3>1 DEF SessionBroken
    <3>2. CASE Lookup(r)
      BY <3>2 DEF Lookup
    <3>3. CASE ShouldShadow(r)
      BY <3>3 DEF ShouldShadow
    <3>4. CASE LogShadow(r)
      BY <3>4, BoundAssumption DEF LogShadow
    <3> QED BY <2>3, <3>1, <3>2, <3>3, <3>4 DEF Decide
  <2>4. ASSUME NEW r \in Reqs, Serve(r) PROVE TypeInv'
    <3>1. CASE ServeLocal(r)
      BY <3>1 DEF ServeLocal
    <3>2. CASE LogLocal(r)
      <4>1. faults' \in 0..MaxFaults
        BY <3>2, BoundAssumption DEF LogLocal
      <4> QED BY <3>2, <4>1 DEF LogLocal
    <3>3. CASE RecordServedLocally(r)
      BY <3>3 DEF RecordServedLocally
    <3>4. CASE WriteLocalResponse(r)
      BY <3>4 DEF WriteLocalResponse
    <3> QED BY <2>4, <3>1, <3>2, <3>3, <3>4 DEF Serve
  <2>5. ASSUME NEW r \in Reqs, Upstream(r) PROVE TypeInv'
    <3>1. /\ pc[r] = "upstream" /\ pc' = [pc EXCEPT ![r] = "done"]
          /\ \E how \in {"error", "frontier"} : answer' = [answer EXCEPT ![r] = how]
          /\ shadow' = shadow \/ shadow' = [shadow EXCEPT ![r] = "running"]
          /\ UNCHANGED <<shared, workers, sess, cat, culprit, copied, history>>
      BY <2>5 DEF Upstream
    <3> QED BY <3>1
  <2>6. ASSUME NEW r \in Reqs, DispatchShadow(r) PROVE TypeInv'
    BY <2>6, BoundAssumption DEF DispatchShadow
  <2>7. CASE Refresh
    BY <2>7 DEF Refresh, RefreshRead, RefreshStore
  <2>8. CASE UpdateRead
    <3>1. verdict' \in [Cats -> RowOrNone]
      BY <2>8, RowFacts DEF UpdateRead, RowOrNone
    <3> QED BY <2>8, <3>1, BoundAssumption DEF UpdateRead
  <2>9. CASE UpdateAborted
    BY <2>9, RowFacts, BoundAssumption DEF UpdateAborted
  <2>10. ASSUME NEW c \in Cats, UpsertRouterState(c) PROVE TypeInv'
    <3>1. RoutableIn(db') \subseteq Cats
      BY DEF RoutableIn
    <3> QED BY <2>10, <3>1 DEF UpsertRouterState, RowOrNone
  <2>11. CASE Restart
    BY <2>11, RowFacts, BoundAssumption DEF Restart, Open
  <2>12. CASE UNCHANGED vars
    BY <2>12
  <2> QED BY <2>1, <2>2, <2>3, <2>4, <2>5, <2>6, <2>7, <2>8, <2>9, <2>10, <2>11, <2>12
          DEF Next, Handle, Update
<1> QED BY <1>1, <1>2, PTL DEF Spec

\* Every variable stays in its type, whatever the handlers, the refresher, the
\* updates and the restarts interleave.
THEOREM Typing == Spec => []TypeOK
<1>1. TypeInv => TypeOK
  BY DEF TypeInv
<1> QED BY <1>1, TypeInvHolds, PTL

-----------------------------------------------------------------------------
\* A request that arrived after its breaker tripped has the breaker in front of
\* it, still tripped, or is already on its way to the frontier.  A restart,
\* which forgets the breaker, also ends the request.
BreakerInv ==
    \A r \in bornBroken :
        /\ answer[r] # "local"
        /\ pc[r] \in Arrived \cup {"upstream", "done"}
        /\ pc[r] \in Arrived => sess[r] \in broken

LEMMA BreakerInvHolds == Spec => []BreakerInv
<1>1. Init => BreakerInv
  BY DEF Init, BreakerInv
<1>2. TypeInv /\ BreakerInv /\ [Next]_vars => BreakerInv'
  <2> SUFFICES ASSUME TypeInv, BreakerInv, [Next]_vars PROVE BreakerInv'
    OBVIOUS
  <2> USE DEF TypeInv, TypeOK, LocalsMatchPoint, BreakerInv, Arrived
  <2>1. ASSUME NEW r \in Reqs, Arrive(r) PROVE BreakerInv'
    BY <2>1 DEF Arrive
  <2>2. ASSUME NEW r \in Reqs, Escalate(r) PROVE BreakerInv'
    BY <2>2 DEF Escalate, TakePending, TripBreaker, DisableRouterState,
                LoadSnapshot, StoreSnapshot, LogEscalated
  <2>3. ASSUME NEW r \in Reqs, Decide(r) PROVE BreakerInv'
    BY <2>3 DEF Decide, SessionBroken, Lookup, ShouldShadow, LogShadow
  <2>4. ASSUME NEW r \in Reqs, Serve(r) PROVE BreakerInv'
    BY <2>4 DEF Serve, ServeLocal, LogLocal, RecordServedLocally, WriteLocalResponse
  <2>5. ASSUME NEW r \in Reqs, Upstream(r) \/ DispatchShadow(r) PROVE BreakerInv'
    BY <2>5 DEF Upstream, DispatchShadow
  <2>6. CASE Refresh \/ UpdateRead \/ UpdateAborted
    BY <2>6 DEF Refresh, RefreshRead, RefreshStore, UpdateRead, UpdateAborted
  <2>7. ASSUME NEW c \in Cats, UpsertRouterState(c) PROVE BreakerInv'
    BY <2>7 DEF UpsertRouterState
  <2>8. CASE Restart
    BY <2>8 DEF Restart, Open
  <2>9. CASE UNCHANGED vars
    BY <2>9
  <2> QED BY <2>1, <2>2, <2>3, <2>4, <2>5, <2>6, <2>7, <2>8, <2>9
          DEF Next, Handle, Update
<1> QED BY <1>1, <1>2, TypeInvHolds, PTL DEF Spec

\* No request that arrives after its session's breaker tripped is ever answered
\* locally (routeDecision, SessionBroken).
THEOREM Breaker == Spec => []BreakerHolds
<1>1. BreakerInv => BreakerHolds
  BY DEF BreakerInv, BreakerHolds
<1> QED BY <1>1, BreakerInvHolds, PTL

-----------------------------------------------------------------------------
\* Every table of rows, wherever it is held, calls only qualified categories
\* routable, and a request past Lookup has a qualified category.
QualifiedTables ==
    /\ RoutableIn(db) \subseteq qualified
    /\ RoutableIn(snap) \subseteq qualified
    /\ fetched # None => RoutableIn(fetched) \subseteq qualified
    /\ \A r \in Reqs : pc[r] = "store" => RoutableIn(copied[r]) \subseteq qualified
QualifiedRequests ==
    \A r \in Reqs : pc[r] \in Serving \cup {"ordinal"} \/ answer[r] = "local"
                      => cat[r] \in qualified
QualifiedInv == QualifiedTables /\ QualifiedRequests

\* Disabling a category makes nothing routable.
LEMMA DisablingQualifiesNothing ==
    ASSUME NEW table \in [Cats -> RowOrNone], NEW c \in Cats
    PROVE  RoutableIn([table EXCEPT ![c] = Disabled]) \subseteq RoutableIn(table)
  BY DEF RoutableIn, Routable, Disabled

LEMMA QualifiedInvHolds == Spec => []QualifiedInv
<1>1. Init => QualifiedInv
  <2>1. RoutableIn(NoRows) = {}
    BY DEF RoutableIn, Routable, NoRows
  <2> QED BY <2>1 DEF Init, QualifiedInv, QualifiedTables, QualifiedRequests, Serving
<1>2. TypeInv /\ QualifiedInv /\ [Next]_vars => QualifiedInv'
  <2> SUFFICES ASSUME TypeInv, QualifiedInv, [Next]_vars PROVE QualifiedInv'
    OBVIOUS
  <2> USE DEF TypeInv, TypeOK, LocalsMatchPoint, QualifiedInv, QualifiedTables,
              QualifiedRequests, Serving
  <2>1. ASSUME NEW r \in Reqs, Arrive(r) PROVE QualifiedInv'
    BY <2>1 DEF Arrive, RoutableIn
  <2>2. ASSUME NEW r \in Reqs, TakePending(r) \/ TripBreaker(r) \/ LogEscalated(r)
        PROVE  QualifiedInv'
    BY <2>2 DEF TakePending, TripBreaker, LogEscalated, RoutableIn
  <2>3. ASSUME NEW r \in Reqs, DisableRouterState(r) PROVE QualifiedInv'
    <3>1. RoutableIn(db') \subseteq RoutableIn(db)
      BY <2>3, DisablingQualifiesNothing DEF DisableRouterState
    <3> QED BY <2>3, <3>1 DEF DisableRouterState, RoutableIn
  <2>4. ASSUME NEW r \in Reqs, LoadSnapshot(r) PROVE QualifiedInv'
    BY <2>4 DEF LoadSnapshot, RoutableIn
  <2>5. ASSUME NEW r \in Reqs, StoreSnapshot(r) PROVE QualifiedInv'
    <3>1. RoutableIn(snap') \subseteq RoutableIn(copied[r])
      BY <2>5, DisablingQualifiesNothing DEF StoreSnapshot
    <3> QED BY <2>5, <3>1 DEF StoreSnapshot, RoutableIn
  <2>6. ASSUME NEW r \in Reqs, Decide(r) PROVE QualifiedInv'
    BY <2>6 DEF Decide, SessionBroken, Lookup, ShouldShadow, LogShadow, RoutableIn
  <2>7. ASSUME NEW r \in Reqs, Serve(r) PROVE QualifiedInv'
    BY <2>7 DEF Serve, ServeLocal, LogLocal, RecordServedLocally, WriteLocalResponse,
                RoutableIn
  <2>8. ASSUME NEW r \in Reqs, Upstream(r) \/ DispatchShadow(r) PROVE QualifiedInv'
    BY <2>8 DEF Upstream, DispatchShadow, RoutableIn
  <2>9. CASE Refresh
    BY <2>9 DEF Refresh, RefreshRead, RefreshStore, RoutableIn
  <2>10. CASE UpdateRead \/ UpdateAborted
    BY <2>10 DEF UpdateRead, UpdateAborted, RoutableIn
  <2>11. ASSUME NEW c \in Cats, UpsertRouterState(c) PROVE QualifiedInv'
    BY <2>11 DEF UpsertRouterState, RoutableIn
  <2>12. CASE Restart
    <3>1. RoutableIn(NoRows) = {}
      BY DEF RoutableIn, Routable, NoRows
    <3> QED BY <2>12, <3>1 DEF Restart, RoutableIn, Open
  <2>13. CASE UNCHANGED vars
    BY <2>13 DEF RoutableIn
  <2> QED BY <2>1, <2>2, <2>3, <2>4, <2>5, <2>6, <2>7, <2>8, <2>9, <2>10, <2>11,
             <2>12, <2>13 DEF Next, Handle, Update, Escalate
<1> QED BY <1>1, <1>2, TypeInvHolds, PTL DEF Spec

\* Only a category that `router update` once judged routable is answered
\* locally: the refresher, DisableCategory's copies and a restart's snapshot
\* never make another one routable.
THEOREM Qualified == Spec => []OnlyQualifiedServed
<1>1. QualifiedInv => OnlyQualifiedServed
  BY DEF QualifiedInv, QualifiedRequests, OnlyQualifiedServed
<1> QED BY <1>1, QualifiedInvHolds, PTL

-----------------------------------------------------------------------------
\* With clients that wait, a session has one open request; from the moment it
\* has taken the pending turn until it answers, no local turn is unchecked, and
\* once it is past the breaker nobody else can trip it.
Deciding == (Arrived \ {"take"}) \cup Choosing \cup Serving
Waiters == {r \in Reqs : sess[r] \in WaitingSessions}
OneOpen ==
    \A q, r \in Waiters : Open(q) /\ Open(r) /\ sess[q] = sess[r] => q = r
TurnInv ==
    /\ OneOpen
    /\ \A s \in WaitingSessions : unchecked[s] # None => pending[s] = unchecked[s]
    /\ \A r \in Waiters : pc[r] \in Deciding => unchecked[sess[r]] = None
    /\ \A r \in Waiters : pc[r] = "write" => pending[sess[r]] = cat[r]
    /\ \A r \in Waiters : pc[r] \in Choosing \cup Serving => sess[r] \notin broken

LEMMA TurnInvHolds == Spec => []TurnInv
<1>1. Init => TurnInv
  BY DEF Init, TurnInv, OneOpen, Waiters, Open, Deciding, Arrived, Choosing, Serving
<1>2. TypeInv /\ TurnInv /\ [Next]_vars => TurnInv'
  <2> SUFFICES ASSUME TypeInv, TurnInv, [Next]_vars PROVE TurnInv'
    OBVIOUS
  <2> USE WaitingAssumption DEF TypeInv, TypeOK, TurnInv, OneOpen, Waiters, Open, Deciding, Arrived, Choosing, Serving
  <2>1. ASSUME NEW r \in Reqs, Arrive(r) PROVE TurnInv'
    BY <2>1 DEF Arrive
  <2>2. ASSUME NEW r \in Reqs, TakePending(r) PROVE TurnInv'
    <3>1. /\ pc[r] = "take" /\ \E point \in {"breaker", "trip"} : pc' = [pc EXCEPT ![r] = point]
          /\ pending' = [pending EXCEPT ![sess[r]] = None]
          /\ unchecked' = [unchecked EXCEPT ![sess[r]] = None]
          /\ UNCHANGED <<sess, cat, broken>>
      BY <2>2 DEF TakePending
    <3>2. CASE r \in Waiters
      <4>1. \A q \in Waiters : Open(q) /\ q # r => sess[q] # sess[r]
        BY <3>1, <3>2
      <4> QED BY <3>1, <3>2, <4>1
    <3>3. CASE r \notin Waiters
      BY <3>1, <3>3
    <3> QED BY <3>2, <3>3
  <2>3. ASSUME NEW r \in Reqs, TripBreaker(r) PROVE TurnInv'
    <3>1. /\ pc[r] = "trip" /\ pc' = [pc EXCEPT ![r] = "disable"]
          /\ broken' = broken \cup {sess[r]}
          /\ UNCHANGED <<sess, cat, pending, unchecked>>
      BY <2>3 DEF TripBreaker
    <3>2. CASE r \in Waiters
      <4>1. \A q \in Waiters : Open(q) /\ q # r => sess[q] # sess[r]
        BY <3>1, <3>2
      <4> QED BY <3>1, <3>2, <4>1
    <3>3. CASE r \notin Waiters
      BY <3>1, <3>3
    <3> QED BY <3>2, <3>3
  <2>4. ASSUME NEW r \in Reqs,
               DisableRouterState(r) \/ LoadSnapshot(r) \/ StoreSnapshot(r) \/ LogEscalated(r)
        PROVE  TurnInv'
    <3>1. /\ pc[r] \in Deciding \ (Choosing \cup Serving)
          /\ \E point \in Deciding \ (Choosing \cup Serving) : pc' = [pc EXCEPT ![r] = point]
          /\ UNCHANGED <<sess, cat, pending, broken, unchecked>>
      BY <2>4 DEF DisableRouterState, LoadSnapshot, StoreSnapshot, LogEscalated
    <3> QED BY <3>1
  <2>5. ASSUME NEW r \in Reqs, Decide(r) PROVE TurnInv'
    <3>1. CASE SessionBroken(r)
      BY <3>1 DEF SessionBroken
    <3>2. CASE Lookup(r)
      BY <3>2 DEF Lookup
    <3>3. CASE ShouldShadow(r)
      BY <3>3 DEF ShouldShadow
    <3>4. CASE LogShadow(r)
      BY <3>4 DEF LogShadow
    <3> QED BY <2>5, <3>1, <3>2, <3>3, <3>4 DEF Decide
  <2>6. ASSUME NEW r \in Reqs, ServeLocal(r) \/ LogLocal(r) PROVE TurnInv'
    <3>1. CASE ServeLocal(r)
      BY <3>1 DEF ServeLocal
    <3>2. CASE LogLocal(r)
      BY <3>2 DEF LogLocal
    <3> QED BY <2>6, <3>1, <3>2
  <2>7. ASSUME NEW r \in Reqs, RecordServedLocally(r) PROVE TurnInv'
    <3>1. /\ pc[r] = "record" /\ pc' = [pc EXCEPT ![r] = "write"]
          /\ pending' = [pending EXCEPT ![sess[r]] = cat[r]]
          /\ UNCHANGED <<sess, cat, broken, unchecked>>
      BY <2>7 DEF RecordServedLocally
    <3>2. CASE r \in Waiters
      <4>1. \A q \in Waiters : Open(q) /\ q # r => sess[q] # sess[r]
        BY <3>1, <3>2
      <4>2. unchecked[sess[r]] = None
        BY <3>1, <3>2
      <4> QED BY <3>1, <3>2, <4>1, <4>2
    <3>3. CASE r \notin Waiters
      BY <3>1, <3>3
    <3> QED BY <3>2, <3>3
  <2>8. ASSUME NEW r \in Reqs, WriteLocalResponse(r) PROVE TurnInv'
    <3>1. /\ pc[r] = "write" /\ pc' = [pc EXCEPT ![r] = "done"]
          /\ unchecked' = [unchecked EXCEPT ![sess[r]] = cat[r]]
          /\ UNCHANGED <<sess, cat, broken, pending>>
      BY <2>8 DEF WriteLocalResponse
    <3>2. CASE r \in Waiters
      <4>1. \A q \in Waiters : Open(q) /\ q # r => sess[q] # sess[r]
        BY <3>1, <3>2
      <4>2. \A s \in WaitingSessions : unchecked'[s] # None => pending'[s] = unchecked'[s]
        BY <3>1, <3>2
      <4>3. ASSUME NEW q \in Waiters, pc'[q] \in Deciding
            PROVE  unchecked'[sess'[q]] = None
        <5>1. q # r /\ pc[q] \in Deciding
          BY <3>1, <4>3
        <5>2. sess[q] # sess[r]
          BY <4>1, <5>1
        <5> QED BY <3>1, <5>1, <5>2
      <4> QED BY <3>1, <4>2, <4>3
    <3>3. CASE r \notin Waiters
      BY <3>1, <3>3
    <3> QED BY <3>2, <3>3
  <2>9. ASSUME NEW r \in Reqs, Upstream(r) \/ DispatchShadow(r) PROVE TurnInv'
    <3>1. CASE Upstream(r)
      <4>1. /\ pc[r] = "upstream" /\ pc' = [pc EXCEPT ![r] = "done"]
            /\ UNCHANGED <<sess, cat, pending, broken, unchecked>>
        BY <3>1 DEF Upstream
      <4> QED BY <4>1
    <3>2. CASE DispatchShadow(r)
      BY <3>2 DEF DispatchShadow
    <3> QED BY <2>9, <3>1, <3>2
  <2>10. CASE Refresh \/ UpdateRead \/ UpdateAborted
    BY <2>10 DEF Refresh, RefreshRead, RefreshStore, UpdateRead, UpdateAborted
  <2>11. ASSUME NEW c \in Cats, UpsertRouterState(c) PROVE TurnInv'
    BY <2>11 DEF UpsertRouterState
  <2>12. CASE Restart
    BY <2>12 DEF Restart
  <2>13. CASE UNCHANGED vars
    BY <2>13
  <2> QED BY <2>1, <2>2, <2>3, <2>4, <2>5, <2>6, <2>7, <2>8, <2>9, <2>10, <2>11,
             <2>12, <2>13 DEF Next, Handle, Update, Escalate, Serve
<1> QED BY <1>1, <1>2, TypeInvHolds, PTL DEF Spec

\* Every locally served turn of a waiting client is still pending when its next
\* request arrives (serveLocally records it before it writes the response).
THEOREM LocalTurnsAreChecked == Spec => []LocalTurnAwaitsCheck
<1>1. TurnInv => LocalTurnAwaitsCheck
  BY DEF TurnInv, LocalTurnAwaitsCheck
<1> QED BY <1>1, TurnInvHolds, PTL

\* A session of a waiting client gets no local answer once its breaker tripped.
THEOREM TrippedSessionStaysFrontier == Spec => SessionStaysFrontier
<1> DEFINE NoneWhileBroken ==
      \A r \in Reqs : /\ sess[r] \in WaitingSessions
                      /\ answer[r] # "local" /\ answer'[r] = "local"
                      => sess[r] \notin broken
<1>1. TypeInv /\ TurnInv /\ [Next]_vars => [NoneWhileBroken]_vars
  <2> SUFFICES ASSUME TypeInv, TurnInv, Next PROVE NoneWhileBroken
    OBVIOUS
  <2> USE DEF TypeInv, TypeOK, NoneWhileBroken
  <2>1. ASSUME NEW r \in Reqs, WriteLocalResponse(r) PROVE NoneWhileBroken
    BY <2>1 DEF WriteLocalResponse, TurnInv, Waiters, Serving
  <2>2. ASSUME NEW r \in Reqs, Upstream(r) PROVE NoneWhileBroken
    BY <2>2 DEF Upstream
  <2>3. CASE Restart
    BY <2>3 DEF Restart
  <2>4. CASE UNCHANGED answer
    BY <2>4
  <2> QED BY <2>1, <2>2, <2>3, <2>4
          DEF Next, Handle, Escalate, Decide, Serve, Refresh, Update, Arrive, TakePending,
              TripBreaker, DisableRouterState, LoadSnapshot, StoreSnapshot, LogEscalated,
              SessionBroken, Lookup, ShouldShadow, LogShadow, ServeLocal, LogLocal,
              RecordServedLocally, DispatchShadow, RefreshRead, RefreshStore, UpdateRead,
              UpdateAborted, UpsertRouterState
<1> QED BY <1>1, TypeInvHolds, TurnInvHolds, PTL DEF Spec, SessionStaysFrontier

-----------------------------------------------------------------------------
\* A decision is in the audit trail only when its handler has passed the step
\* that logs it, and without SQL failures it is there from that step on.
AuditInv ==
    \A r \in Reqs :
        /\ <<r, "local", cat[r]>> \in decisions =>
              pc[r] \in {"record", "write"} \/ (pc[r] = "done" /\ answer[r] \in {"local", "cut"})
        /\ <<r, "shadow", cat[r]>> \in decisions =>
              pc[r] = "upstream" \/ (pc[r] = "done" /\ answer[r] # "local")
        /\ faults = 0 /\ (pc[r] \in {"record", "write"} \/ answer[r] = "local") =>
              <<r, "local", cat[r]>> \in decisions

LEMMA AuditInvHolds == Spec => []AuditInv
<1>1. Init => AuditInv
  BY DEF Init, AuditInv
<1>2. TypeInv /\ AuditInv /\ [Next]_vars => AuditInv'
  <2> SUFFICES ASSUME TypeInv, AuditInv, [Next]_vars PROVE AuditInv'
    OBVIOUS
  <2> USE DEF TypeInv, TypeOK, LocalsMatchPoint, AuditInv
  <2>1. ASSUME NEW r \in Reqs, Arrive(r) PROVE AuditInv'
    BY <2>1 DEF Arrive
  <2>2. ASSUME NEW r \in Reqs, TakePending(r) \/ TripBreaker(r) \/ DisableRouterState(r)
        PROVE  AuditInv'
    BY <2>2 DEF TakePending, TripBreaker, DisableRouterState
  <2>3. ASSUME NEW r \in Reqs, LoadSnapshot(r) \/ StoreSnapshot(r) PROVE AuditInv'
    BY <2>3 DEF LoadSnapshot, StoreSnapshot
  <2>4. ASSUME NEW r \in Reqs, LogEscalated(r) PROVE AuditInv'
    BY <2>4 DEF LogEscalated
  <2>5. ASSUME NEW r \in Reqs, SessionBroken(r) \/ Lookup(r) \/ ShouldShadow(r)
        PROVE  AuditInv'
    BY <2>5 DEF SessionBroken, Lookup, ShouldShadow
  <2>6. ASSUME NEW r \in Reqs, LogShadow(r) PROVE AuditInv'
    BY <2>6 DEF LogShadow
  <2>7. ASSUME NEW r \in Reqs, ServeLocal(r) PROVE AuditInv'
    BY <2>7 DEF ServeLocal
  <2>8. ASSUME NEW r \in Reqs, LogLocal(r) PROVE AuditInv'
    BY <2>8 DEF LogLocal
  <2>9. ASSUME NEW r \in Reqs, RecordServedLocally(r) \/ WriteLocalResponse(r)
        PROVE  AuditInv'
    BY <2>9 DEF RecordServedLocally, WriteLocalResponse
  <2>10. ASSUME NEW r \in Reqs, Upstream(r) PROVE AuditInv'
    BY <2>10 DEF Upstream
  <2>11. ASSUME NEW r \in Reqs, DispatchShadow(r) PROVE AuditInv'
    BY <2>11 DEF DispatchShadow
  <2>12. CASE Refresh \/ UpdateRead \/ UpdateAborted
    BY <2>12 DEF Refresh, RefreshRead, RefreshStore, UpdateRead, UpdateAborted
  <2>13. ASSUME NEW c \in Cats, UpsertRouterState(c) PROVE AuditInv'
    BY <2>13 DEF UpsertRouterState
  <2>14. CASE Restart
    BY <2>14 DEF Restart, Open
  <2>15. CASE UNCHANGED vars
    BY <2>15
  <2> QED BY <2>1, <2>2, <2>3, <2>4, <2>5, <2>6, <2>7, <2>8, <2>9, <2>10, <2>11,
             <2>12, <2>13, <2>14, <2>15 DEF Next, Handle, Update, Escalate, Decide, Serve
<1> QED BY <1>1, <1>2, TypeInvHolds, PTL DEF Spec

\* The audit trail agrees with what clients got (LogDecision's place in
\* routeDecision and serveLocally).
THEOREM Audit == Spec => []AuditMatchesAnswers
<1>1. AuditInv => AuditMatchesAnswers
  BY DEF AuditInv, AuditMatchesAnswers
<1> QED BY <1>1, AuditInvHolds, PTL

-----------------------------------------------------------------------------
\* Seen from its clients, every step of live routing is a step of RoutedAnswers
\* or changes nothing they can see: the safety part of ImplementsRoutedAnswers.
THEOREM RefinesRoutedAnswers == Spec => Answers!Init /\ [][Answers!Next]_Answers!vars
<1>1. Init => Answers!Init
  BY DEF Init, Answers!Init, RoutableIn
<1>2. TypeInv /\ BreakerInv /\ QualifiedInv /\ [Next]_vars => [Answers!Next]_Answers!vars
  <2> SUFFICES ASSUME TypeInv, BreakerInv, QualifiedInv, [Next]_vars
               PROVE  [Answers!Next]_Answers!vars
    OBVIOUS
  <2> USE DEF TypeInv, TypeOK, LocalsMatchPoint, Answers!vars, Answers!Waiting
  <2>1. ASSUME NEW r \in Reqs, Arrive(r) PROVE Answers!Ask(r)
    BY <2>1 DEF Arrive, Answers!Ask, Points
  <2>2. ASSUME NEW r \in Reqs, TripBreaker(r) PROVE Answers!Bar(sess[r])
    <3>1. {q \in Reqs : pc'[q] # "unsent"} = {q \in Reqs : pc[q] # "unsent"}
      BY <2>2 DEF TripBreaker
    <3>2. r \in {q \in Reqs : pc[q] # "unsent"} /\ answer[r] = "none"
      BY <2>2 DEF TripBreaker
    <3> QED BY <2>2, <3>1, <3>2 DEF TripBreaker, Answers!Bar
  <2>3. ASSUME NEW r \in Reqs, WriteLocalResponse(r) PROVE Answers!Answer(r, "local")
    <3>1. r \notin bornBroken /\ cat[r] \in qualified
      BY <2>3 DEF WriteLocalResponse, BreakerInv, QualifiedInv, QualifiedRequests, Serving, Arrived
    <3> QED BY <2>3, <3>1 DEF WriteLocalResponse, Answers!Answer
  <2>4. ASSUME NEW r \in Reqs, Upstream(r)
        PROVE  Answers!Answer(r, "frontier") \/ Answers!Answer(r, "error")
    BY <2>4 DEF Upstream, Answers!Answer
  <2>5. ASSUME NEW r \in Reqs,
               TakePending(r) \/ DisableRouterState(r) \/ LoadSnapshot(r) \/ StoreSnapshot(r)
               \/ LogEscalated(r)
        PROVE  UNCHANGED Answers!vars
    BY <2>5 DEF TakePending, DisableRouterState, LoadSnapshot, StoreSnapshot, LogEscalated
  <2>6. ASSUME NEW r \in Reqs, Decide(r) PROVE UNCHANGED Answers!vars
    BY <2>6 DEF Decide, SessionBroken, Lookup, ShouldShadow, LogShadow
  <2>7. ASSUME NEW r \in Reqs,
               ServeLocal(r) \/ LogLocal(r) \/ RecordServedLocally(r) \/ DispatchShadow(r)
        PROVE  UNCHANGED Answers!vars
    BY <2>7 DEF ServeLocal, LogLocal, RecordServedLocally, DispatchShadow
  <2>8. CASE Refresh \/ UpdateRead \/ UpdateAborted
    BY <2>8 DEF Refresh, RefreshRead, RefreshStore, UpdateRead, UpdateAborted
  <2>9. ASSUME NEW c \in Cats, UpsertRouterState(c)
        PROVE  Answers!Qualify(c) \/ UNCHANGED Answers!vars
    <3>1. qualified' = qualified \/ qualified' = qualified \cup {c}
      BY <2>9 DEF UpsertRouterState, QualifiedInv, QualifiedTables, RoutableIn
    <3> QED BY <2>9, <3>1 DEF UpsertRouterState, Answers!Qualify
  <2>10. CASE Restart
    <3>1. Answers!CutOff
      BY <2>10 DEF Restart, Open, Answers!CutOff
    <3> QED BY <3>1 DEF Answers!Next
  <2>11. CASE UNCHANGED vars
    BY <2>11
  <2> QED BY <2>1, <2>2, <2>3, <2>4, <2>5, <2>6, <2>7, <2>8, <2>9, <2>10, <2>11
          DEF Next, Handle, Escalate, Serve, Update, Answers!Next, Answers!Respond
<1> QED BY <1>1, <1>2, TypeInvHolds, BreakerInvHolds, QualifiedInvHolds, PTL DEF Spec

-----------------------------------------------------------------------------
\* Before the first `router update`, a handler past its UPDATE statement, and an
\* escalation in the audit trail, both mean that the category is disabled.
DisableInv ==
    updates = 0 =>
        /\ verdict = NoRows
        /\ faults = 0 => \A r \in Reqs :
             /\ pc[r] \in {"load", "store", "escalated"} => ~Routable(db[culprit[r]])
             /\ \A c \in Cats : <<r, "escalated", c>> \in decisions => ~Routable(db[c])

\* An escalation in the audit trail means its category is disabled in
\* router_state, until `router update` writes the row again (checkEscalation
\* disables before it logs; a restart loses neither).
THEOREM EscalationsDisable == Spec => []EscalationDisables
<1>1. Init => DisableInv
  BY DEF Init, DisableInv
<1>2. TypeInv /\ DisableInv /\ [Next]_vars => DisableInv'
  <2> SUFFICES ASSUME TypeInv, DisableInv, [Next]_vars PROVE DisableInv'
    OBVIOUS
  <2> USE DEF TypeInv, TypeOK, LocalsMatchPoint, DisableInv
  <2>1. ASSUME NEW r \in Reqs, Arrive(r) PROVE DisableInv'
    BY <2>1 DEF Arrive
  <2>2. ASSUME NEW r \in Reqs, TakePending(r) \/ TripBreaker(r) PROVE DisableInv'
    BY <2>2 DEF TakePending, TripBreaker
  <2>3. ASSUME NEW r \in Reqs, DisableRouterState(r) PROVE DisableInv'
    <3>1. culprit[r] \in Cats
      BY <2>3 DEF DisableRouterState
    <3>2. ~Routable(Disabled) /\ ~Routable(None)
      BY DEF Routable, Disabled
    <3>3. \A c \in Cats : Routable(db'[c]) => Routable(db[c])
      <4>1. CASE db' = db
        BY <4>1
      <4>2. CASE db' = [db EXCEPT ![culprit[r]] = Disabled]
        BY <4>2, <3>1, <3>2
      <4> QED BY <2>3, <4>1, <4>2 DEF DisableRouterState
    <3>4. faults' = 0 => ~Routable(db'[culprit[r]])
      BY <2>3, <3>1, <3>2, BoundAssumption DEF DisableRouterState
    <3>5. \A q \in Reqs : q # r /\ pc'[q] \in {"load", "store", "escalated"}
             => pc[q] \in {"load", "store", "escalated"} /\ culprit[q] \in Cats
      BY <2>3 DEF DisableRouterState
    <3> QED BY <2>3, <3>3, <3>4, <3>5 DEF DisableRouterState
  <2>4. ASSUME NEW r \in Reqs, LoadSnapshot(r) \/ StoreSnapshot(r) PROVE DisableInv'
    BY <2>4 DEF LoadSnapshot, StoreSnapshot
  <2>5. ASSUME NEW r \in Reqs, LogEscalated(r) PROVE DisableInv'
    <3>1. \A q \in Reqs, c \in Cats :
             <<q, "escalated", c>> \in decisions'
                => <<q, "escalated", c>> \in decisions \/ c = culprit[r]
      BY <2>5 DEF LogEscalated
    <3>2. \A q \in Reqs : pc'[q] \in {"load", "store", "escalated"}
             => pc[q] \in {"load", "store", "escalated"} /\ culprit'[q] = culprit[q]
      BY <2>5 DEF LogEscalated
    <3> QED BY <2>5, <3>1, <3>2 DEF LogEscalated
  <2>6. ASSUME NEW r \in Reqs, Decide(r) PROVE DisableInv'
    <3>1. CASE LogShadow(r)
      <4>1. \A q \in Reqs, c \in Cats :
               <<q, "escalated", c>> \in decisions' => <<q, "escalated", c>> \in decisions
        BY <3>1 DEF LogShadow
      <4> QED BY <3>1, <4>1 DEF LogShadow
    <3> QED BY <2>6, <3>1 DEF Decide, SessionBroken, Lookup, ShouldShadow
  <2>7. ASSUME NEW r \in Reqs, Serve(r) PROVE DisableInv'
    BY <2>7 DEF Serve, ServeLocal, LogLocal, RecordServedLocally, WriteLocalResponse
  <2>8. ASSUME NEW r \in Reqs, Upstream(r) \/ DispatchShadow(r) PROVE DisableInv'
    BY <2>8 DEF Upstream, DispatchShadow
  <2>9. CASE Refresh
    BY <2>9 DEF Refresh, RefreshRead, RefreshStore
  <2>10. CASE UpdateRead \/ UpdateAborted
    BY <2>10 DEF UpdateRead, UpdateAborted
  <2>11. ASSUME NEW c \in Cats, UpsertRouterState(c) PROVE DisableInv'
    BY <2>11 DEF UpsertRouterState, NoRows
  <2>12. CASE Restart
    BY <2>12 DEF Restart, Open
  <2>13. CASE UNCHANGED vars
    BY <2>13
  <2> QED BY <2>1, <2>2, <2>3, <2>4, <2>5, <2>6, <2>7, <2>8, <2>9, <2>10, <2>11,
             <2>12, <2>13 DEF Next, Handle, Update, Escalate
<1>3. DisableInv => EscalationDisables
  BY DEF DisableInv, EscalationDisables
<1> QED BY <1>1, <1>2, <1>3, TypeInvHolds, PTL DEF Spec

-----------------------------------------------------------------------------
\* What a session's local turns of a category are spent on: escalations logged
\* or on their way to the log, turns logged and not yet recorded as pending, and
\* the pending turn.
Charged(s, c) ==
    Logged(s, c, "escalated") \cup {r \in Reqs : sess[r] = s /\ culprit[r] = c}
Unrecorded(s, c) ==
    {r \in Reqs : sess[r] = s /\ cat[r] = c /\ pc[r] = "record"}
PendingTurn(s, c) == IF pending[s] = c THEN 1 ELSE 0
Backed(s, c) ==
    Cardinality(Charged(s, c)) + Cardinality(Unrecorded(s, c)) + PendingTurn(s, c)
        <= Cardinality(Logged(s, c, "local"))
ChargeInv == faults = 0 => \A s \in Sessions, c \in Cats : Backed(s, c)

LEMMA CountsAreNumbers ==
    ASSUME NEW S \in SUBSET Reqs
    PROVE  IsFiniteSet(S) /\ Cardinality(S) \in Nat
  BY ReqsAssumption, FS_Subset, FS_CardinalityType

\* A step that adds nothing to what the turns are spent on, and removes none of
\* the turns, leaves them backed.
LEMMA NothingSpent ==
    ASSUME NEW s \in Sessions, NEW c \in Cats, Backed(s, c),
           Charged(s, c)' \subseteq Charged(s, c),
           Unrecorded(s, c)' \subseteq Unrecorded(s, c),
           PendingTurn(s, c)' <= PendingTurn(s, c),
           Logged(s, c, "local") \subseteq Logged(s, c, "local")'
    PROVE  Backed(s, c)'
<1>1. /\ Charged(s, c) \subseteq Reqs /\ Unrecorded(s, c) \subseteq Reqs
      /\ Logged(s, c, "local")' \subseteq Reqs
  BY DEF Charged, Unrecorded, Logged
<1>2. /\ Cardinality(Charged(s, c)') <= Cardinality(Charged(s, c))
      /\ Cardinality(Unrecorded(s, c)') <= Cardinality(Unrecorded(s, c))
      /\ Cardinality(Logged(s, c, "local")) <= Cardinality(Logged(s, c, "local")')
  BY <1>1, CountsAreNumbers, FS_Subset
<1>3. /\ Cardinality(Charged(s, c)) \in Nat /\ Cardinality(Charged(s, c)') \in Nat
      /\ Cardinality(Unrecorded(s, c)) \in Nat /\ Cardinality(Unrecorded(s, c)') \in Nat
      /\ Cardinality(Logged(s, c, "local")) \in Nat
      /\ Cardinality(Logged(s, c, "local")') \in Nat
  BY <1>1, CountsAreNumbers
<1>4. PendingTurn(s, c) \in Nat /\ PendingTurn(s, c)' \in Nat
  BY DEF PendingTurn
<1> QED BY <1>2, <1>3, <1>4 DEF Backed

LEMMA ChargeInvHolds == Spec => []ChargeInv
<1>1. Init => ChargeInv
  <2> SUFFICES ASSUME Init, NEW s \in Sessions, NEW c \in Cats PROVE Backed(s, c)
    BY DEF ChargeInv
  <2>1. /\ Charged(s, c) = {} /\ Unrecorded(s, c) = {} /\ Logged(s, c, "local") = {}
        /\ PendingTurn(s, c) = 0
    BY NoneAssumption DEF Init, Charged, Unrecorded, Logged, PendingTurn
  <2> QED BY <2>1, FS_EmptySet DEF Backed
<1>2. TypeInv /\ AuditInv /\ ChargeInv /\ [Next]_vars => ChargeInv'
  <2> SUFFICES ASSUME TypeInv, AuditInv, ChargeInv, [Next]_vars, faults' = 0,
                      NEW s \in Sessions, NEW c \in Cats
               PROVE  Backed(s, c)'
    BY DEF ChargeInv
  <2> USE NoneAssumption DEF TypeInv, TypeOK, LocalsMatchPoint
  <2>0. faults = 0 /\ Backed(s, c)
    <3>1. faults' >= faults
      BY DEF Next, Handle, Escalate, Decide, Serve, Refresh, Update, Arrive, TakePending,
             TripBreaker, DisableRouterState, LoadSnapshot, StoreSnapshot, LogEscalated,
             SessionBroken, Lookup, ShouldShadow, LogShadow, ServeLocal, LogLocal,
             RecordServedLocally, WriteLocalResponse, Upstream, DispatchShadow,
             RefreshRead, RefreshStore, UpdateRead, UpdateAborted, UpsertRouterState, Restart
    <3> QED BY <3>1, BoundAssumption DEF ChargeInv
  <2>1. ASSUME NEW r \in Reqs, TakePending(r) PROVE Backed(s, c)'
    <3>1. Unrecorded(s, c)' \subseteq Unrecorded(s, c) /\ Logged(s, c, "local")' = Logged(s, c, "local")
      BY <2>1 DEF TakePending, Unrecorded, Logged
    <3>2. PendingTurn(s, c)' <= PendingTurn(s, c)
      BY <2>1 DEF TakePending, PendingTurn
    <3>3. CASE Charged(s, c)' \subseteq Charged(s, c)
      BY <2>0, <3>1, <3>2, <3>3, NothingSpent
    <3>4. CASE ~(Charged(s, c)' \subseteq Charged(s, c))
      <4>1. culprit' = [culprit EXCEPT ![r] = pending[sess[r]]] /\ sess[r] = s /\ pending[s] = c
        BY <2>1, <3>4 DEF TakePending, Charged, Logged
      <4>2. Charged(s, c)' \subseteq Charged(s, c) \cup {r}
        BY <2>1, <4>1 DEF TakePending, Charged, Logged
      <4>3. PendingTurn(s, c) = 1 /\ PendingTurn(s, c)' = 0
        BY <2>1, <4>1 DEF TakePending, PendingTurn
      <4>4. /\ Charged(s, c) \subseteq Reqs /\ Charged(s, c)' \subseteq Reqs
            /\ Unrecorded(s, c) \subseteq Reqs /\ Unrecorded(s, c)' \subseteq Reqs
            /\ Logged(s, c, "local") \subseteq Reqs
        BY DEF Charged, Unrecorded, Logged
      <4>5. /\ IsFiniteSet(Charged(s, c)) /\ IsFiniteSet(Charged(s, c) \cup {r})
            /\ Cardinality(Charged(s, c) \cup {r}) <= Cardinality(Charged(s, c)) + 1
        BY <4>4, CountsAreNumbers, FS_AddElement
      <4>6. /\ Cardinality(Charged(s, c)') <= Cardinality(Charged(s, c) \cup {r})
            /\ Cardinality(Unrecorded(s, c)') <= Cardinality(Unrecorded(s, c))
        BY <3>1, <4>2, <4>4, <4>5, CountsAreNumbers, FS_Subset
      <4>7. /\ Cardinality(Charged(s, c)) \in Nat /\ Cardinality(Charged(s, c)') \in Nat
            /\ Cardinality(Charged(s, c) \cup {r}) \in Nat
            /\ Cardinality(Unrecorded(s, c)) \in Nat /\ Cardinality(Unrecorded(s, c)') \in Nat
            /\ Cardinality(Logged(s, c, "local")) \in Nat
        BY <4>4, <4>5, CountsAreNumbers, FS_CardinalityType
      <4> QED BY <2>0, <3>1, <4>3, <4>5, <4>6, <4>7 DEF Backed
    <3> QED BY <3>3, <3>4
  <2>2. ASSUME NEW r \in Reqs, LogEscalated(r) PROVE Backed(s, c)'
    <3>1. /\ decisions' = decisions \cup {<<r, "escalated", culprit[r]>>}
          /\ culprit' = [culprit EXCEPT ![r] = None]
          /\ pc[r] = "escalated" /\ pc' = [pc EXCEPT ![r] = "breaker"]
          /\ UNCHANGED <<sess, cat, pending>>
      BY <2>0, <2>2 DEF LogEscalated
    <3>2. Charged(s, c)' \subseteq Charged(s, c)
      BY <3>1 DEF Charged, Logged
    <3>3. Unrecorded(s, c)' \subseteq Unrecorded(s, c) /\ PendingTurn(s, c)' = PendingTurn(s, c)
      BY <3>1 DEF Unrecorded, PendingTurn
    <3>4. Logged(s, c, "local") \subseteq Logged(s, c, "local")'
      BY <3>1 DEF Logged
    <3> QED BY <2>0, <3>2, <3>3, <3>4, NothingSpent DEF PendingTurn
  <2>3. ASSUME NEW r \in Reqs, LogLocal(r) PROVE Backed(s, c)'
    <3>1. /\ decisions' = decisions \cup {<<r, "local", cat[r]>>}
          /\ pc[r] = "loglocal" /\ pc' = [pc EXCEPT ![r] = "record"]
          /\ UNCHANGED <<sess, cat, culprit, pending>>
      BY <2>0, <2>3 DEF LogLocal
    <3>2. Charged(s, c)' = Charged(s, c) /\ PendingTurn(s, c)' = PendingTurn(s, c)
      BY <3>1 DEF Charged, Logged, PendingTurn
    <3>3. CASE sess[r] = s /\ cat[r] = c
      <4>1. r \notin Logged(s, c, "local")
        BY <3>1, <3>3 DEF AuditInv, Logged
      <4>2. /\ Logged(s, c, "local")' = Logged(s, c, "local") \cup {r}
            /\ Unrecorded(s, c)' = Unrecorded(s, c) \cup {r}
        BY <3>1, <3>3 DEF Logged, Unrecorded
      <4>3. /\ Charged(s, c) \subseteq Reqs /\ Unrecorded(s, c) \subseteq Reqs
            /\ Logged(s, c, "local") \subseteq Reqs
        BY DEF Charged, Unrecorded, Logged
      <4>4. /\ Cardinality(Charged(s, c)) \in Nat /\ Cardinality(Unrecorded(s, c)) \in Nat
            /\ Cardinality(Logged(s, c, "local")) \in Nat
        BY <4>3, CountsAreNumbers
      <4>5. PendingTurn(s, c) \in Nat
        BY DEF PendingTurn
      <4>6. /\ Cardinality(Logged(s, c, "local")') = Cardinality(Logged(s, c, "local")) + 1
            /\ Cardinality(Unrecorded(s, c)') <= Cardinality(Unrecorded(s, c)) + 1
            /\ Cardinality(Unrecorded(s, c)') \in Nat
            /\ Cardinality(Charged(s, c)') = Cardinality(Charged(s, c))
        <5>1. Cardinality(Logged(s, c, "local")') = Cardinality(Logged(s, c, "local")) + 1
          BY <4>1, <4>2, <4>3, CountsAreNumbers, FS_AddElement
        <5>2. Cardinality(Unrecorded(s, c)')
                 = IF r \in Unrecorded(s, c) THEN Cardinality(Unrecorded(s, c))
                   ELSE Cardinality(Unrecorded(s, c)) + 1
          BY <4>2, <4>3, CountsAreNumbers, FS_AddElement
        <5>3. Cardinality(Charged(s, c)') = Cardinality(Charged(s, c))
          BY <3>2
        <5> QED BY <4>4, <5>1, <5>2, <5>3
      <4> QED BY <2>0, <3>2, <4>4, <4>5, <4>6 DEF Backed
    <3>4. CASE ~(sess[r] = s /\ cat[r] = c)
      <4>1. /\ Logged(s, c, "local") \subseteq Logged(s, c, "local")'
            /\ Unrecorded(s, c)' \subseteq Unrecorded(s, c)
        BY <3>1, <3>4 DEF Logged, Unrecorded
      <4> QED BY <2>0, <3>2, <4>1, NothingSpent DEF PendingTurn
    <3> QED BY <3>3, <3>4
  <2>4. ASSUME NEW r \in Reqs, RecordServedLocally(r) PROVE Backed(s, c)'
    <3>1. /\ pending' = [pending EXCEPT ![sess[r]] = cat[r]]
          /\ pc[r] = "record" /\ pc' = [pc EXCEPT ![r] = "write"]
          /\ UNCHANGED <<sess, cat, culprit, decisions>>
      BY <2>4 DEF RecordServedLocally
    <3>2. /\ Charged(s, c)' = Charged(s, c)
          /\ Logged(s, c, "local")' = Logged(s, c, "local")
          /\ Unrecorded(s, c)' = Unrecorded(s, c) \ {r}
      BY <3>1 DEF Charged, Logged, Unrecorded
    <3>3. CASE sess[r] = s /\ cat[r] = c
      <4>1. r \in Unrecorded(s, c)
        BY <3>1, <3>3 DEF Unrecorded
      <4>2. /\ Charged(s, c) \subseteq Reqs /\ Unrecorded(s, c) \subseteq Reqs
            /\ Logged(s, c, "local") \subseteq Reqs
        BY DEF Charged, Unrecorded, Logged
      <4>3. /\ Cardinality(Charged(s, c)) \in Nat /\ Cardinality(Unrecorded(s, c)) \in Nat
            /\ Cardinality(Logged(s, c, "local")) \in Nat
            /\ Cardinality(Unrecorded(s, c) \ {r}) = Cardinality(Unrecorded(s, c)) - 1
        BY <4>1, <4>2, CountsAreNumbers, FS_RemoveElement
      <4>4. PendingTurn(s, c) \in Nat /\ PendingTurn(s, c)' = 1
        BY <3>1, <3>3 DEF PendingTurn
      <4> QED BY <2>0, <3>2, <4>3, <4>4 DEF Backed
    <3>4. CASE ~(sess[r] = s /\ cat[r] = c)
      <4>1. PendingTurn(s, c)' <= PendingTurn(s, c)
        BY <3>1, <3>4 DEF PendingTurn
      <4> QED BY <2>0, <3>2, <4>1, NothingSpent
    <3> QED BY <3>3, <3>4
  <2>5. CASE Restart
    <3>1. /\ Charged(s, c)' \subseteq Charged(s, c) /\ Unrecorded(s, c)' \subseteq Unrecorded(s, c)
          /\ Logged(s, c, "local") \subseteq Logged(s, c, "local")'
      BY <2>5 DEF Restart, Open, Charged, Unrecorded, Logged
    <3>2. PendingTurn(s, c)' <= PendingTurn(s, c)
      BY <2>5 DEF Restart, PendingTurn
    <3> QED BY <2>0, <3>1, <3>2, NothingSpent
  <2>6. ASSUME NEW r \in Reqs, LogShadow(r) PROVE Backed(s, c)'
    <3>1. /\ Charged(s, c)' = Charged(s, c) /\ Logged(s, c, "local")' = Logged(s, c, "local")
          /\ Unrecorded(s, c)' \subseteq Unrecorded(s, c)
          /\ PendingTurn(s, c)' = PendingTurn(s, c)
      BY <2>6 DEF LogShadow, Charged, Unrecorded, Logged, PendingTurn
    <3> QED BY <2>0, <3>1, NothingSpent DEF PendingTurn
  <2>7. CASE /\ UNCHANGED <<decisions, sess, cat, culprit, pending>>
             /\ \A r \in Reqs : pc'[r] = "record" => pc[r] = "record"
    <3>1. /\ Charged(s, c)' = Charged(s, c) /\ Logged(s, c, "local")' = Logged(s, c, "local")
          /\ Unrecorded(s, c)' \subseteq Unrecorded(s, c)
          /\ PendingTurn(s, c)' = PendingTurn(s, c)
      BY <2>7 DEF Charged, Unrecorded, Logged, PendingTurn
    <3> QED BY <2>0, <3>1, NothingSpent DEF PendingTurn
  <2>8. ASSUME NEW r \in Reqs,
               \/ Arrive(r) \/ TripBreaker(r) \/ DisableRouterState(r) \/ LoadSnapshot(r)
               \/ StoreSnapshot(r) \/ SessionBroken(r) \/ Lookup(r) \/ ShouldShadow(r)
               \/ ServeLocal(r) \/ WriteLocalResponse(r) \/ Upstream(r) \/ DispatchShadow(r)
        PROVE  Backed(s, c)'
    <3>1. /\ UNCHANGED <<decisions, sess, cat, culprit, pending>>
          /\ \A q \in Reqs : pc'[q] = "record" => pc[q] = "record"
      BY <2>8 DEF Arrive, TripBreaker, DisableRouterState, LoadSnapshot, StoreSnapshot,
                  SessionBroken, Lookup, ShouldShadow, ServeLocal, WriteLocalResponse,
                  Upstream, DispatchShadow
    <3> QED BY <2>7, <3>1
  <2>9. CASE Refresh \/ Update \/ UNCHANGED vars
    BY <2>7, <2>9 DEF Refresh, Update, RefreshRead, RefreshStore, UpdateRead, UpdateAborted,
                      UpsertRouterState
  <2> QED BY <2>1, <2>2, <2>3, <2>4, <2>5, <2>6, <2>8, <2>9
          DEF Next, Handle, Escalate, Decide, Serve
<1> QED BY <1>1, <1>2, TypeInvHolds, AuditInvHolds, PTL DEF Spec

\* An escalation is charged to a locally served turn of the same session and
\* category, and one turn is charged at most once, however many requests look
\* for it at the same time (TakePending takes the turn under the lock).
THEOREM EscalationsAreBacked == Spec => []EscalationsBacked
<1>1. TypeInv /\ ChargeInv => EscalationsBacked
  <2> SUFFICES ASSUME TypeInv, ChargeInv, faults = 0, NEW s \in Sessions, NEW c \in Cats
               PROVE  Cardinality(Logged(s, c, "escalated")) <= Cardinality(Logged(s, c, "local"))
    BY DEF EscalationsBacked
  <2>1. /\ Logged(s, c, "escalated") \subseteq Charged(s, c)
        /\ Charged(s, c) \subseteq Reqs /\ Unrecorded(s, c) \subseteq Reqs
        /\ Logged(s, c, "local") \subseteq Reqs
    BY DEF Charged, Unrecorded, Logged
  <2>2. Cardinality(Logged(s, c, "escalated")) <= Cardinality(Charged(s, c))
    BY <2>1, CountsAreNumbers, FS_Subset
  <2>3. /\ Cardinality(Logged(s, c, "escalated")) \in Nat /\ Cardinality(Charged(s, c)) \in Nat
        /\ Cardinality(Unrecorded(s, c)) \in Nat /\ Cardinality(Logged(s, c, "local")) \in Nat
    BY <2>1, CountsAreNumbers
  <2> QED BY <2>2, <2>3 DEF ChargeInv, Backed, PendingTurn
<1> QED BY <1>1, TypeInvHolds, ChargeInvHolds, PTL

-----------------------------------------------------------------------------
\* What is served locally was allowed to be, and the audit trail says so.
THEOREM ServingIsSafe == Spec => []ServedSafely
  BY Qualified, Breaker, Audit, PTL DEF ServedSafely

\* A local turn waits for its check, is charged at most once, and its category
\* is disabled for it.
THEOREM EscalationsHold == Spec => []EscalationsStick
  BY LocalTurnsAreChecked, EscalationsAreBacked, EscalationsDisable, PTL DEF EscalationsStick
=============================================================================
