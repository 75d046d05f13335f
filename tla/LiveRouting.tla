---------------------------- MODULE LiveRouting ----------------------------
(***************************************************************************)
(* Live routing: the proxy's request handlers (internal/proxy/route.go,    *)
(* capture.go), the router state they share (internal/router/live.go), the *)
(* 60 s snapshot refresher, the separate process `splitter router update`  *)
(* (internal/router/update.go) and restarts of the proxy.                  *)
(*                                                                         *)
(* Every handler runs in a goroutine of its own.  A step is what it does   *)
(* between two points where another goroutine or process can act: one      *)
(* critical section of LiveRouter.mu, one load or store of the atomic      *)
(* snapshot pointer, one SQL statement, or one backend call.               *)
(*                                                                         *)
(* A category stands for one (category, families) pair.  What a request    *)
(* says is abstracted to its category and to whether it shows the          *)
(* error-followup signal when it is looked at.                             *)
(***************************************************************************)
EXTENDS Naturals, FiniteSets

CONSTANTS
    Sessions,        \* session ids
    Cats,            \* (category, families) pairs
    Reqs,            \* captured requests, each sent at most once
    None,            \* no row, no pending turn, nothing read
    ShadowOrdinals,  \* the ordinals IsDualDispatchOrdinal selects
    WaitingSessions, \* sessions that send a request only after the last one ended
    MaxFaults,       \* bound: SQL statements that fail
    MaxUpdates,      \* bound: runs of `splitter router update`
    MaxRestarts      \* bound: restarts of the proxy

\* What one router_state row tells the router.
Row == [routable: BOOLEAN, reason: {"", "divergent", "escalation"}]
RowOrNone == Row \cup {None}

ASSUME NoneAssumption == None \notin Row /\ None \notin Cats
ASSUME ReqsAssumption == IsFiniteSet(Reqs)
ASSUME OrdinalAssumption == ShadowOrdinals \subseteq Nat
ASSUME WaitingAssumption == WaitingSessions \subseteq Sessions
ASSUME BoundAssumption == MaxFaults \in Nat /\ MaxUpdates \in Nat /\ MaxRestarts \in Nat

VARIABLES
    routeOn,    \* SPLITTER_ROUTE=on in this process's environment
    db,         \* router_state
    snap,       \* LiveRouter.snapshot
    broken,     \* LiveRouter.broken, as the set of its true keys
    pending,    \* LiveRouter.pending
    ordinal,    \* LiveRouter.ordinal
    decisions,  \* router_decisions: the <<request, decision, category>> logged
    fetched,    \* rows RefreshSnapshot has read and not yet stored, or None
    verdict,    \* rows `router update` has computed and still has to write
    updates,    \* `router update` runs so far
    restarts,   \* restarts so far
    faults,     \* SQL statements that have failed so far
    pc,         \* where each request's handler is
    sess, cat,  \* its session and category
    culprit,    \* the pending turn it took and is escalating
    copied,     \* the snapshot DisableCategory has loaded and not yet stored
    answer,     \* what the client got
    shadow,     \* the state of its dual dispatch
    bornBroken, \* history: requests that arrived after their session's breaker tripped
    unchecked,  \* history: the session's last local turn no later request has looked at
    qualified   \* history: categories whose row has ever been routable

shared  == <<routeOn, db, snap, broken, pending, ordinal, decisions>>
rounds  == <<fetched, verdict, updates, restarts>>
workers == <<rounds, faults>>
handler == <<pc, sess, cat, culprit, copied, answer, shadow>>
history == <<bornBroken, unchecked, qualified>>
vars == <<shared, workers, handler, history>>

\* A row no statement of the program ever writes is routable with a reason.
WrittenRow == {row \in Row : row.routable => row.reason = ""}
Routable(row) == row # None /\ row.routable
NoRows == [c \in Cats |-> None]
RoutableIn(table) == {c \in Cats : Routable(table[c])}

\* The handler's program points, in the order of the code.
Arrived  == {"take", "trip", "disable", "load", "store", "escalated", "breaker"}
Choosing == {"lookup", "ordinal"}
Serving  == {"serve", "loglocal", "record", "write"}
Points   == {"unsent", "logshadow", "upstream", "done"} \cup Arrived \cup Choosing \cup Serving
Open(r)  == pc[r] \notin {"unsent", "done"}

Init ==
    /\ routeOn \in BOOLEAN
    /\ db \in [Cats -> WrittenRow \cup {None}]
    /\ \/ snap = db /\ faults = 0
       \/ snap = NoRows /\ MaxFaults > 0 /\ faults = 1  \* the first RefreshSnapshot failed
    /\ broken = {}
    /\ pending = [s \in Sessions |-> None]
    /\ ordinal = 0
    /\ decisions = {}
    /\ fetched = None
    /\ verdict = NoRows
    /\ updates = 0
    /\ restarts = 0
    /\ pc = [r \in Reqs |-> "unsent"]
    /\ sess \in [Reqs -> Sessions]
    /\ cat \in [Reqs -> Cats]
    /\ culprit = [r \in Reqs |-> None]
    /\ copied = [r \in Reqs |-> None]
    /\ answer = [r \in Reqs |-> "none"]
    /\ shadow = [r \in Reqs |-> "no"]
    /\ bornBroken = {}
    /\ unchecked = [s \in Sessions |-> None]
    /\ qualified = RoutableIn(db)

-----------------------------------------------------------------------------
Goto(r, point) == pc' = [pc EXCEPT ![r] = point]

Finish(r, how) ==
    /\ Goto(r, "done")
    /\ answer' = [answer EXCEPT ![r] = how]

\* An SQL statement fails, and has no effect.
StatementFails == faults < MaxFaults /\ faults' = faults + 1

\* LogDecision: one INSERT, which may fail.
LogDecision(r, decision, category) ==
    \/ decisions' = decisions \cup {<<r, decision, category>>} /\ UNCHANGED faults
    \/ StatementFails /\ UNCHANGED decisions

\* A request reaches handleCaptured.
Arrive(r) ==
    /\ pc[r] = "unsent"
    /\ sess[r] \in WaitingSessions => \A q \in Reqs : sess[q] = sess[r] => ~Open(q)
    /\ Goto(r, IF routeOn THEN "take" ELSE "upstream")
    /\ bornBroken' = IF sess[r] \in broken THEN bornBroken \cup {r} ELSE bornBroken
    /\ UNCHANGED <<shared, workers, sess, cat, culprit, copied, answer, shadow,
                   unchecked, qualified>>

\* Mutant: the breaker is looked at only by requests that escalate.
TakePending_SkipsBreaker(r) ==
    /\ pc[r] = "take"
    /\ pending' = [pending EXCEPT ![sess[r]] = None]
    /\ unchecked' = [unchecked EXCEPT ![sess[r]] = None]
    /\ \/ /\ Goto(r, "lookup")
          /\ UNCHANGED culprit
       \/ /\ pending[sess[r]] # None
          /\ culprit' = [culprit EXCEPT ![r] = pending[sess[r]]]
          /\ Goto(r, "trip")
    /\ UNCHANGED <<routeOn, db, snap, broken, ordinal, decisions, workers,
                   sess, cat, copied, answer, shadow, bornBroken, qualified>>

\* Mutant: the pending turn is looked at and left in place.
TakePending_LeavesPending(r) ==
    /\ pc[r] = "take"
    /\ \/ /\ Goto(r, "breaker")
          /\ UNCHANGED culprit
       \/ /\ pending[sess[r]] # None
          /\ culprit' = [culprit EXCEPT ![r] = pending[sess[r]]]
          /\ Goto(r, "trip")
    /\ UNCHANGED <<shared, workers, sess, cat, copied, answer, shadow, history>>

\* checkEscalation takes the session's pending turn, and goes on to escalate
\* when the request shows the error signal.
TakePending(r) ==
    /\ pc[r] = "take"
    /\ pending' = [pending EXCEPT ![sess[r]] = None]
    /\ unchecked' = [unchecked EXCEPT ![sess[r]] = None]
    /\ \/ /\ Goto(r, "breaker")
          /\ UNCHANGED culprit
       \/ /\ pending[sess[r]] # None
          /\ culprit' = [culprit EXCEPT ![r] = pending[sess[r]]]
          /\ Goto(r, "trip")
    /\ UNCHANGED <<routeOn, db, snap, broken, ordinal, decisions, workers,
                   sess, cat, copied, answer, shadow, bornBroken, qualified>>

TripBreaker(r) ==
    /\ pc[r] = "trip"
    /\ broken' = broken \cup {sess[r]}
    /\ Goto(r, "disable")
    /\ UNCHANGED <<routeOn, db, snap, pending, ordinal, decisions, workers,
                   sess, cat, culprit, copied, answer, shadow, history>>

Disabled == [routable |-> FALSE, reason |-> "escalation"]

\* DisableCategory's UPDATE statement: no effect when the row does not exist;
\* on an error the snapshot is left alone.
DisableRouterState(r) ==
    /\ pc[r] = "disable"
    /\ \/ /\ db' = IF db[culprit[r]] = None THEN db
                   ELSE [db EXCEPT ![culprit[r]] = Disabled]
          /\ Goto(r, "load")
          /\ UNCHANGED faults
       \/ /\ StatementFails
          /\ Goto(r, "escalated")
          /\ UNCHANGED db
    /\ UNCHANGED <<routeOn, snap, broken, pending, ordinal, decisions, rounds,
                   sess, cat, culprit, copied, answer, shadow, history>>

\* The rest of DisableCategory: load the snapshot, copy it, store the copy.
LoadSnapshot(r) ==
    /\ pc[r] = "load"
    /\ copied' = [copied EXCEPT ![r] = snap]
    /\ Goto(r, "store")
    /\ UNCHANGED <<shared, workers, sess, cat, culprit, answer, shadow, history>>

StoreSnapshot(r) ==
    /\ pc[r] = "store"
    /\ snap' = [copied[r] EXCEPT ![culprit[r]] = Disabled]
    /\ copied' = [copied EXCEPT ![r] = None]
    /\ Goto(r, "escalated")
    /\ UNCHANGED <<routeOn, db, broken, pending, ordinal, decisions, workers,
                   sess, cat, culprit, answer, shadow, history>>

LogEscalated(r) ==
    /\ pc[r] = "escalated"
    /\ LogDecision(r, "escalated", culprit[r])
    /\ culprit' = [culprit EXCEPT ![r] = None]
    /\ Goto(r, "breaker")
    /\ UNCHANGED <<routeOn, db, snap, broken, pending, ordinal, rounds,
                   sess, cat, copied, answer, shadow, history>>

-----------------------------------------------------------------------------
\* routeDecision after checkEscalation.
SessionBroken(r) ==
    /\ pc[r] = "breaker"
    /\ Goto(r, IF sess[r] \in broken THEN "upstream" ELSE "lookup")
    /\ UNCHANGED <<shared, workers, sess, cat, culprit, copied, answer, shadow, history>>

\* Mutant: an entry that is found is taken to be routable.
Lookup_FoundIsEnough(r) ==
    /\ pc[r] = "lookup"
    /\ Goto(r, IF snap[cat[r]] # None THEN "ordinal" ELSE "upstream")
    /\ UNCHANGED <<shared, workers, sess, cat, culprit, copied, answer, shadow, history>>

Lookup(r) ==
    /\ pc[r] = "lookup"
    /\ Goto(r, IF Routable(snap[cat[r]]) THEN "ordinal" ELSE "upstream")
    /\ UNCHANGED <<shared, workers, sess, cat, culprit, copied, answer, shadow, history>>

ShouldShadow(r) ==
    /\ pc[r] = "ordinal"
    /\ ordinal' = ordinal + 1
    /\ Goto(r, IF ordinal \in ShadowOrdinals THEN "logshadow" ELSE "serve")
    /\ UNCHANGED <<routeOn, db, snap, broken, pending, decisions, workers,
                   sess, cat, culprit, copied, answer, shadow, history>>

\* The shadow decision is logged before the upstream call; when the INSERT
\* fails the request is an ordinary pass-through.
LogShadow(r) ==
    /\ pc[r] = "logshadow"
    /\ LogDecision(r, "shadow", cat[r])
    /\ shadow' = IF decisions' = decisions THEN shadow
                 ELSE [shadow EXCEPT ![r] = "logged"]
    /\ Goto(r, "upstream")
    /\ UNCHANGED <<routeOn, db, snap, broken, pending, ordinal, rounds,
                   sess, cat, culprit, copied, answer, history>>

\* ServeLocal, which may fail: then the request is passed through.
ServeLocal(r) ==
    /\ pc[r] = "serve"
    /\ Goto(r, "loglocal") \/ Goto(r, "upstream")
    /\ UNCHANGED <<shared, workers, sess, cat, culprit, copied, answer, shadow, history>>

LogLocal(r) ==
    /\ pc[r] = "loglocal"
    /\ LogDecision(r, "local", cat[r])
    /\ Goto(r, "record")
    /\ UNCHANGED <<routeOn, db, snap, broken, pending, ordinal, rounds,
                   sess, cat, culprit, copied, answer, shadow, history>>

\* Overwrites whatever turn was pending.
RecordServedLocally(r) ==
    /\ pc[r] = "record"
    /\ pending' = [pending EXCEPT ![sess[r]] = cat[r]]
    /\ Goto(r, "write")
    /\ UNCHANGED <<routeOn, db, snap, broken, ordinal, decisions, workers,
                   sess, cat, culprit, copied, answer, shadow, history>>

\* Mutant: an error while writing falls back to the frontier as well.
WriteLocalResponse_FallsBack(r) ==
    /\ pc[r] = "write"
    /\ \/ Finish(r, "local")
       \/ Goto(r, "upstream") /\ answer' = [answer EXCEPT ![r] = "local"]
    /\ unchecked' = [unchecked EXCEPT ![sess[r]] = cat[r]]
    /\ UNCHANGED <<shared, workers, sess, cat, culprit, copied, shadow,
                   bornBroken, qualified>>

WriteLocalResponse(r) ==
    /\ pc[r] = "write"
    /\ Finish(r, "local")
    /\ unchecked' = [unchecked EXCEPT ![sess[r]] = cat[r]]
    /\ UNCHANGED <<shared, workers, sess, cat, culprit, copied, shadow,
                   bornBroken, qualified>>

-----------------------------------------------------------------------------
\* Mutant: finishShadow is never called.
Upstream_ForgetsShadow(r) ==
    /\ pc[r] = "upstream"
    /\ Finish(r, "error") \/ Finish(r, "frontier")
    /\ UNCHANGED <<shared, workers, sess, cat, culprit, copied, shadow, history>>

\* The pass-through: a 502 when upstream cannot be reached, else the frontier
\* answer, after which finishShadow starts the comparison.
Upstream(r) ==
    /\ pc[r] = "upstream"
    /\ \/ /\ Finish(r, "error")
          /\ UNCHANGED shadow
       \/ /\ Finish(r, "frontier")
          /\ shadow' = IF shadow[r] = "logged" THEN [shadow EXCEPT ![r] = "running"]
                       ELSE shadow
    /\ UNCHANGED <<shared, workers, sess, cat, culprit, copied, history>>

\* DispatchShadow's goroutine: replay locally, compare, update the row's stats.
DispatchShadow(r) ==
    /\ shadow[r] = "running"
    /\ \/ /\ \E outcome \in {"agree", "disagree", "error"} :
                 shadow' = [shadow EXCEPT ![r] = outcome]
          /\ UNCHANGED faults
       \/ /\ StatementFails
          /\ shadow' = [shadow EXCEPT ![r] = "lost"]
    /\ UNCHANGED <<shared, rounds, pc, sess, cat, culprit, copied, answer, history>>

-----------------------------------------------------------------------------
\* RefreshSnapshot on the ticker: one SELECT, then one store of the pointer.
\* A failed SELECT changes nothing.
RefreshRead ==
    /\ fetched = None
    /\ fetched' = db
    /\ UNCHANGED <<shared, verdict, updates, restarts, faults, handler, history>>

\* Mutant: the new rows are merged into the old snapshot, disabled ones stay.
RefreshStore_KeepsDisabled ==
    /\ fetched # None
    /\ snap' = [c \in Cats |-> IF snap[c] = Disabled THEN Disabled ELSE fetched[c]]
    /\ fetched' = None
    /\ UNCHANGED <<routeOn, db, broken, pending, ordinal, decisions,
                   verdict, updates, restarts, faults, handler, history>>

RefreshStore ==
    /\ fetched # None
    /\ snap' = fetched
    /\ fetched' = None
    /\ UNCHANGED <<routeOn, db, broken, pending, ordinal, decisions,
                   verdict, updates, restarts, faults, handler, history>>

\* `router update` recomputes a row for every category that has evidence, from
\* the evidence alone; evidence is never deleted, so a category with a row has
\* some.  Its reason is that of a diverging version, or none.
UpdateRead ==
    /\ verdict = NoRows
    /\ updates < MaxUpdates
    /\ verdict' \in [Cats -> {row \in WrittenRow : row.reason # "escalation"} \cup {None}]
    /\ \A c \in Cats : verdict'[c] = None => db[c] = None
    /\ updates' = updates + 1
    /\ UNCHANGED <<shared, fetched, restarts, faults, handler, history>>

\* One upsert per category, in no particular order; each commits by itself.
UpsertRouterState(c) ==
    /\ verdict[c] # None
    /\ db' = [db EXCEPT ![c] = verdict[c]]
    /\ verdict' = [verdict EXCEPT ![c] = None]
    /\ qualified' = qualified \cup RoutableIn(db')
    /\ UNCHANGED <<routeOn, snap, broken, pending, ordinal, decisions,
                   fetched, updates, restarts, faults, handler, bornBroken, unchecked>>

\* A failed upsert abandons the rest.
UpdateAborted ==
    /\ StatementFails
    /\ verdict # NoRows
    /\ verdict' = NoRows
    /\ UNCHANGED <<shared, fetched, updates, restarts, handler, history>>

\* The proxy dies and is started again, possibly with another SPLITTER_ROUTE:
\* everything in memory is gone, requests in flight are cut off, and
\* NewLiveRouter and one RefreshSnapshot rebuild the snapshot.
Restart ==
    /\ restarts < MaxRestarts
    /\ restarts' = restarts + 1
    /\ routeOn' \in BOOLEAN
    /\ \/ snap' = db /\ UNCHANGED faults
       \/ snap' = NoRows /\ StatementFails
    /\ broken' = {}
    /\ pending' = [s \in Sessions |-> None]
    /\ ordinal' = 0
    /\ fetched' = None
    /\ pc' = [r \in Reqs |-> IF Open(r) THEN "done" ELSE pc[r]]
    /\ answer' = [r \in Reqs |-> IF Open(r) THEN "cut" ELSE answer[r]]
    /\ culprit' = [r \in Reqs |-> None]
    /\ copied' = [r \in Reqs |-> None]
    /\ shadow' = [r \in Reqs |-> IF shadow[r] = "running" THEN "lost" ELSE shadow[r]]
    /\ unchecked' = [s \in Sessions |-> None]
    /\ UNCHANGED <<db, decisions, verdict, updates, sess, cat, bornBroken, qualified>>

-----------------------------------------------------------------------------
Escalate(r) ==
    \/ TakePending(r) \/ TripBreaker(r) \/ DisableRouterState(r)
    \/ LoadSnapshot(r) \/ StoreSnapshot(r) \/ LogEscalated(r)

Decide(r) ==
    \/ SessionBroken(r) \/ Lookup(r) \/ ShouldShadow(r) \/ LogShadow(r)

Serve(r) ==
    \/ ServeLocal(r) \/ LogLocal(r) \/ RecordServedLocally(r) \/ WriteLocalResponse(r)

Handle(r) == Escalate(r) \/ Decide(r) \/ Serve(r) \/ Upstream(r)

Refresh == RefreshRead \/ RefreshStore
Update  == UpdateRead \/ UpdateAborted \/ \E c \in Cats : UpsertRouterState(c)

Next ==
    \/ \E r \in Reqs : Arrive(r) \/ Handle(r) \/ DispatchShadow(r)
    \/ Refresh
    \/ Update
    \/ Restart

Spec == Init /\ [][Next]_vars

(***************************************************************************)
(* A handler's steps are local computation, bounded SQL (busy_timeout) and *)
(* HTTP calls with a timeout or a connection that ends, so each handler is *)
(* weakly fair; a shadow replay has a five minute timeout; the ticker      *)
(* loops for the life of the process.  Clients, `router update` and        *)
(* restarts are under no obligation.                                       *)
(***************************************************************************)
Fairness ==
    /\ \A r \in Reqs : WF_vars(Handle(r)) /\ WF_vars(DispatchShadow(r))
    /\ WF_vars(RefreshRead)
    /\ WF_vars(RefreshStore)

FairSpec == Spec /\ Fairness

-----------------------------------------------------------------------------
TypeOK ==
    /\ routeOn \in BOOLEAN
    /\ db \in [Cats -> RowOrNone]
    /\ snap \in [Cats -> RowOrNone]
    /\ broken \subseteq Sessions
    /\ pending \in [Sessions -> Cats \cup {None}]
    /\ ordinal \in Nat
    /\ decisions \subseteq Reqs \X {"local", "shadow", "escalated"} \X Cats
    /\ fetched \in [Cats -> RowOrNone] \cup {None}
    /\ verdict \in [Cats -> RowOrNone]
    /\ updates \in 0..MaxUpdates
    /\ restarts \in 0..MaxRestarts
    /\ faults \in 0..MaxFaults
    /\ pc \in [Reqs -> Points]
    /\ sess \in [Reqs -> Sessions]
    /\ cat \in [Reqs -> Cats]
    /\ culprit \in [Reqs -> Cats \cup {None}]
    /\ copied \in [Reqs -> [Cats -> RowOrNone] \cup {None}]
    /\ answer \in [Reqs -> {"none", "local", "frontier", "error", "cut"}]
    /\ shadow \in [Reqs -> {"no", "logged", "running", "agree", "disagree", "error", "lost"}]
    /\ bornBroken \subseteq Reqs
    /\ unchecked \in [Sessions -> Cats \cup {None}]
    /\ qualified \subseteq Cats

\* A handler holds a category to disable, and a loaded snapshot, exactly while
\* it is between the steps that set and use them; it answers when it ends.
LocalsMatchPoint ==
    \A r \in Reqs :
        /\ culprit[r] # None <=> pc[r] \in {"trip", "disable", "load", "store", "escalated"}
        /\ IF pc[r] = "store" THEN copied[r] \in [Cats -> RowOrNone] ELSE copied[r] = None
        /\ answer[r] = "none" <=> pc[r] # "done"

\* SAFETY: a request that arrives after its session's breaker has tripped is
\* never served locally, whatever other requests of the session are doing
\* (routeDecision checks SessionBroken after its own escalation check).
BreakerHolds == \A r \in bornBroken : answer[r] # "local"

\* SAFETY: only a category that `router update` once judged routable is served
\* locally: no merge of snapshots, no disable and no restart invents one.
OnlyQualifiedServed == \A r \in Reqs : answer[r] = "local" => cat[r] \in qualified

\* SAFETY: when a client waits for each answer, a locally served turn is still
\* pending when the session's next request comes to be checked against it
\* (serveLocally records the turn before it writes the response).
LocalTurnAwaitsCheck ==
    \A s \in WaitingSessions : unchecked[s] # None => pending[s] = unchecked[s]

\* SAFETY: the audit trail agrees with what clients got.  A turn logged as
\* local was answered locally, one logged as shadow was not, and without SQL
\* failures every local answer was logged.
AuditMatchesAnswers ==
    \A r \in Reqs : pc[r] = "done" =>
        /\ <<r, "local", cat[r]>> \in decisions => answer[r] \in {"local", "cut"}
        /\ <<r, "shadow", cat[r]>> \in decisions => answer[r] # "local"
        /\ faults = 0 /\ answer[r] = "local" => <<r, "local", cat[r]>> \in decisions

Logged(s, c, decision) == {r \in Reqs : sess[r] = s /\ <<r, decision, c>> \in decisions}

\* SAFETY: an escalation is charged to a locally served turn of the same
\* session and category, and one turn is charged at most once, even when two
\* requests of the session look for it at the same time (TakePending).
EscalationsBacked ==
    faults = 0 => \A s \in Sessions, c \in Cats :
        Cardinality(Logged(s, c, "escalated")) <= Cardinality(Logged(s, c, "local"))

\* SAFETY: once an escalation is in the audit trail its category is disabled
\* in router_state, until `router update` writes the row again.
EscalationDisables ==
    faults = 0 /\ updates = 0 =>
        \A r \in Reqs, c \in Cats :
            <<r, "escalated", c>> \in decisions => ~Routable(db[c])

\* SAFETY: what is served locally was allowed to be, and the audit says so.
ServedSafely == OnlyQualifiedServed /\ BreakerHolds /\ AuditMatchesAnswers

\* SAFETY: a local turn waits for its check, is charged at most once, and its
\* category is disabled for it.
EscalationsStick == LocalTurnAwaitsCheck /\ EscalationsBacked /\ EscalationDisables

\* ACTION: a session that waits and whose breaker has tripped gets no local
\* answer any more, not even to a request that was already being handled:
\* "once tripped, a session stays on frontier" (SessionBroken).
SessionStaysFrontier ==
    [][\A r \in Reqs : /\ sess[r] \in WaitingSessions
                       /\ answer[r] # "local" /\ answer'[r] = "local"
                       => sess[r] \notin broken]_vars

\* LIVENESS: a dual-dispatched turn gets its comparison recorded, unless the
\* frontier never answered it or a restart or an SQL failure lost it.
DriftRecorded ==
    \A r \in Reqs : <<r, "shadow", cat[r]>> \in decisions ~>
        answer[r] \in {"error", "cut"} \/ shadow[r] \in {"agree", "disagree", "error", "lost"}

\* LIVENESS: whatever races left in the snapshot, it ends up agreeing with
\* router_state on what is routable once the rows stop changing.
SnapshotConverges == \A c \in Cats : <>[](Routable(snap[c]) <=> Routable(db[c]))

-----------------------------------------------------------------------------
\* REFINEMENT: seen from its clients, live routing is RoutedAnswers.  A request
\* has been asked when its handler has started; the breaker bars the session.
Answers == INSTANCE RoutedAnswers WITH
    asked <- {r \in Reqs : pc[r] # "unsent"}, barred <- broken, late <- bornBroken

ImplementsRoutedAnswers == Answers!Spec
=============================================================================
