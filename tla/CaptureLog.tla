----------------------------- MODULE CaptureLog -----------------------------
(***************************************************************************)
(* The proxy's forwarding path and its asynchronous call logger            *)
(* (internal/proxy: proxy.go, forward.go, capture.go, logger.go) together  *)
(* with the graceful shutdown of cmd_proxy.go.                             *)
(*                                                                         *)
(* Handler goroutines relay upstream responses and offer one capture       *)
(* record each to a bounded channel; one logger goroutine turns records    *)
(* into calls rows; the main goroutine waits for a signal, then for the    *)
(* handlers, then for the logger, each wait cut off by a timeout.          *)
(*                                                                         *)
(* A response body is a number of units, relayed in chunks of one or two.  *)
(* What routeDecision does is LiveRouting's; here it either answers        *)
(* locally, lets the request through, or panics.                           *)
(***************************************************************************)
EXTENDS Naturals, Sequences, FiniteSets

CONSTANTS
    Reqs,      \* requests
    QueueCap,  \* loggerBufSize
    BodyCap,   \* maxCaptureBytes, in units
    MaxBody,   \* bound: units in a response body
    None       \* no record being processed

ASSUME CapAssumption == QueueCap \in Nat \ {0} /\ BodyCap \in Nat /\ MaxBody \in Nat
ASSUME NoneAssumption == None \notin Reqs
ASSUME ReqsAssumption == IsFiniteSet(Reqs)

VARIABLES
    phase,     \* runProxy: serving, in Shutdown, in Close, or gone
    orderly,   \* history: no timeout and no listener failure cut the exit short
    pc,        \* where each request's handler is
    messages,  \* is it POST /v1/messages?
    answer,    \* what the client got
    heads,     \* response headers written to the client
    contacts,  \* requests made to upstream
    sent,      \* units relayed to the client
    kept,      \* units in its capBuffer
    truncated, \* capBuffer.truncated
    queue,     \* callLogger.ch
    closed,    \* the channel has been closed
    dropped,   \* callLogger.dropped
    current,   \* the record being processed
    drained,   \* callLogger.done is closed
    calls,     \* the calls rows inserted, in order
    lost       \* history: requests whose record was lost after relaying

server  == <<phase, orderly>>
handler == <<pc, messages, answer, heads, contacts, sent, kept, truncated>>
channel == <<queue, closed, dropped>>
logger  == <<current, drained, calls>>
vars == <<server, handler, channel, logger, lost>>

Running == phase # "exited"
Busy(r) == pc[r] \notin {"unsent", "done"}
Smaller(a, b) == IF a <= b THEN a ELSE b

Init ==
    /\ phase = "serving"
    /\ orderly = TRUE
    /\ pc = [r \in Reqs |-> "unsent"]
    /\ messages \in [Reqs -> BOOLEAN]
    /\ answer = [r \in Reqs |-> "none"]
    /\ heads = [r \in Reqs |-> 0]
    /\ contacts = [r \in Reqs |-> 0]
    /\ sent = [r \in Reqs |-> 0]
    /\ kept = [r \in Reqs |-> 0]
    /\ truncated = [r \in Reqs |-> FALSE]
    /\ queue = <<>>
    /\ closed = FALSE
    /\ dropped = 0
    /\ current = None
    /\ drained = FALSE
    /\ calls = <<>>
    /\ lost = {}

-----------------------------------------------------------------------------
Goto(r, point) == pc' = [pc EXCEPT ![r] = point]

\* The handler writes a complete response of its own and returns.
Reply(r, how) ==
    /\ Goto(r, "done")
    /\ answer' = [answer EXCEPT ![r] = how]
    /\ heads' = [heads EXCEPT ![r] = @ + 1]

\* ServeHTTP reads the request body first; an unreadable one is a 400.
Arrive(r) ==
    /\ Running
    /\ pc[r] = "unsent"
    /\ phase = "serving"
    /\ \/ /\ Goto(r, IF messages[r] THEN "route" ELSE "plain")
          /\ UNCHANGED <<answer, heads>>
       \/ Reply(r, "refused")
    /\ UNCHANGED <<server, messages, contacts, sent, kept, truncated, channel, logger, lost>>

\* Session id and routeDecision: answered locally, or on to upstream.
Route(r) ==
    /\ Running
    /\ pc[r] = "route"
    /\ \/ Reply(r, "local")
       \/ Goto(r, "forward") /\ UNCHANGED <<answer, heads>>
    /\ UNCHANGED <<server, messages, contacts, sent, kept, truncated, channel, logger, lost>>

\* Mutant: the recovery forwards whatever has been written already.
Panic_AlwaysForwards(r) ==
    /\ Running
    /\ pc[r] \in {"route", "offer"}
    /\ Goto(r, "plain")
    /\ UNCHANGED <<server, messages, answer, heads, contacts, sent, kept, truncated, lost,
                   channel, logger>>

\* ServeHTTP recovers a panic in routing, or in finishing the capture, and
\* forwards plainly only when nothing has been written to the client.
Panic(r) ==
    /\ Running
    /\ pc[r] \in {"route", "offer"}
    /\ IF heads[r] = 0 THEN Goto(r, "plain") /\ UNCHANGED lost
                       ELSE Goto(r, "done") /\ lost' = lost \cup {r}
    /\ UNCHANGED <<server, messages, answer, heads, contacts, sent, kept, truncated,
                   channel, logger>>

\* The round trip to upstream, from handleCaptured or from plainForward: a 502
\* of our own, or the upstream's status line followed by its body.
Forward(r) ==
    /\ Running
    /\ pc[r] \in {"forward", "plain"}
    /\ contacts' = [contacts EXCEPT ![r] = @ + 1]
    /\ \/ Reply(r, "unreachable")
       \/ /\ heads' = [heads EXCEPT ![r] = @ + 1]
          /\ Goto(r, IF pc[r] = "forward" THEN "relay" ELSE "pipe")
          /\ UNCHANGED answer
    /\ UNCHANGED <<server, messages, sent, kept, truncated, channel, logger, lost>>

\* capBuffer.Write: fill up to the cap, mark truncated when n does not fit,
\* and take nothing more from then on.
Capture(r, n) ==
    LET remaining == BodyCap - kept[r]
    IN  IF truncated[r] THEN UNCHANGED <<kept, truncated>>
        ELSE /\ kept' = [kept EXCEPT ![r] = @ + Smaller(n, remaining)]
             /\ truncated' = [truncated EXCEPT ![r] = n > remaining]

\* relayBody copies one chunk to the client and tees it into the capture.
RelayChunk(r) ==
    /\ Running
    /\ pc[r] \in {"relay", "pipe"}
    /\ \E n \in 1..2 :
          /\ sent[r] + n <= MaxBody
          /\ sent' = [sent EXCEPT ![r] = @ + n]
          /\ IF pc[r] = "relay" THEN Capture(r, n) ELSE UNCHANGED <<kept, truncated>>
    /\ UNCHANGED <<server, pc, messages, answer, heads, contacts, channel, logger, lost>>

\* The body ends, completely or not: relayBody does not tell.
RelayEnd(r) ==
    /\ Running
    /\ pc[r] \in {"relay", "pipe"}
    /\ Goto(r, IF pc[r] = "relay" THEN "offer" ELSE "done")
    /\ answer' = [answer EXCEPT ![r] = IF pc[r] = "relay" THEN "relayed" ELSE "piped"]
    /\ UNCHANGED <<server, messages, heads, contacts, sent, kept, truncated,
                   channel, logger, lost>>

\* Mutant: a handler waits for room in the channel.
Enqueue_Blocks(r) ==
    /\ Running
    /\ pc[r] = "offer"
    /\ ~closed /\ Len(queue) < QueueCap
    /\ queue' = Append(queue, r)
    /\ Goto(r, "done")
    /\ UNCHANGED <<server, messages, answer, heads, contacts, sent, kept, truncated,
                   closed, dropped, logger, lost>>

\* Mutant: a record that finds the channel full is not counted.
Enqueue_DropsSilently(r) ==
    /\ Running
    /\ pc[r] = "offer"
    /\ ~closed
    /\ queue' = IF Len(queue) < QueueCap THEN Append(queue, r) ELSE queue
    /\ Goto(r, "done")
    /\ UNCHANGED <<server, messages, answer, heads, contacts, sent, kept, truncated,
                   closed, dropped, logger, lost>>

\* enqueue: a select with a default never waits.  A send on a closed channel
\* panics; ServeHTTP recovers, and the record is lost without being counted.
Enqueue(r) ==
    /\ Running
    /\ pc[r] = "offer"
    /\ Goto(r, "done")
    /\ \/ /\ closed
          /\ lost' = lost \cup {r}
          /\ UNCHANGED <<queue, dropped>>
       \/ /\ ~closed /\ Len(queue) < QueueCap
          /\ queue' = Append(queue, r)
          /\ UNCHANGED <<dropped, lost>>
       \/ /\ ~closed /\ Len(queue) = QueueCap
          /\ dropped' = dropped + 1
          /\ UNCHANGED <<queue, lost>>
    /\ UNCHANGED <<server, messages, answer, heads, contacts, sent, kept, truncated,
                   closed, logger>>

-----------------------------------------------------------------------------
\* The logger's loop: take a record, turn it into a row, until the channel is
\* closed and empty.
Take ==
    /\ Running
    /\ current = None /\ queue # <<>>
    /\ current' = Head(queue)
    /\ queue' = Tail(queue)
    /\ UNCHANGED <<server, handler, closed, dropped, drained, calls, lost>>

\* process: any error, or a recovered panic, costs this record and no other.
Process ==
    /\ Running
    /\ current # None
    /\ current' = None
    /\ \/ calls' = Append(calls, current) /\ UNCHANGED lost
       \/ lost' = lost \cup {current} /\ UNCHANGED calls
    /\ UNCHANGED <<server, handler, channel, drained>>

LoggerEnds ==
    /\ Running
    /\ closed /\ queue = <<>> /\ current = None
    /\ ~drained
    /\ drained' = TRUE
    /\ UNCHANGED <<server, handler, channel, current, calls, lost>>

-----------------------------------------------------------------------------
\* SIGINT or SIGTERM: httpSrv.Shutdown stops accepting requests.
Signal ==
    /\ phase = "serving"
    /\ phase' = "shutdown"
    /\ UNCHANGED <<orderly, handler, channel, logger, lost>>

\* A listener that fails ends the process on the spot, nothing is drained.
ListenerFails ==
    /\ phase = "serving"
    /\ phase' = "exited"
    /\ orderly' = FALSE
    /\ UNCHANGED <<handler, channel, logger, lost>>

\* Shutdown returns when no handler is running, or after five seconds; Close
\* then closes the channel.
ShutdownReturns ==
    /\ phase = "shutdown"
    /\ phase' = "closing"
    /\ closed' = TRUE
    /\ orderly' = (orderly /\ \A r \in Reqs : ~Busy(r))
    /\ UNCHANGED <<handler, queue, dropped, logger, lost>>

\* Mutant: Close waits for the logger however long it takes.
CloseReturns_WhenDrained ==
    /\ phase = "closing"
    /\ drained
    /\ phase' = "exited"
    /\ UNCHANGED <<orderly, handler, channel, logger, lost>>

\* Close returns when the logger is done, or after five seconds more; then
\* runProxy returns and the process is gone.
CloseReturns ==
    /\ phase = "closing"
    /\ phase' = "exited"
    /\ orderly' = (orderly /\ drained)
    /\ UNCHANGED <<handler, channel, logger, lost>>

-----------------------------------------------------------------------------
Handle(r) ==
    Route(r) \/ Forward(r) \/ RelayChunk(r) \/ RelayEnd(r) \/ Enqueue(r)
Logger == Take \/ Process \/ LoggerEnds
Stop   == ShutdownReturns \/ CloseReturns

Next ==
    \/ \E r \in Reqs : Arrive(r) \/ Handle(r) \/ Panic(r)
    \/ Logger
    \/ Stop
    \/ Signal
    \/ ListenerFails

Spec == Init /\ [][Next]_vars

(***************************************************************************)
(* Handlers run, and do not count on a panic to get on; both waits of the  *)
(* shutdown end by their timeouts.  The logger is under no obligation: its *)
(* database may hang.                                                      *)
(***************************************************************************)
FairSpec == Spec /\ WF_vars(Stop) /\ \A r \in Reqs : WF_vars(Handle(r))

-----------------------------------------------------------------------------
HandlerTypes ==
    /\ pc \in [Reqs -> {"unsent", "route", "forward", "plain", "relay", "pipe", "offer", "done"}]
    /\ messages \in [Reqs -> BOOLEAN]
    /\ answer \in [Reqs -> {"none", "refused", "local", "unreachable", "relayed", "piped"}]
    /\ heads \in [Reqs -> Nat]
    /\ contacts \in [Reqs -> Nat]
    /\ sent \in [Reqs -> 0..MaxBody]
    /\ kept \in [Reqs -> 0..BodyCap]
    /\ truncated \in [Reqs -> BOOLEAN]

LoggerTypes ==
    /\ queue \in Seq(Reqs) /\ Len(queue) <= QueueCap
    /\ current \in Reqs \cup {None}
    /\ drained \in BOOLEAN
    /\ calls \in Seq(Reqs)

TypeOK ==
    /\ phase \in {"serving", "shutdown", "closing", "exited"}
    /\ orderly \in BOOLEAN
    /\ HandlerTypes
    /\ LoggerTypes
    /\ closed \in BOOLEAN
    /\ dropped \in Nat
    /\ lost \subseteq Reqs

\* SAFETY: fail-open never answers twice: whatever panics, a client gets one
\* response and upstream one request (trackingWriter, ServeHTTP's recovery).
AnsweredOnce == \A r \in Reqs : heads[r] <= 1 /\ contacts[r] <= 1

\* SAFETY: what is logged of a body is its first units, all of them or the cap,
\* and it is marked truncated exactly when the body was longer (capBuffer).
CaptureIsPrefix ==
    \A r \in Reqs : pc[r] = "offer" =>
        /\ kept[r] = Smaller(sent[r], BodyCap)
        /\ truncated[r] <=> sent[r] > BodyCap

\* Requests relayed and through enqueue.
Offered == {r \in Reqs : answer[r] = "relayed" /\ pc[r] = "done"}
InProcess == IF current = None THEN 0 ELSE 1

\* SAFETY: no record of a relayed request vanishes uncounted: there are as many
\* as rows, records in the channel and in the logger's hands, drops counted, and
\* losses to an error or panic (enqueue, process).
RecordsAccountedFor ==
    Cardinality(Offered) =
        Len(calls) + Len(queue) + InProcess + dropped + Cardinality(lost)

\* SAFETY: a shutdown in which no timeout expired leaves nothing behind: every
\* record that was accepted has been processed.
OrderlyExitDrains ==
    ~Running /\ orderly => queue = <<>> /\ current = None /\ \A r \in Reqs : ~Busy(r)

\* SAFETY: whatever panics, one answer, and a capture that is its beginning.
AnsweredAsCaptured == AnsweredOnce /\ CaptureIsPrefix

\* SAFETY: no record vanishes uncounted, and none at all in an orderly exit.
RecordsKept == RecordsAccountedFor /\ OrderlyExitDrains

\* LIVENESS: every request is answered, or the process exits, even if the
\* logger never takes another record: logging never blocks the request path.
AnsweredWithoutLogger == \A r \in Reqs : Busy(r) ~> pc[r] = "done" \/ ~Running

\* LIVENESS: a signal ends the process although handlers and logger may hang.
SignalEndsProcess == phase = "shutdown" ~> ~Running
=============================================================================
