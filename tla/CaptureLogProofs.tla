-------------------------- MODULE CaptureLogProofs --------------------------
(***************************************************************************)
(* Theorems about CaptureLog, for every finite set of requests, every      *)
(* queue capacity, capture cap and body length; and, from "Feeding events"  *)
(* on, about LocalAnswer: the stream the proxy relays, captures and has    *)
(* assembled, for every set of messages and of completions, every cap and  *)
(* every policy of retries.                                                *)
(***************************************************************************)
EXTENDS CaptureLog, LocalAnswer, FiniteSetTheorems, SequenceTheorems, WellFoundedInduction, TLAPS

USE DEF server, handler, channel, logger, vars, Goto, Reply, Running, Busy

\* Every variable stays in its type; in particular the capture buffer never
\* holds more than its cap and the channel never more than its capacity.
THEOREM Typing == Spec => []TypeOK
<1>1. Init => TypeOK
  <2> SUFFICES ASSUME Init PROVE TypeOK
    OBVIOUS
  <2>1. HandlerTypes
    BY CapAssumption DEF Init, HandlerTypes
  <2>2. LoggerTypes
    <3>1. queue = <<>> /\ calls = <<>> /\ current = None /\ drained = FALSE
      BY DEF Init
    <3>2. queue \in Seq(Reqs) /\ Len(queue) = 0
      BY <3>1, EmptySeq
    <3>3. calls \in Seq(Reqs)
      BY <3>1, EmptySeq
    <3>4. Len(queue) <= QueueCap
      BY <3>2, CapAssumption
    <3>5. current \in Reqs \cup {None} /\ drained \in BOOLEAN
      BY <3>1
    <3> QED BY <3>2, <3>3, <3>4, <3>5 DEF LoggerTypes
  <2> QED BY <2>1, <2>2 DEF Init, TypeOK
<1>2. TypeOK /\ [Next]_vars => TypeOK'
  <2> SUFFICES ASSUME TypeOK, [Next]_vars PROVE TypeOK'
    OBVIOUS
  <2> USE DEF TypeOK
  <2>1. UNCHANGED <<pc, messages, answer, heads, contacts, sent, kept, truncated>>
           => HandlerTypes'
    BY DEF HandlerTypes
  <2>2. UNCHANGED <<queue, current, drained, calls>> => LoggerTypes'
    BY DEF LoggerTypes
  <2>3. ASSUME NEW r \in Reqs, Arrive(r) PROVE TypeOK'
    <3>1. HandlerTypes'
      BY <2>3 DEF Arrive, HandlerTypes
    <3> QED BY <2>2, <2>3, <3>1 DEF Arrive
  <2>4. ASSUME NEW r \in Reqs, Route(r) PROVE TypeOK'
    <3>1. HandlerTypes'
      BY <2>4 DEF Route, HandlerTypes
    <3> QED BY <2>2, <2>4, <3>1 DEF Route
  <2>5. ASSUME NEW r \in Reqs, Panic(r) PROVE TypeOK'
    <3>1. HandlerTypes'
      BY <2>5 DEF Panic, HandlerTypes
    <3> QED BY <2>2, <2>5, <3>1 DEF Panic
  <2>6. ASSUME NEW r \in Reqs, Forward(r) PROVE TypeOK'
    <3>1. HandlerTypes'
      BY <2>6 DEF Forward, HandlerTypes
    <3> QED BY <2>2, <2>6, <3>1 DEF Forward
  <2>7. ASSUME NEW r \in Reqs, RelayChunk(r) PROVE TypeOK'
    <3>1. PICK n \in 1..2 :
             /\ sent[r] + n <= MaxBody
             /\ sent' = [sent EXCEPT ![r] = @ + n]
             /\ IF pc[r] = "relay" THEN Capture(r, n) ELSE UNCHANGED <<kept, truncated>>
      BY <2>7 DEF RelayChunk
    <3>2. sent' \in [Reqs -> 0..MaxBody]
      BY <3>1, CapAssumption DEF HandlerTypes
    <3>3. kept[r] + Smaller(n, BodyCap - kept[r]) \in 0..BodyCap
      BY CapAssumption DEF Smaller, HandlerTypes
    <3>4. kept' \in [Reqs -> 0..BodyCap] /\ truncated' \in [Reqs -> BOOLEAN]
      <4>1. CASE UNCHANGED <<kept, truncated>>
        BY <4>1 DEF HandlerTypes
      <4>2. CASE Capture(r, n) /\ ~truncated[r]
        <5>1. kept' = [kept EXCEPT ![r] = kept[r] + Smaller(n, BodyCap - kept[r])]
          BY <4>2 DEF Capture
        <5>2. kept' \in [Reqs -> 0..BodyCap]
          BY <3>3, <5>1 DEF HandlerTypes
        <5>3. truncated' = [truncated EXCEPT ![r] = (n > BodyCap - kept[r])]
          BY <4>2 DEF Capture
        <5>4. (n > BodyCap - kept[r]) \in BOOLEAN
          OBVIOUS
        <5>5. truncated' \in [Reqs -> BOOLEAN]
          BY <5>3, <5>4 DEF HandlerTypes
        <5> QED BY <5>2, <5>5
      <4> QED BY <3>1, <4>1, <4>2 DEF Capture
    <3>5. HandlerTypes'
      BY <2>7, <3>2, <3>4 DEF RelayChunk, HandlerTypes
    <3> QED BY <2>2, <2>7, <3>5 DEF RelayChunk
  <2>8. ASSUME NEW r \in Reqs, RelayEnd(r) PROVE TypeOK'
    <3>1. HandlerTypes'
      BY <2>8 DEF RelayEnd, HandlerTypes
    <3> QED BY <2>2, <2>8, <3>1 DEF RelayEnd
  <2>9. ASSUME NEW r \in Reqs, Enqueue(r) PROVE TypeOK'
    <3>1. HandlerTypes'
      BY <2>9 DEF Enqueue, HandlerTypes
    <3>2. LoggerTypes'
      BY <2>9, CapAssumption DEF Enqueue, LoggerTypes
    <3> QED BY <2>9, <3>1, <3>2 DEF Enqueue
  <2>10. CASE Take
    <3>1. LoggerTypes'
      BY <2>10, CapAssumption DEF Take, LoggerTypes
    <3> QED BY <2>1, <2>10, <3>1 DEF Take
  <2>11. CASE Process
    <3>1. LoggerTypes'
      BY <2>11 DEF Process, LoggerTypes
    <3>2. lost' \subseteq Reqs
      BY <2>11 DEF Process, LoggerTypes
    <3> QED BY <2>1, <2>11, <3>1, <3>2 DEF Process
  <2>12. CASE LoggerEnds
    <3>1. LoggerTypes'
      BY <2>12 DEF LoggerEnds, LoggerTypes
    <3> QED BY <2>1, <2>12, <3>1 DEF LoggerEnds
  <2>13. CASE Stop \/ Signal \/ ListenerFails
    BY <2>1, <2>2, <2>13 DEF Stop, ShutdownReturns, CloseReturns, Signal, ListenerFails
  <2>14. CASE UNCHANGED vars
    BY <2>1, <2>2, <2>14
  <2> QED BY <2>3, <2>4, <2>5, <2>6, <2>7, <2>8, <2>9, <2>10, <2>11, <2>12, <2>13, <2>14
          DEF Next, Handle, Logger
<1> QED BY <1>1, <1>2, PTL DEF Spec

-----------------------------------------------------------------------------
\* Until the round trip to upstream a handler has written nothing, asked
\* nothing and captured nothing; while it relays, the capture is a prefix.
BeforeUpstream == {"unsent", "route", "forward", "plain"}
RelayInv ==
    \A r \in Reqs :
        /\ heads[r] <= 1 /\ contacts[r] <= 1
        /\ pc[r] \in BeforeUpstream =>
              heads[r] = 0 /\ contacts[r] = 0 /\ sent[r] = 0 /\ kept[r] = 0 /\ ~truncated[r]
        /\ pc[r] \in {"relay", "offer"} =>
              /\ heads[r] = 1
              /\ kept[r] = Smaller(sent[r], BodyCap)
              /\ truncated[r] <=> sent[r] > BodyCap

LEMMA RelayInvHolds == Spec => []RelayInv
<1>1. Init => RelayInv
  BY DEF Init, RelayInv
<1>2. TypeOK /\ RelayInv /\ [Next]_vars => RelayInv'
  <2> SUFFICES ASSUME TypeOK, RelayInv, [Next]_vars PROVE RelayInv'
    OBVIOUS
  <2> USE CapAssumption DEF TypeOK, HandlerTypes, RelayInv, BeforeUpstream
  <2>1. ASSUME NEW r \in Reqs, Arrive(r) PROVE RelayInv'
    BY <2>1 DEF Arrive
  <2>2. ASSUME NEW r \in Reqs, Route(r) PROVE RelayInv'
    BY <2>2 DEF Route
  <2>3. ASSUME NEW r \in Reqs, Panic(r) PROVE RelayInv'
    BY <2>3 DEF Panic
  <2>4. ASSUME NEW r \in Reqs, Forward(r) PROVE RelayInv'
    BY <2>4 DEF Forward, Smaller
  <2>5. ASSUME NEW r \in Reqs, RelayChunk(r) PROVE RelayInv'
    <3>1. PICK n \in 1..2 :
             /\ sent' = [sent EXCEPT ![r] = @ + n]
             /\ IF pc[r] = "relay" THEN Capture(r, n) ELSE UNCHANGED <<kept, truncated>>
      BY <2>5 DEF RelayChunk
    <3>2. UNCHANGED <<pc, heads, contacts>> /\ pc[r] \in {"relay", "pipe"}
      BY <2>5 DEF RelayChunk
    <3>3. \A q \in Reqs : q # r =>
             sent'[q] = sent[q] /\ kept'[q] = kept[q] /\ truncated'[q] = truncated[q]
      BY <3>1 DEF Capture
    <3>4. CASE pc[r] = "relay"
      <4>1. sent[r] \in Nat /\ kept[r] \in Nat /\ n \in Nat \ {0} /\ sent'[r] = sent[r] + n
        BY <3>1
      <4>2. Capture(r, n)
        BY <3>1, <3>4
      <4>3. kept[r] = Smaller(sent[r], BodyCap) /\ (truncated[r] <=> sent[r] > BodyCap)
        BY <3>4
      <4> DEFINE Right == /\ kept'[r] = Smaller(sent'[r], BodyCap)
                          /\ truncated'[r] <=> sent'[r] > BodyCap
      <4>4. ASSUME truncated[r] PROVE Right
        <5>1. sent[r] > BodyCap /\ sent'[r] > BodyCap /\ kept'[r] = kept[r] /\ truncated'[r]
          BY <4>1, <4>2, <4>3, <4>4 DEF Capture
        <5> QED BY <4>1, <4>3, <5>1 DEF Smaller
      <4>5. ASSUME ~truncated[r] PROVE Right
        <5>1. kept'[r] = kept[r] + Smaller(n, BodyCap - kept[r])
          BY <4>2, <4>5 DEF Capture
        <5>2. truncated'[r] <=> n > BodyCap - kept[r]
          BY <4>2, <4>5 DEF Capture
        <5>3. sent[r] <= BodyCap /\ kept[r] = sent[r]
          BY <4>1, <4>3, <4>5 DEF Smaller
        <5>4. truncated'[r] <=> sent[r] + n > BodyCap
          BY <4>1, <5>2, <5>3
        <5>5. kept'[r] = Smaller(sent[r] + n, BodyCap)
          BY <4>1, <5>1, <5>3 DEF Smaller
        <5> QED BY <4>1, <5>4, <5>5
      <4>6. heads'[r] = 1 /\ contacts'[r] <= 1 /\ pc'[r] = "relay"
        BY <3>2, <3>4
      <4>7. heads' = heads /\ contacts' = contacts /\ pc' = pc
        BY <3>2
      <4> QED BY <3>3, <4>4, <4>5, <4>6, <4>7
    <3>5. CASE pc[r] = "pipe"
      BY <3>2, <3>3, <3>5
    <3> QED BY <3>2, <3>4, <3>5
  <2>6. ASSUME NEW r \in Reqs, RelayEnd(r) PROVE RelayInv'
    BY <2>6 DEF RelayEnd
  <2>7. ASSUME NEW r \in Reqs, Enqueue(r) PROVE RelayInv'
    BY <2>7 DEF Enqueue
  <2>8. CASE Logger \/ Stop \/ Signal \/ ListenerFails
    BY <2>8 DEF Logger, Take, Process, LoggerEnds, Stop, ShutdownReturns, CloseReturns,
                Signal, ListenerFails
  <2>9. CASE UNCHANGED vars
    BY <2>9
  <2> QED BY <2>1, <2>2, <2>3, <2>4, <2>5, <2>6, <2>7, <2>8, <2>9 DEF Next, Handle
<1> QED BY <1>1, <1>2, Typing, PTL DEF Spec

\* Whatever panics, a client gets one response and upstream one request
\* (ServeHTTP recovers and forwards only when nothing has been written).
THEOREM Once == Spec => []AnsweredOnce
<1>1. RelayInv => AnsweredOnce
  BY DEF RelayInv, AnsweredOnce
<1> QED BY <1>1, RelayInvHolds, PTL

\* What is handed to the logger is the first units of the body, at most the
\* cap, and marked truncated exactly when something is missing (capBuffer).
THEOREM Prefix == Spec => []CaptureIsPrefix
<1>1. RelayInv => CaptureIsPrefix
  BY DEF RelayInv, CaptureIsPrefix
<1> QED BY <1>1, RelayInvHolds, PTL

-----------------------------------------------------------------------------
\* An orderly process closes its channel after the last handler and exits
\* after the logger has found the channel closed and empty.
DrainInv ==
    /\ closed => phase \in {"closing", "exited"}
    /\ closed /\ orderly => \A r \in Reqs : ~Busy(r)
    /\ drained => closed /\ queue = <<>> /\ current = None
    /\ ~Running /\ orderly => drained

\* An exit in which no timeout expired leaves no accepted record behind
\* (runProxy waits for the handlers, then for the logger).
THEOREM Drains == Spec => []OrderlyExitDrains
<1>1. Init => DrainInv
  BY DEF Init, DrainInv
<1>2. TypeOK /\ DrainInv /\ [Next]_vars => DrainInv'
  <2> SUFFICES ASSUME TypeOK, DrainInv, [Next]_vars PROVE DrainInv'
    OBVIOUS
  <2> USE DEF TypeOK, HandlerTypes, DrainInv
  <2>1. ASSUME NEW r \in Reqs, Arrive(r) PROVE DrainInv'
    BY <2>1 DEF Arrive
  <2>2. ASSUME NEW r \in Reqs, Route(r) \/ Panic(r) \/ Forward(r) PROVE DrainInv'
    BY <2>2 DEF Route, Panic, Forward
  <2>3. ASSUME NEW r \in Reqs, RelayChunk(r) \/ RelayEnd(r) PROVE DrainInv'
    BY <2>3 DEF RelayChunk, RelayEnd
  <2>4. ASSUME NEW r \in Reqs, Enqueue(r) PROVE DrainInv'
    BY <2>4 DEF Enqueue
  <2>5. CASE Logger
    BY <2>5 DEF Logger, Take, Process, LoggerEnds
  <2>6. CASE Stop
    <3>1. CASE ShutdownReturns
      <4>1. closed' /\ phase' = "closing" /\ UNCHANGED <<pc, drained, queue, current>>
        BY <3>1 DEF ShutdownReturns
      <4>2. orderly' => \A r \in Reqs : ~Busy(r)
        BY <3>1 DEF ShutdownReturns
      <4> QED BY <4>1, <4>2
    <3>2. CASE CloseReturns
      <4>1. phase' = "exited" /\ UNCHANGED <<pc, closed, drained, queue, current>>
        BY <3>2 DEF CloseReturns
      <4>2. orderly' => orderly /\ drained
        BY <3>2 DEF CloseReturns
      <4> QED BY <4>1, <4>2
    <3> QED BY <2>6, <3>1, <3>2 DEF Stop
  <2>7. CASE Signal \/ ListenerFails
    BY <2>7 DEF Signal, ListenerFails
  <2>8. CASE UNCHANGED vars
    BY <2>8
  <2> QED BY <2>1, <2>2, <2>3, <2>4, <2>5, <2>6, <2>7, <2>8 DEF Next, Handle
<1>3. DrainInv => OrderlyExitDrains
  BY DEF DrainInv, OrderlyExitDrains
<1> QED BY <1>1, <1>2, <1>3, Typing, PTL DEF Spec

-----------------------------------------------------------------------------
\* A record in flight belongs to a relayed request and is in flight once; what
\* has been lost is not in flight.
Waiting == {queue[i] : i \in DOMAIN queue}
FlightInv ==
    /\ \A r \in Reqs : pc[r] = "offer" => answer[r] = "relayed"
    /\ lost \subseteq Offered
    /\ Waiting \subseteq Offered \ lost
    /\ \A i, j \in DOMAIN queue : queue[i] = queue[j] => i = j
    /\ current # None => current \in Offered \ (lost \cup Waiting)

\* What happens to one relayed request at its last step: its record enters the
\* channel, is counted as dropped, or is lost, and nothing else changes.
Leaves(r) ==
    /\ r \notin Offered /\ Offered' = Offered \cup {r}
    /\ \A q \in Reqs : pc'[q] = "offer" => answer'[q] = "relayed"
    /\ UNCHANGED <<current, calls>>
    /\ \/ queue' = Append(queue, r) /\ UNCHANGED <<dropped, lost>>
       \/ dropped' = dropped + 1 /\ UNCHANGED <<queue, lost>>
       \/ lost' = lost \cup {r} /\ UNCHANGED <<queue, dropped>>

LEMMA OneStepOfAHandler ==
    ASSUME TypeOK, RelayInv, FlightInv, NEW r \in Reqs, Arrive(r) \/ Handle(r) \/ Panic(r)
    PROVE  \/ Leaves(r)
           \/ /\ Offered' = Offered
              /\ \A q \in Reqs : pc'[q] = "offer" => answer'[q] = "relayed"
              /\ UNCHANGED <<current, calls, queue, dropped, lost>>
<1> USE DEF TypeOK, HandlerTypes, FlightInv, Offered
<1>1. CASE Arrive(r) \/ Route(r) \/ Forward(r) \/ RelayChunk(r)
  BY <1>1 DEF Arrive, Route, Forward, RelayChunk
<1>2. CASE RelayEnd(r)
  BY <1>2 DEF RelayEnd
<1>3. CASE Panic(r)
  <2>1. CASE heads[r] = 0
    BY <1>3, <2>1 DEF Panic
  <2>2. CASE heads[r] # 0
    <3>1. pc[r] = "offer" /\ answer[r] = "relayed"
      BY <1>3, <2>2 DEF Panic, RelayInv, BeforeUpstream
    <3> QED BY <1>3, <2>2, <3>1 DEF Panic, Leaves
  <2> QED BY <2>1, <2>2
<1>4. CASE Enqueue(r)
  <2>1. pc[r] = "offer" /\ answer[r] = "relayed"
    BY <1>4 DEF Enqueue
  <2> QED BY <1>4, <2>1 DEF Enqueue, Leaves
<1> QED BY <1>1, <1>2, <1>3, <1>4 DEF Handle

\* Every finite set of requests: no record vanishes uncounted, whatever the
\* interleaving of handlers, logger and shutdown (enqueue, process).
THEOREM Accounting == Spec => []RecordsAccountedFor
<1> DEFINE Inv == FlightInv /\ RecordsAccountedFor
<1>1. Init => Inv
  <2> SUFFICES ASSUME Init PROVE Inv
    OBVIOUS
  <2>1. Offered = {} /\ lost = {} /\ current = None /\ dropped = 0
    BY DEF Init, Offered
  <2>2. queue = <<>> /\ calls = <<>> /\ Len(queue) = 0 /\ Len(calls) = 0
    BY EmptySeq DEF Init
  <2>3. FlightInv
    BY <2>1, <2>2 DEF Init, FlightInv, Waiting
  <2> QED BY <2>1, <2>2, <2>3, FS_EmptySet DEF RecordsAccountedFor, InProcess
<1>2. TypeOK /\ RelayInv /\ Inv /\ [Next]_vars => Inv'
  <2> SUFFICES ASSUME TypeOK, RelayInv, FlightInv, RecordsAccountedFor, [Next]_vars
               PROVE  Inv'
    OBVIOUS
  <2> USE DEF TypeOK, LoggerTypes
  <2>1. /\ IsFiniteSet(Offered) /\ IsFiniteSet(lost)
        /\ Cardinality(Offered) \in Nat /\ Cardinality(lost) \in Nat
        /\ Len(queue) \in Nat /\ Len(calls) \in Nat /\ InProcess \in Nat
    <3>1. Offered \subseteq Reqs
      BY DEF Offered
    <3>2. IsFiniteSet(Offered) /\ IsFiniteSet(lost)
      BY <3>1, ReqsAssumption, FS_Subset
    <3> QED BY <3>2, FS_CardinalityType DEF InProcess
  <2>2. CASE UNCHANGED <<Offered, current, calls, queue, dropped, lost>>
             /\ (\A q \in Reqs : pc'[q] = "offer" => answer'[q] = "relayed")
    BY <2>2 DEF FlightInv, RecordsAccountedFor, Waiting, InProcess
  <2>3. ASSUME NEW r \in Reqs, Leaves(r) PROVE Inv'
    <3> USE <2>3 DEF Leaves
    <3>1. Cardinality(Offered') = Cardinality(Offered) + 1
      BY <2>1, FS_AddElement
    <3>2. r \notin lost /\ r \notin Waiting /\ InProcess' = InProcess
      BY DEF FlightInv, InProcess
    <3>3. CASE queue' = Append(queue, r) /\ UNCHANGED <<dropped, lost>>
      <4>1. /\ Len(queue') = Len(queue) + 1
            /\ DOMAIN queue' = 1..(Len(queue) + 1) /\ DOMAIN queue = 1..Len(queue)
            /\ queue'[Len(queue) + 1] = r
            /\ \A i \in DOMAIN queue : queue'[i] = queue[i]
        BY <3>3
      <4>2. Waiting' = Waiting \cup {r}
        BY <2>1, <4>1 DEF Waiting
      <4>3. \A i, j \in DOMAIN queue' : queue'[i] = queue'[j] => i = j
        BY <2>1, <3>2, <4>1 DEF Waiting, FlightInv
      <4>4. FlightInv'
        BY <3>2, <3>3, <4>2, <4>3 DEF FlightInv
      <4>5. Cardinality(lost') = Cardinality(lost) /\ dropped' = dropped /\ Len(calls') = Len(calls)
        BY <3>3
      <4>6. Len(queue') = Len(queue) + 1
        BY <4>1
      <4>7. RecordsAccountedFor'
        BY <2>1, <3>1, <3>2, <4>5, <4>6 DEF RecordsAccountedFor
      <4> QED BY <4>4, <4>7
    <3>4. CASE dropped' = dropped + 1 /\ UNCHANGED <<queue, lost>>
      <4>1. FlightInv'
        BY <3>4 DEF FlightInv, Waiting
      <4>2. RecordsAccountedFor'
        BY <2>1, <3>1, <3>2, <3>4 DEF RecordsAccountedFor
      <4> QED BY <4>1, <4>2
    <3>5. CASE lost' = lost \cup {r} /\ UNCHANGED <<queue, dropped>>
      <4>1. Cardinality(lost') = Cardinality(lost) + 1
        BY <2>1, <3>2, <3>5, FS_AddElement
      <4>2. FlightInv'
        BY <3>2, <3>5 DEF FlightInv, Waiting
      <4>3. RecordsAccountedFor'
        BY <2>1, <3>1, <3>2, <3>5, <4>1 DEF RecordsAccountedFor
      <4> QED BY <4>2, <4>3
    <3> QED BY <3>3, <3>4, <3>5
  <2>4. CASE Take
    <3>1. current = None /\ queue # <<>> /\ current' = Head(queue) /\ queue' = Tail(queue)
          /\ UNCHANGED <<pc, answer, dropped, lost, calls>>
      BY <2>4 DEF Take
    <3>2. current' = queue[1] /\ Len(queue) >= 1 /\ Len(queue') = Len(queue) - 1
          /\ \A i \in 1..Len(queue') : queue'[i] = queue[i + 1]
      BY <3>1, <2>1, EmptySeq, HeadTailProperties
    <3>3. DOMAIN queue = 1..Len(queue) /\ DOMAIN queue' = 1..Len(queue')
      BY <3>1
    <3>4. 1 \in DOMAIN queue /\ \A i \in DOMAIN queue' :
              i \in Nat \ {0} /\ i + 1 \in DOMAIN queue /\ queue'[i] = queue[i + 1]
      BY <2>1, <3>2, <3>3
    <3>5. current' \in Waiting /\ Waiting' \subseteq Waiting
      BY <3>2, <3>4 DEF Waiting
    <3>6. current' \notin Waiting'
      <4> SUFFICES ASSUME NEW i \in DOMAIN queue', queue'[i] = current' PROVE FALSE
        BY DEF Waiting
      <4>1. queue[i + 1] = queue[1] /\ i + 1 # 1
        BY <3>2, <3>4
      <4> QED BY <3>4, <4>1 DEF FlightInv
    <3>7. \A i, j \in DOMAIN queue' : queue'[i] = queue'[j] => i = j
      <4> SUFFICES ASSUME NEW i \in DOMAIN queue', NEW j \in DOMAIN queue', queue'[i] = queue'[j]
                   PROVE  i = j
        OBVIOUS
      <4>1. i + 1 = j + 1
        BY <3>4 DEF FlightInv
      <4> QED BY <3>4, <4>1
    <3>8. Offered' = Offered
      BY <3>1 DEF Offered
    <3>9. FlightInv'
      BY <3>1, <3>5, <3>6, <3>7, <3>8 DEF FlightInv
    <3>10. current' # None
      BY <3>5, NoneAssumption DEF FlightInv, Offered
    <3>11. RecordsAccountedFor'
      <4>1. InProcess = 0 /\ InProcess' = 1
        BY <3>1, <3>10 DEF InProcess
      <4>2. /\ dropped' = dropped /\ Len(calls') = Len(calls)
            /\ Cardinality(lost') = Cardinality(lost) /\ Len(queue') = Len(queue) - 1
            /\ Cardinality(Offered') = Cardinality(Offered)
        BY <3>1, <3>2, <3>8
      <4> QED BY <2>1, <4>1, <4>2 DEF RecordsAccountedFor
    <3> QED BY <3>9, <3>11
  <2>5. CASE Process
    <3>1. current # None /\ current' = None /\ UNCHANGED <<pc, answer, queue, dropped>>
      BY <2>5 DEF Process
    <3>2. Offered' = Offered /\ InProcess = 1 /\ InProcess' = 0
      BY <3>1 DEF Offered, InProcess
    <3>3. CASE calls' = Append(calls, current) /\ UNCHANGED lost
      <4>1. Len(calls') = Len(calls) + 1
        BY <3>3
      <4>2. FlightInv'
        BY <3>1, <3>2, <3>3 DEF FlightInv, Waiting
      <4>3. RecordsAccountedFor'
        BY <2>1, <3>1, <3>2, <3>3, <4>1 DEF RecordsAccountedFor
      <4> QED BY <4>2, <4>3
    <3>4. CASE lost' = lost \cup {current} /\ UNCHANGED calls
      <4>1. current \notin lost /\ current \in Offered /\ current \notin Waiting
        BY <3>1 DEF FlightInv
      <4>2. Cardinality(lost') = Cardinality(lost) + 1
        BY <2>1, <3>4, <4>1, FS_AddElement
      <4>3. FlightInv'
        BY <3>1, <3>2, <3>4, <4>1 DEF FlightInv, Waiting
      <4>4. RecordsAccountedFor'
        BY <2>1, <3>1, <3>2, <3>4, <4>2 DEF RecordsAccountedFor
      <4> QED BY <4>3, <4>4
    <3> QED BY <2>5, <3>3, <3>4 DEF Process
  <2>6. CASE LoggerEnds \/ Stop \/ Signal \/ ListenerFails \/ UNCHANGED vars
    <3>1. UNCHANGED <<pc, answer, current, calls, queue, dropped, lost>>
      BY <2>6 DEF LoggerEnds, Stop, ShutdownReturns, CloseReturns, Signal, ListenerFails
    <3>2. UNCHANGED Offered
      BY <3>1 DEF Offered
    <3> QED BY <2>2, <3>1, <3>2 DEF FlightInv
  <2> QED BY <2>2, <2>3, <2>4, <2>5, <2>6, OneStepOfAHandler DEF Next, Logger
<1>3. Inv => RecordsAccountedFor
  OBVIOUS
<1> QED BY <1>1, <1>2, <1>3, Typing, RelayInvHolds, PTL DEF Spec

-----------------------------------------------------------------------------
\* What a client gets and what the logger is given of it: one answer, and the
\* prefix of it that fits (ServeHTTP, relayBody).
THEOREM AnswersAreCaptured == Spec => []AnsweredAsCaptured
  BY Once, Prefix, PTL DEF AnsweredAsCaptured

\* No record of a relayed request disappears unaccounted for, and an orderly
\* exit drains the channel (Logger.Enqueue, Logger.Close).
THEOREM RecordsAreKept == Spec => []RecordsKept
  BY Accounting, Drains, PTL DEF RecordsKept

-----------------------------------------------------------------------------
(***************************************************************************)
(* Induction over the numbers, for a set: what it has from 0 on.           *)
(***************************************************************************)
LEMMA NatSetInduction ==
    ASSUME NEW S, 0 \in S, \A n \in Nat : n \in S => n + 1 \in S
    PROVE  Nat \subseteq S
<1> DEFINE T == Nat \ S
<1>1. SUFFICES ASSUME T # {} PROVE FALSE
  OBVIOUS
<1>2. PICK x \in T : \A y \in T : ~ (<<y, x>> \in OpToRel(<, Nat))
  BY <1>1, NatLessThanWellFounded, WFMin
<1>3. \A y \in T : ~ (y < x)
  BY <1>2 DEF OpToRel
<1>4. x \in Nat /\ x # 0
  OBVIOUS
<1>5. x - 1 \in S
  BY <1>3, <1>4
<1> QED BY <1>4, <1>5

-----------------------------------------------------------------------------
(***************************************************************************)
(* Feeding events: FedAll's recursive function is there, and it takes one  *)
(* sequence after another.                                                 *)
(***************************************************************************)
Feeding(f, asm, events, m) ==
    f = [n \in 0..m |-> IF n = 0 THEN asm ELSE Fed(f[n - 1], events[n])]

\* The recursion of FedAll is one that ends.
LEMMA FeedingExists ==
    ASSUME NEW asm, NEW events, NEW m \in Nat
    PROVE  \E f : Feeding(f, asm, events, m)
<1> DEFINE S == {k \in Nat : \E f : Feeding(f, asm, events, k)}
<1>1. 0 \in S
  <2>1. Feeding([n \in 0..0 |-> asm], asm, events, 0)
    BY DEF Feeding
  <2> QED BY <2>1
<1>2. ASSUME NEW k \in Nat, k \in S PROVE k + 1 \in S
  <2>1. PICK f : Feeding(f, asm, events, k)
    BY <1>2
  <2> DEFINE g == [n \in 0..k+1 |-> IF n = k + 1 THEN Fed(f[k], events[k + 1]) ELSE f[n]]
  <2>2. Feeding(g, asm, events, k + 1)
    BY <2>1 DEF Feeding
  <2> HIDE DEF g
  <2> QED BY <2>2
<1> HIDE DEF S
<1>3. Nat \subseteq S
  BY <1>1, <1>2, NatSetInduction
<1> QED BY <1>3 DEF S

\* Two such functions agree as far as their events do.
LEMMA FeedingUnique ==
    ASSUME NEW asm, NEW r, NEW s, NEW k \in Nat, NEW m \in Nat, NEW f, NEW g,
           k <= m, \A i \in 1..k : r[i] = s[i],
           Feeding(f, asm, r, k), Feeding(g, asm, s, m)
    PROVE  \A i \in 0..k : f[i] = g[i]
<1> DEFINE E == {i \in Nat : i <= k => f[i] = g[i]}
<1>1. 0 \in E
  BY DEF Feeding
<1>2. \A i \in Nat : i \in E => i + 1 \in E
  BY DEF Feeding
<1> HIDE DEF E
<1>3. Nat \subseteq E
  BY <1>1, <1>2, NatSetInduction
<1> QED BY <1>3 DEF E

\* TLC's detour: Fed is HandleEvent.
LEMMA FedIs == ASSUME NEW asm, NEW ev PROVE Fed(asm, ev) = HandleEvent(asm, ev)
BY DEF Fed

\* No event leaves the assembler as it was,
LEMMA FedNone == ASSUME NEW asm PROVE FedAll(asm, <<>>) = asm
<1>1. PICK f : Feeding(f, asm, <<>>, 0)
  BY FeedingExists
<1> DEFINE g == CHOOSE h : Feeding(h, asm, <<>>, 0)
<1>2. Feeding(g, asm, <<>>, 0)
  BY <1>1
<1>3. FedAll(asm, <<>>) = g[0]
  BY DEF FedAll, Feeding
<1> HIDE DEF g
<1> QED BY <1>2, <1>3 DEF Feeding

\* one more is handled after those before it,
LEMMA FedOne ==
    ASSUME NEW E, NEW s \in Seq(E), NEW ev \in E, NEW asm
    PROVE  FedAll(asm, Append(s, ev)) = HandleEvent(FedAll(asm, s), ev)
<1> DEFINE t == Append(s, ev)
           f == CHOOSE h : Feeding(h, asm, s, Len(s))
           g == CHOOSE h : Feeding(h, asm, t, Len(t))
<1>1. Len(s) \in Nat /\ Len(t) \in Nat /\ Len(t) = Len(s) + 1 /\ Len(s) <= Len(t) /\ \A i \in 1..Len(s) : s[i] = t[i]
  OBVIOUS
<1>2. Feeding(f, asm, s, Len(s))
  BY <1>1, FeedingExists
<1>3. Feeding(g, asm, t, Len(t))
  BY <1>1, FeedingExists
<1>4. FedAll(asm, s) = f[Len(s)] /\ FedAll(asm, t) = g[Len(t)]
  BY DEF FedAll, Feeding
<1> t[Len(s) + 1] = ev
  OBVIOUS
<1> HIDE DEF f, g, t
<1>5. \A i \in 0..Len(s) : f[i] = g[i]
  <2> DEFINE k == Len(s)
             m == Len(t)
  <2>1. k \in Nat /\ m \in Nat /\ k <= m /\ \A i \in 1..k : s[i] = t[i]
    BY <1>1
  <2>2. Feeding(f, asm, s, k) /\ Feeding(g, asm, t, m)
    BY <1>2, <1>3
  <2> HIDE DEF k, m
  <2>3. \A i \in 0..k : f[i] = g[i]
    BY ONLY <2>1, <2>2, FeedingUnique
  <2> QED BY <2>3 DEF k
<1>6. g[Len(t)] = Fed(g[Len(s)], ev)
  BY <1>1, <1>3 DEF Feeding
<1> QED BY <1>1, <1>4, <1>5, <1>6, FedIs DEF t

\* and a sequence after another is fed to what the first one left.
LEMMA FedInTurn ==
    ASSUME NEW E, NEW s \in Seq(E), NEW t \in Seq(E), NEW asm
    PROVE  FedAll(asm, s \o t) = FedAll(FedAll(asm, s), t)
<1> DEFINE S == {n \in Nat : n <= Len(t) =>
                    FedAll(asm, s \o SubSeq(t, 1, n)) = FedAll(FedAll(asm, s), SubSeq(t, 1, n))}
<1>1. 0 \in S
  <2>1. SubSeq(t, 1, 0) = <<>> /\ s \o <<>> = s
    OBVIOUS
  <2> QED BY <2>1, FedNone
<1>2. ASSUME NEW n \in Nat, n \in S PROVE n + 1 \in S
  <2> SUFFICES ASSUME n + 1 <= Len(t)
               PROVE  FedAll(asm, s \o SubSeq(t, 1, n + 1)) = FedAll(FedAll(asm, s), SubSeq(t, 1, n + 1))
    OBVIOUS
  <2> DEFINE u == SubSeq(t, 1, n)
  <2>1. u \in Seq(E) /\ t[n + 1] \in E /\ s \o u \in Seq(E)
    OBVIOUS
  <2>2. SubSeq(t, 1, n + 1) = Append(u, t[n + 1])
    OBVIOUS
  <2>3. s \o Append(u, t[n + 1]) = Append(s \o u, t[n + 1])
    BY <2>1
  <2>4. FedAll(asm, s \o u) = FedAll(FedAll(asm, s), u)
    BY <1>2
  <2> HIDE DEF u
  <2>5. FedAll(asm, Append(s \o u, t[n + 1])) = HandleEvent(FedAll(asm, s \o u), t[n + 1])
    BY <2>1, FedOne
  <2>6. FedAll(FedAll(asm, s), Append(u, t[n + 1])) = HandleEvent(FedAll(FedAll(asm, s), u), t[n + 1])
    BY <2>1, FedOne
  <2> QED BY <2>2, <2>3, <2>4, <2>5, <2>6
<1> HIDE DEF S
<1>3. Nat \subseteq S
  BY <1>1, <1>2, NatSetInduction
<1>4. Len(t) \in Nat /\ SubSeq(t, 1, Len(t)) = t
  OBVIOUS
<1>5. Len(t) \in S
  BY <1>3, <1>4
<1>6. FedAll(asm, s \o SubSeq(t, 1, Len(t))) = FedAll(FedAll(asm, s), SubSeq(t, 1, Len(t)))
  BY <1>4, <1>5 DEF S
<1> QED BY <1>4, <1>6

-----------------------------------------------------------------------------
(***************************************************************************)
(* One block: what the assembler holds while the events of block k come,   *)
(* the blocks before being B.                                              *)
(***************************************************************************)
\* Expanded only where it matters: the provers mind literals in a record.
Unset == FALSE
Unknown == ""

Assembler(meta, usage, stop, B, P, cut, error, stopped) ==
    [meta |-> meta, usage |-> usage, stop |-> stop, blocks |-> B, partial |-> P,
     truncated |-> cut, error |-> error, stopped |-> stopped]

Reading(m, B, P) == Assembler(m.meta, UsageSide(m.usage, {"input"}), Unknown, B, P, Unset, Unset, Unset)

\* What Put sets is there, and the last one wins.
LEMMA PutIs ==
    ASSUME NEW f, NEW k, NEW v
    PROVE  /\ k \in DOMAIN Put(f, k, v)
           /\ Put(f, k, v)[k] = v
           /\ \A i \in DOMAIN f : i # k => Put(f, k, v)[i] = f[i]
           /\ \A w : Put(Put(f, k, v), k, w) = Put(f, k, w)
BY DEF Put

\* A block, and an input still open, of the assembler of message m.
LEMMA BlockIsPut ==
    ASSUME NEW m, NEW B, NEW P, NEW k, NEW v
    PROVE  WithBlock(Reading(m, B, P), k, v) = Reading(m, Put(B, k, v), P)
BY DEF WithBlock, Reading, Assembler

LEMMA PartialIsPut ==
    ASSUME NEW m, NEW B, NEW P, NEW Q
    PROVE  [Reading(m, B, P) EXCEPT !.partial = Q] = Reading(m, B, Q)
BY DEF Reading, Assembler

\* An input that is JSON truncates nothing.
LEMMA TruncatedStays ==
    ASSUME NEW m, NEW B, NEW P
    PROVE  [Reading(m, B, P) EXCEPT !.truncated = Unset] = Reading(m, B, P)
BY DEF Reading, Assembler

Closed(asm, Q) == [asm EXCEPT !.partial = Q, !.truncated = Unset]

LEMMA ClosedIsPut ==
    ASSUME NEW m, NEW B, NEW P, NEW Q
    PROVE  Closed(Reading(m, B, P), Q) = Reading(m, B, Q)
<1>1. [Reading(m, B, P) EXCEPT !.partial = Q] = Reading(m, B, Q)
  BY PartialIsPut
<1>2. [Reading(m, B, Q) EXCEPT !.truncated = Unset] = Reading(m, B, Q)
  BY TruncatedStays
<1>3. \A r : Closed(r, Q) = [[r EXCEPT !.partial = Q] EXCEPT !.truncated = Unset]
  BY DEF Closed
<1> QED BY ONLY <1>1, <1>2, <1>3, Zenon

\* Each field of the assembler of message m.
LEMMA ReadingIs ==
    ASSUME NEW m, NEW B, NEW P
    PROVE  Reading(m, B, P).blocks = B /\ Reading(m, B, P).partial = P
BY DEF Reading, Assembler

\* A block that is there is not made anew.
LEMMA BlockIsThere ==
    ASSUME NEW m, NEW B, NEW P, NEW k, NEW c
    PROVE  GetOrCreate(Reading(m, Put(B, k, c), P), k) = c
BY ReadingIs, PutIs DEF GetOrCreate

BlockStart(k, block) == [event |-> "content_block_start", index |-> k, block |-> block]
BlockStop(k) == [event |-> "content_block_stop", index |-> k]

\* A block's start puts its shape where the block will be.
LEMMA StartRead ==
    ASSUME NEW m, NEW B, NEW P, NEW k, NEW block
    PROVE  HandleEvent(Reading(m, B, P), BlockStart(k, block))
             = Reading(m, Put(B, k, block), IF block.type = "tool_use" THEN Put(P, k, <<>>) ELSE P)
<1>1. HandleEvent(Reading(m, B, P), BlockStart(k, block)) = HandleBlockStart(Reading(m, B, P), BlockStart(k, block))
  BY DEF HandleEvent, BlockStart
<1>2. CASE block.type = "tool_use"
  <2>1. HandleBlockStart(Reading(m, B, P), BlockStart(k, block))
          = [Reading(m, Put(B, k, block), P) EXCEPT !.partial = Put(P, k, <<>>)]
    BY <1>2, BlockIsPut, ReadingIs DEF HandleBlockStart, BlockStart
  <2> QED BY <1>1, <1>2, <2>1, PartialIsPut
<1>3. CASE block.type # "tool_use"
  BY <1>1, <1>3, BlockIsPut DEF HandleBlockStart, BlockStart
<1> QED BY <1>2, <1>3

\* A block with one field set.
WithText(c, data) == [c EXCEPT !.text = data]
WithThinking(c, data) == [c EXCEPT !.thinking = data]
WithSignature(c, data) == [c EXCEPT !.signature = data]
WithInput(c, data) == [c EXCEPT !.input = data]

\* A delta of a text, a thinking or a signature is joined to it.
LEMMA DeltaRead ==
    ASSUME NEW m, NEW B, NEW P, NEW k, NEW c, NEW data
    PROVE  /\ HandleEvent(Reading(m, Put(B, k, c), P), Delta(k, "text_delta", data))
                = Reading(m, Put(B, k, WithText(c, c.text \o data)), P)
           /\ HandleEvent(Reading(m, Put(B, k, c), P), Delta(k, "thinking_delta", data))
                = Reading(m, Put(B, k, WithThinking(c, c.thinking \o data)), P)
           /\ HandleEvent(Reading(m, Put(B, k, c), P), Delta(k, "signature_delta", data))
                = Reading(m, Put(B, k, WithSignature(c, c.signature \o data)), P)
<1> DEFINE asm == Reading(m, Put(B, k, c), P)
<1>1. \A delta : HandleEvent(asm, Delta(k, delta, data)) = HandleBlockDelta(asm, Delta(k, delta, data))
  BY DEF HandleEvent, Delta
<1>2. GetOrCreate(asm, k) = c
  BY BlockIsThere
<1>3. \A d : WithBlock(asm, k, d) = Reading(m, Put(B, k, d), P)
  BY BlockIsPut, PutIs
<1> HIDE DEF asm
<1>4. HandleBlockDelta(asm, Delta(k, "text_delta", data)) = WithBlock(asm, k, WithText(c, c.text \o data))
  BY <1>2 DEF HandleBlockDelta, Delta, WithText, WithThinking, WithSignature
<1>5. HandleBlockDelta(asm, Delta(k, "thinking_delta", data)) = WithBlock(asm, k, WithThinking(c, c.thinking \o data))
  BY <1>2 DEF HandleBlockDelta, Delta, WithText, WithThinking, WithSignature
<1>6. HandleBlockDelta(asm, Delta(k, "signature_delta", data)) = WithBlock(asm, k, WithSignature(c, c.signature \o data))
  BY <1>2 DEF HandleBlockDelta, Delta, WithText, WithThinking, WithSignature
<1> QED BY <1>1, <1>3, <1>4, <1>5, <1>6 DEF asm

\* A delta of an input is joined to the input still open.
LEMMA InputRead ==
    ASSUME NEW m, NEW B, NEW P, NEW k, NEW c, NEW q, NEW data
    PROVE  HandleEvent(Reading(m, Put(B, k, c), Put(P, k, q)), Delta(k, "input_json_delta", data))
             = Reading(m, Put(B, k, c), Put(P, k, q \o data))
<1> DEFINE asm == Reading(m, Put(B, k, c), Put(P, k, q))
<1>1. HandleEvent(asm, Delta(k, "input_json_delta", data)) = HandleBlockDelta(asm, Delta(k, "input_json_delta", data))
  BY DEF HandleEvent, Delta
<1>2. GetOrCreate(asm, k) = c /\ WithBlock(asm, k, c) = asm
  BY BlockIsThere, BlockIsPut, PutIs
<1>3. k \in DOMAIN asm.partial /\ asm.partial[k] = q /\ asm.partial = Put(P, k, q)
  BY ReadingIs, PutIs
<1>4. [asm EXCEPT !.partial = Put(P, k, q \o data)] = Reading(m, Put(B, k, c), Put(P, k, q \o data))
  BY PartialIsPut
<1>5. Put(asm.partial, k, q \o data) = Put(P, k, q \o data)
  BY <1>3, PutIs
<1> HIDE DEF asm
<1>6. HandleBlockDelta(asm, Delta(k, "input_json_delta", data)) = [asm EXCEPT !.partial = Put(asm.partial, k, q \o data)]
  BY <1>2, <1>3 DEF HandleBlockDelta, Delta
<1> QED BY <1>1, <1>4, <1>5, <1>6 DEF asm

\* A block's stop changes nothing when no input is open,
LEMMA StopRead ==
    ASSUME NEW m, NEW B, NEW k
    PROVE  HandleEvent(Reading(m, B, <<>>), BlockStop(k)) = Reading(m, B, <<>>)
<1>1. HandleEvent(Reading(m, B, <<>>), BlockStop(k)) = FinalizeToolUseInput(Reading(m, B, <<>>), k)
  BY DEF HandleEvent, BlockStop
<1>2. k \notin DOMAIN Reading(m, B, <<>>).partial
  BY ReadingIs
<1> QED BY <1>1, <1>2 DEF FinalizeToolUseInput

\* and closes the open input, when it is JSON, as the input of its block.
LEMMA InputStopRead ==
    ASSUME NEW m, NEW B, NEW k, NEW c, NEW q, IsJSON(q), q # <<>>
    PROVE  HandleEvent(Reading(m, Put(B, k, c), Put(<<>>, k, q)), BlockStop(k))
             = Reading(m, Put(B, k, WithInput(c, q)), <<>>)
<1> DEFINE asm == Reading(m, Put(B, k, c), Put(<<>>, k, q))
           read == Reading(m, Put(B, k, WithInput(c, q)), Put(<<>>, k, q))
<1>1. HandleEvent(asm, BlockStop(k)) = FinalizeToolUseInput(asm, k)
  BY DEF HandleEvent, BlockStop
<1>2. k \in DOMAIN asm.partial /\ asm.partial[k] = q
  BY ReadingIs, PutIs
<1>3. WithBlock(asm, k, [GetOrCreate(asm, k) EXCEPT !.input = ParsedInput(q)]) = read
  BY BlockIsThere, BlockIsPut, PutIs DEF ParsedInput, WithInput
<1>4. Without(Put(<<>>, k, q), k) = <<>>
  BY DEF Without, Put
<1>5. [read EXCEPT !.partial = Without(@, k), !.truncated = @ \/ (q # <<>> /\ ~IsJSON(q))]
        = Reading(m, Put(B, k, WithInput(c, q)), <<>>)
  <2>1. Without(read.partial, k) = <<>>
    BY <1>4, ReadingIs
  <2>2. (read.truncated \/ (q # <<>> /\ ~IsJSON(q))) = Unset
    BY DEF Reading, Assembler, Unset
  <2> HIDE DEF read
  <2>4. [read EXCEPT !.partial = <<>>, !.truncated = Unset] = Reading(m, Put(B, k, WithInput(c, q)), <<>>)
    <3>1. PICK b, p, q0 : b = Put(B, k, WithInput(c, q)) /\ p = Put(<<>>, k, q) /\ q0 = <<>>
      OBVIOUS
    <3>2. Closed(Reading(m, b, p), q0) = Reading(m, b, q0)
      BY ClosedIsPut
    <3> QED BY <3>1, <3>2, Zenon DEF read, Closed
  <2> QED BY <2>1, <2>2, <2>4, Zenon
<1> QED BY <1>1, <1>2, <1>3, <1>5 DEF FinalizeToolUseInput

\* The states A[0], A[1], ... a stream leads through.
LEMMA FedAlong ==
    ASSUME NEW s, Len(s) \in Nat, NEW A,
           \A j \in 1..Len(s) : HandleEvent(A[j - 1], s[j]) = A[j]
    PROVE  FedAll(A[0], s) = A[Len(s)]
<1> DEFINE f == CHOOSE h : Feeding(h, A[0], s, Len(s))
<1>1. Feeding(f, A[0], s, Len(s))
  BY FeedingExists
<1>2. FedAll(A[0], s) = f[Len(s)]
  BY DEF FedAll, Feeding
<1> HIDE DEF f
<1> DEFINE E == {i \in Nat : i <= Len(s) => f[i] = A[i]}
<1>3. 0 \in E
  BY <1>1 DEF Feeding
<1>4. ASSUME NEW i \in Nat, i \in E PROVE i + 1 \in E
  <2> SUFFICES ASSUME i + 1 <= Len(s) PROVE f[i + 1] = A[i + 1]
    OBVIOUS
  <2>1. f[i + 1] = Fed(f[i], s[i + 1])
    BY <1>1 DEF Feeding
  <2>2. f[i] = A[i]
    BY <1>4
  <2>3. HandleEvent(A[i], s[i + 1]) = A[i + 1]
    OBVIOUS
  <2> QED BY <2>1, <2>2, <2>3, FedIs
<1> HIDE DEF E
<1>5. Nat \subseteq E
  BY <1>3, <1>4, NatSetInduction
<1> QED BY <1>2, <1>5 DEF E

\* The pieces of a text, in turn.
LEMMA PiecesAre ==
    ASSUME NEW k, NEW delta, NEW data \in Text
    PROVE  /\ Len(Pieces(k, delta, data)) = Len(data)
           /\ \A j \in 1..Len(data) : Pieces(k, delta, data)[j] = Delta(k, delta, <<data[j]>>)
BY DEF Pieces, Text

LEMMA PrefixGrows ==
    ASSUME NEW data \in Text, NEW j \in 1..Len(data)
    PROVE  SubSeq(data, 1, j - 1) \o <<data[j]>> = SubSeq(data, 1, j)
BY DEF Text

LEMMA PrefixEnds ==
    ASSUME NEW data \in Text
    PROVE  SubSeq(data, 1, 0) = <<>> /\ SubSeq(data, 1, Len(data)) = data
BY DEF Text

\* The blocks C[0], C[1], ... the deltas of a text make, piece by piece.
PieceByPiece(m, B, P, k, C, delta, data) ==
    \A j \in 1..Len(data) : \A piece : piece = <<data[j]>> =>
       HandleEvent(Reading(m, Put(B, k, C[j - 1]), P), Delta(k, delta, piece)) = Reading(m, Put(B, k, C[j]), P)

\* A text that comes piece by piece is the whole text in the end.
LEMMA PiecesRead ==
    ASSUME NEW m, NEW B, NEW P, NEW k, NEW C, NEW data \in Text, NEW delta,
           PieceByPiece(m, B, P, k, C, delta, data)
    PROVE  FedAll(Reading(m, Put(B, k, C[0]), P), Pieces(k, delta, data))
             = Reading(m, Put(B, k, C[Len(data)]), P)
<1> DEFINE s == Pieces(k, delta, data)
           A == [j \in 0..Len(data) |-> Reading(m, Put(B, k, C[j]), P)]
<1>1. Len(data) \in Nat /\ Len(s) = Len(data) /\ \A j \in 1..Len(s) : s[j] = Delta(k, delta, <<data[j]>>)
  BY PiecesAre DEF Text
<1>2. \A j \in 0..Len(s) : A[j] = Reading(m, Put(B, k, C[j]), P)
  BY <1>1
<1> HIDE DEF A, s
<1>3. ASSUME NEW j \in 1..Len(s) PROVE HandleEvent(A[j - 1], s[j]) = A[j]
  <2>1. PICK piece : piece = <<data[j]>>
    OBVIOUS
  <2>2. s[j] = Delta(k, delta, piece) /\ j \in 1..Len(data)
    BY <1>1, <2>1
  <2>3. HandleEvent(Reading(m, Put(B, k, C[j - 1]), P), Delta(k, delta, piece)) = Reading(m, Put(B, k, C[j]), P)
    BY <2>1, <2>2 DEF PieceByPiece
  <2>4. A[j - 1] = Reading(m, Put(B, k, C[j - 1]), P) /\ A[j] = Reading(m, Put(B, k, C[j]), P)
    BY <1>1, <1>2
  <2> QED BY <2>2, <2>3, <2>4
<1>4. A[0] = Reading(m, Put(B, k, C[0]), P) /\ A[Len(s)] = Reading(m, Put(B, k, C[Len(data)]), P)
  BY <1>1, <1>2
<1>5. FedAll(A[0], s) = A[Len(s)]
  BY <1>1, <1>3, FedAlong
<1> QED BY <1>4, <1>5 DEF s

\* A field set twice is set once.
LEMMA FieldIsSet ==
    ASSUME NEW c \in Block, NEW data, NEW more
    PROVE  /\ WithText(c, data).text = data /\ WithText(WithText(c, data), more) = WithText(c, more)
           /\ WithThinking(c, data).thinking = data /\ WithThinking(WithThinking(c, data), more) = WithThinking(c, more)
           /\ WithSignature(c, data).signature = data
           /\ WithSignature(WithSignature(c, data), more) = WithSignature(c, more)
BY DEF Block, WithText, WithThinking, WithSignature

\* The same for each of the fields that come in pieces.
LEMMA TextPieces ==
    ASSUME NEW m, NEW B, NEW P, NEW k, NEW c \in Block, NEW data \in Text
    PROVE  FedAll(Reading(m, Put(B, k, WithText(c, <<>>)), P), Pieces(k, "text_delta", data))
             = Reading(m, Put(B, k, WithText(c, data)), P)
<1> DEFINE C == [j \in 0..Len(data) |-> WithText(c, SubSeq(data, 1, j))]
<1>1. Len(data) \in Nat
  BY DEF Text
<1>2. \A j \in 0..Len(data) : C[j] = WithText(c, SubSeq(data, 1, j))
  OBVIOUS
<1> HIDE DEF C
<1>3. ASSUME NEW j \in 1..Len(data), NEW piece, piece = <<data[j]>>
      PROVE  HandleEvent(Reading(m, Put(B, k, C[j - 1]), P), Delta(k, "text_delta", piece))
               = Reading(m, Put(B, k, C[j]), P)
  <2> DEFINE before == SubSeq(data, 1, j - 1)
             after == SubSeq(data, 1, j)
             d == C[j - 1]
  <2>1. d = WithText(c, before) /\ C[j] = WithText(c, after)
    BY <1>1, <1>2
  <2>2. before \o piece = after
    BY <1>3, PrefixGrows
  <2> HIDE DEF before, after, d
  <2>3. d.text = before /\ C[j] = WithText(d, after)
    BY <2>1, FieldIsSet
  <2>4. HandleEvent(Reading(m, Put(B, k, d), P), Delta(k, "text_delta", piece))
          = Reading(m, Put(B, k, WithText(d, d.text \o piece)), P)
    BY DeltaRead
  <2> QED BY <2>2, <2>3, <2>4 DEF d
<1>4. PieceByPiece(m, B, P, k, C, "text_delta", data)
  BY <1>3 DEF PieceByPiece
<1>5. FedAll(Reading(m, Put(B, k, C[0]), P), Pieces(k, "text_delta", data)) = Reading(m, Put(B, k, C[Len(data)]), P)
  BY <1>4, PiecesRead
<1>6. C[0] = WithText(c, SubSeq(data, 1, 0)) /\ C[Len(data)] = WithText(c, SubSeq(data, 1, Len(data)))
  BY <1>1, <1>2
<1>7. SubSeq(data, 1, 0) = <<>> /\ SubSeq(data, 1, Len(data)) = data
  BY PrefixEnds
<1> QED BY <1>5, <1>6, <1>7, Zenon

LEMMA ThinkingPieces ==
    ASSUME NEW m, NEW B, NEW P, NEW k, NEW c \in Block, NEW data \in Text
    PROVE  FedAll(Reading(m, Put(B, k, WithThinking(c, <<>>)), P), Pieces(k, "thinking_delta", data))
             = Reading(m, Put(B, k, WithThinking(c, data)), P)
<1> DEFINE C == [j \in 0..Len(data) |-> WithThinking(c, SubSeq(data, 1, j))]
<1>1. Len(data) \in Nat
  BY DEF Text
<1>2. \A j \in 0..Len(data) : C[j] = WithThinking(c, SubSeq(data, 1, j))
  OBVIOUS
<1> HIDE DEF C
<1>3. ASSUME NEW j \in 1..Len(data), NEW piece, piece = <<data[j]>>
      PROVE  HandleEvent(Reading(m, Put(B, k, C[j - 1]), P), Delta(k, "thinking_delta", piece))
               = Reading(m, Put(B, k, C[j]), P)
  <2> DEFINE before == SubSeq(data, 1, j - 1)
             after == SubSeq(data, 1, j)
             d == C[j - 1]
  <2>1. d = WithThinking(c, before) /\ C[j] = WithThinking(c, after)
    BY <1>1, <1>2
  <2>2. before \o piece = after
    BY <1>3, PrefixGrows
  <2> HIDE DEF before, after, d
  <2>3. d.thinking = before /\ C[j] = WithThinking(d, after)
    BY <2>1, FieldIsSet
  <2>4. HandleEvent(Reading(m, Put(B, k, d), P), Delta(k, "thinking_delta", piece))
          = Reading(m, Put(B, k, WithThinking(d, d.thinking \o piece)), P)
    BY DeltaRead
  <2> QED BY <2>2, <2>3, <2>4 DEF d
<1>4. PieceByPiece(m, B, P, k, C, "thinking_delta", data)
  BY <1>3 DEF PieceByPiece
<1>5. FedAll(Reading(m, Put(B, k, C[0]), P), Pieces(k, "thinking_delta", data)) = Reading(m, Put(B, k, C[Len(data)]), P)
  BY <1>4, PiecesRead
<1>6. C[0] = WithThinking(c, SubSeq(data, 1, 0)) /\ C[Len(data)] = WithThinking(c, SubSeq(data, 1, Len(data)))
  BY <1>1, <1>2
<1>7. SubSeq(data, 1, 0) = <<>> /\ SubSeq(data, 1, Len(data)) = data
  BY PrefixEnds
<1> QED BY <1>5, <1>6, <1>7, Zenon

LEMMA SignaturePieces ==
    ASSUME NEW m, NEW B, NEW P, NEW k, NEW c \in Block, NEW data \in Text
    PROVE  FedAll(Reading(m, Put(B, k, WithSignature(c, <<>>)), P), Pieces(k, "signature_delta", data))
             = Reading(m, Put(B, k, WithSignature(c, data)), P)
<1> DEFINE C == [j \in 0..Len(data) |-> WithSignature(c, SubSeq(data, 1, j))]
<1>1. Len(data) \in Nat
  BY DEF Text
<1>2. \A j \in 0..Len(data) : C[j] = WithSignature(c, SubSeq(data, 1, j))
  OBVIOUS
<1> HIDE DEF C
<1>3. ASSUME NEW j \in 1..Len(data), NEW piece, piece = <<data[j]>>
      PROVE  HandleEvent(Reading(m, Put(B, k, C[j - 1]), P), Delta(k, "signature_delta", piece))
               = Reading(m, Put(B, k, C[j]), P)
  <2> DEFINE before == SubSeq(data, 1, j - 1)
             after == SubSeq(data, 1, j)
             d == C[j - 1]
  <2>1. d = WithSignature(c, before) /\ C[j] = WithSignature(c, after)
    BY <1>1, <1>2
  <2>2. before \o piece = after
    BY <1>3, PrefixGrows
  <2> HIDE DEF before, after, d
  <2>3. d.signature = before /\ C[j] = WithSignature(d, after)
    BY <2>1, FieldIsSet
  <2>4. HandleEvent(Reading(m, Put(B, k, d), P), Delta(k, "signature_delta", piece))
          = Reading(m, Put(B, k, WithSignature(d, d.signature \o piece)), P)
    BY DeltaRead
  <2> QED BY <2>2, <2>3, <2>4 DEF d
<1>4. PieceByPiece(m, B, P, k, C, "signature_delta", data)
  BY <1>3 DEF PieceByPiece
<1>5. FedAll(Reading(m, Put(B, k, C[0]), P), Pieces(k, "signature_delta", data)) = Reading(m, Put(B, k, C[Len(data)]), P)
  BY <1>4, PiecesRead
<1>6. C[0] = WithSignature(c, SubSeq(data, 1, 0)) /\ C[Len(data)] = WithSignature(c, SubSeq(data, 1, Len(data)))
  BY <1>1, <1>2
<1>7. SubSeq(data, 1, 0) = <<>> /\ SubSeq(data, 1, Len(data)) = data
  BY PrefixEnds
<1> QED BY <1>5, <1>6, <1>7, Zenon

LEMMA InputPieces ==
    ASSUME NEW m, NEW B, NEW P, NEW k, NEW c, NEW data \in Text
    PROVE  FedAll(Reading(m, Put(B, k, c), Put(P, k, <<>>)), Pieces(k, "input_json_delta", data))
             = Reading(m, Put(B, k, c), Put(P, k, data))
<1> DEFINE s == Pieces(k, "input_json_delta", data)
           A == [j \in 0..Len(data) |-> Reading(m, Put(B, k, c), Put(P, k, SubSeq(data, 1, j)))]
<1>1. Len(data) \in Nat /\ Len(s) = Len(data) /\ \A j \in 1..Len(s) : s[j] = Delta(k, "input_json_delta", <<data[j]>>)
  BY PiecesAre DEF Text
<1>2. \A j \in 0..Len(s) : A[j] = Reading(m, Put(B, k, c), Put(P, k, SubSeq(data, 1, j)))
  BY <1>1
<1> HIDE DEF A, s
<1>3. ASSUME NEW j \in 1..Len(s) PROVE HandleEvent(A[j - 1], s[j]) = A[j]
  <2> DEFINE before == SubSeq(data, 1, j - 1)
             after == SubSeq(data, 1, j)
  <2>1. PICK piece : piece = <<data[j]>>
    OBVIOUS
  <2>2. s[j] = Delta(k, "input_json_delta", piece) /\ before \o piece = after
    BY <1>1, <2>1, PrefixGrows
  <2>3. A[j - 1] = Reading(m, Put(B, k, c), Put(P, k, before)) /\ A[j] = Reading(m, Put(B, k, c), Put(P, k, after))
    BY <1>1, <1>2
  <2> HIDE DEF before, after
  <2>4. HandleEvent(Reading(m, Put(B, k, c), Put(P, k, before)), Delta(k, "input_json_delta", piece))
          = Reading(m, Put(B, k, c), Put(P, k, before \o piece))
    BY InputRead
  <2> QED BY <2>2, <2>3, <2>4
<1>4. FedAll(A[0], s) = A[Len(s)]
  BY <1>1, <1>3, FedAlong
<1>5. A[0] = Reading(m, Put(B, k, c), Put(P, k, SubSeq(data, 1, 0))) /\ A[Len(s)] = Reading(m, Put(B, k, c), Put(P, k, SubSeq(data, 1, Len(data))))
  BY <1>1, <1>2
<1>6. SubSeq(data, 1, 0) = <<>> /\ SubSeq(data, 1, Len(data)) = data
  BY PrefixEnds
<1> QED BY <1>4, <1>5, <1>6, Zenon DEF s

-----------------------------------------------------------------------------
Sides == UNION {[S -> Nat] : S \in SUBSET {"input", "output"}}

Deltas == {"text_delta", "thinking_delta", "signature_delta", "input_json_delta"}

Events ==
    [event : {"content_block_start"}, index : Nat, block : Block]
      \cup [event : {"content_block_delta"}, index : Nat, delta : Deltas, data : Text]
      \cup [event : {"content_block_stop"}, index : Nat]
      \cup [event : {"message_start"}, meta : Strings, usage : Sides]
      \cup [event : {"message_delta"}, stop : Strings, usage : Sides]

\* The events of a block are events.
LEMMA EventTypes ==
    ASSUME NEW k \in Nat
    PROVE  /\ \A block \in Block : BlockStart(k, block) \in Events
           /\ \A delta \in Deltas, data \in Text : Delta(k, delta, data) \in Events
           /\ BlockStop(k) \in Events
<1>1. ASSUME NEW block \in Block PROVE BlockStart(k, block) \in Events
  BY DEF BlockStart, Events
<1>2. ASSUME NEW delta \in Deltas, NEW data \in Text PROVE Delta(k, delta, data) \in Events
  BY DEF Delta, Events
<1>3. BlockStop(k) \in Events
  BY DEF BlockStop, Events
<1> QED BY <1>1, <1>2, <1>3

\* One event is one event.
LEMMA FedSingle ==
    ASSUME NEW asm, NEW ev
    PROVE  FedAll(asm, <<ev>>) = HandleEvent(asm, ev)
<1>1. FedAll(asm, Append(<<>>, ev)) = HandleEvent(FedAll(asm, <<>>), ev)
  <2>1. <<>> \in Seq({ev}) /\ ev \in {ev}
    OBVIOUS
  <2> QED BY ONLY <2>1, FedOne
<1>2. Append(<<>>, ev) = <<ev>>
  OBVIOUS
<1> QED BY <1>1, <1>2, FedNone

\* Two sequences of events are one, fed one after the other.
LEMMA FedOnward ==
    ASSUME NEW E, NEW s \in Seq(E), NEW t \in Seq(E), NEW asm, NEW between, NEW after,
           FedAll(asm, s) = between, FedAll(between, t) = after
    PROVE  s \o t \in Seq(E) /\ FedAll(asm, s \o t) = after
BY FedInTurn

\* Pieces are events.
LEMMA PiecesTyped ==
    ASSUME NEW k \in Nat, NEW delta \in Deltas, NEW data \in Text
    PROVE  Pieces(k, delta, data) \in Seq(Events)
<1>1. ASSUME NEW j \in DOMAIN data PROVE Delta(k, delta, <<data[j]>>) \in Events
  <2>1. PICK piece : piece = <<data[j]>>
    OBVIOUS
  <2>2. piece \in Text
    BY <2>1 DEF Text
  <2>3. Delta(k, delta, piece) \in Events
    BY <2>2, EventTypes
  <2> QED BY <2>1, <2>3
<1>2. PICK n \in Nat : DOMAIN data = 1..n
  BY DEF Text
<1> DEFINE s == Pieces(k, delta, data)
<1>3. s = [i \in 1..n |-> s[i]] /\ \A i \in 1..n : s[i] \in Events
  BY <1>1, <1>2 DEF Pieces
<1> HIDE DEF s
<1> QED BY <1>3 DEF s

LEMMA EmptyTyped == EmptyObject \in Text /\ <<>> \in Text /\ "" \in Strings
<1>1. \A x \in Strings : <<x>> \in Seq(Strings)
  OBVIOUS
<1>2. "{}" \in Strings /\ "" \in Strings
  BY MessageStreamAssumption
<1>3. <<"{}">> \in Seq(Strings)
  BY ONLY <1>1, <1>2, Zenon
<1>4. <<>> \in Seq(Strings)
  OBVIOUS
<1> QED BY <1>2, <1>3, <1>4, Zenon DEF EmptyObject, Text

\* The shape of a start is a block.
LEMMA StartTyped == ASSUME NEW block \in Block PROVE StartShape(block) \in Block
<1>1. EmptyObject \in Text /\ <<>> \in Text /\ "" \in Strings
  BY EmptyTyped
<1>2. CASE block.type = "text"
  BY <1>1, <1>2 DEF StartShape, Block, NoBlock
<1>3. CASE block.type = "tool_use"
  BY <1>1, <1>3 DEF StartShape, Block, NoBlock
<1>4. CASE block.type = "thinking"
  BY <1>1, <1>4 DEF StartShape, Block, NoBlock
<1>5. CASE block.type = "other"
  BY <1>1, <1>5 DEF StartShape, Block, NoBlock
<1> QED BY <1>2, <1>3, <1>4, <1>5 DEF Block

\* The blocks the events of a block make, one after the other.
LEMMA BlockMade ==
    ASSUME NEW block \in Block, Whole(block), NEW c0, c0 = StartShape(block),
           NEW c1, c1 = WithText(c0, IF block.type = "text" THEN block.text ELSE <<>>),
           NEW c2, c2 = WithThinking(c1, block.thinking),
           NEW c3, c3 = WithSignature(c2, block.signature)
    PROVE  /\ c1 \in Block /\ c2 \in Block /\ c3 \in Block
           /\ WithText(c0, <<>>) = c0 /\ WithThinking(c1, <<>>) = c1 /\ WithSignature(c2, <<>>) = c2
           /\ c0.type = block.type
           /\ block.type = "tool_use" => WithInput(c3, block.input) = block
           /\ block.type # "tool_use" => c3 = block
<1>1. c0 \in Block /\ c0.type = block.type /\ c0.text = <<>> /\ c0.thinking = <<>> /\ c0.signature = <<>> /\ c0.name = block.name
  BY StartTyped DEF StartShape, NoBlock, Whole, Block
<1>2. <<>> \in Text
  BY DEF Text
<1>3. block.type # "tool_use" => c0.input = block.input
  BY DEF StartShape, NoBlock, Whole, Block
<1>4. /\ c1 \in Block /\ WithText(c0, <<>>) = c0 /\ c1.type = block.type /\ c1.text = block.text /\ c1.thinking = <<>>
      /\ c1.signature = <<>> /\ c1.name = block.name /\ c1.input = c0.input
  BY <1>1, <1>2 DEF WithText, Block, Whole
<1>5. /\ c2 \in Block /\ WithThinking(c1, <<>>) = c1 /\ c2.type = block.type /\ c2.text = block.text
      /\ c2.thinking = block.thinking /\ c2.signature = <<>> /\ c2.name = block.name /\ c2.input = c0.input
  BY <1>4, <1>2 DEF WithThinking, Block
<1>6. /\ c3 \in Block /\ WithSignature(c2, <<>>) = c2 /\ c3.type = block.type /\ c3.text = block.text
      /\ c3.thinking = block.thinking /\ c3.signature = block.signature /\ c3.name = block.name /\ c3.input = c0.input
  BY <1>5, <1>2 DEF WithSignature, Block
<1>7. c3.input = block.input => c3 = block
  BY <1>6 DEF Block
<1>8. WithInput(c3, block.input) = block
  BY <1>6 DEF WithInput, Block
<1> QED BY <1>1, <1>3, <1>4, <1>5, <1>6, <1>7, <1>8

\* Nothing has no pieces.
LEMMA PiecesOfNothing ==
    ASSUME NEW k, NEW delta
    PROVE  Pieces(k, delta, <<>>) = <<>>
BY DEF Pieces

\* The events of the frontier's stream of a block.
LEMMA FrontierBlockRead ==
    ASSUME NEW m, NEW B, NEW k \in Nat, NEW block \in Block, Whole(block)
    PROVE  /\ FrontierBlock(k, block) \in Seq(Events)
           /\ FedAll(Reading(m, B, <<>>), FrontierBlock(k, block)) = Reading(m, Put(B, k, block), <<>>)
<1> DEFINE c0 == StartShape(block)
           text == IF block.type = "text" THEN block.text ELSE <<>>
           c1 == WithText(c0, text)
           c2 == WithThinking(c1, block.thinking)
           c3 == WithSignature(c2, block.signature)
           P == IF block.type = "tool_use" THEN Put(<<>>, k, <<>>) ELSE <<>>
           Q == IF block.type = "tool_use" THEN Put(<<>>, k, block.input) ELSE <<>>
           s1 == <<BlockStart(k, c0)>>
           s2 == Pieces(k, "text_delta", text)
           s3 == Pieces(k, "thinking_delta", block.thinking)
           s4 == Pieces(k, "signature_delta", block.signature)
           s5 == Pieces(k, "input_json_delta", block.input)
           s6 == <<BlockStop(k)>>
<1>1. FrontierBlock(k, block) = s1 \o s2 \o s3 \o s4 \o s5 \o s6
  BY DEF FrontierBlock, BlockStart, BlockStop
<1>2. text \in Text /\ block.thinking \in Text /\ block.signature \in Text /\ block.input \in Text
  BY EmptyTyped DEF Block
<1>3. c0 \in Block
  BY StartTyped
<1>4. /\ c1 \in Block /\ c2 \in Block /\ c3 \in Block
      /\ WithText(c0, <<>>) = c0 /\ WithThinking(c1, <<>>) = c1 /\ WithSignature(c2, <<>>) = c2
      /\ c0.type = block.type
      /\ block.type = "tool_use" => WithInput(c3, block.input) = block
      /\ block.type # "tool_use" => c3 = block
  BY BlockMade
<1>5. /\ s1 \in Seq(Events) /\ s2 \in Seq(Events) /\ s3 \in Seq(Events)
      /\ s4 \in Seq(Events) /\ s5 \in Seq(Events) /\ s6 \in Seq(Events)
  <2>1. BlockStart(k, c0) \in Events /\ BlockStop(k) \in Events
    BY <1>3, EventTypes
  <2>2. s1 \in Seq(Events) /\ s6 \in Seq(Events)
    BY <2>1
  <2>3. s2 \in Seq(Events)
    BY <1>2, PiecesTyped DEF Deltas
  <2>4. s3 \in Seq(Events)
    BY <1>2, PiecesTyped DEF Deltas
  <2>5. s4 \in Seq(Events)
    BY <1>2, PiecesTyped DEF Deltas
  <2>6. s5 \in Seq(Events)
    BY <1>2, PiecesTyped DEF Deltas
  <2> QED BY <2>2, <2>3, <2>4, <2>5, <2>6
<1> DEFINE asm == Reading(m, B, <<>>)
<1>6. FedAll(asm, s1) = Reading(m, Put(B, k, c0), P)
  <2>1. FedAll(asm, s1) = HandleEvent(asm, BlockStart(k, c0))
    BY FedSingle
  <2>2. HandleEvent(asm, BlockStart(k, c0)) = Reading(m, Put(B, k, c0), IF c0.type = "tool_use" THEN Put(<<>>, k, <<>>) ELSE <<>>)
    BY StartRead
  <2> QED BY <1>4, <2>1, <2>2
<1>7. FedAll(Reading(m, Put(B, k, c0), P), s2) = Reading(m, Put(B, k, c1), P)
  <2>1. FedAll(Reading(m, Put(B, k, WithText(c0, <<>>)), P), s2) = Reading(m, Put(B, k, c1), P)
    BY <1>2, <1>3, TextPieces
  <2> QED BY <1>4, <2>1
<1>8. FedAll(Reading(m, Put(B, k, c1), P), s3) = Reading(m, Put(B, k, c2), P)
  <2>1. FedAll(Reading(m, Put(B, k, WithThinking(c1, <<>>)), P), s3) = Reading(m, Put(B, k, c2), P)
    BY <1>2, <1>4, ThinkingPieces
  <2> QED BY <1>4, <2>1
<1>9. FedAll(Reading(m, Put(B, k, c2), P), s4) = Reading(m, Put(B, k, c3), P)
  <2>1. FedAll(Reading(m, Put(B, k, WithSignature(c2, <<>>)), P), s4) = Reading(m, Put(B, k, c3), P)
    BY <1>2, <1>4, SignaturePieces
  <2> QED BY <1>4, <2>1
<1>10. FedAll(Reading(m, Put(B, k, c3), P), s5) = Reading(m, Put(B, k, c3), Q)
  <2>1. CASE block.type = "tool_use"
    BY <1>2, <2>1, InputPieces
  <2>2. CASE block.type # "tool_use"
    <3>1. s5 = <<>>
      BY <2>2, PiecesOfNothing DEF Whole
    <3> QED BY <2>2, <3>1, FedNone
  <2> QED BY <2>1, <2>2
<1>11. FedAll(Reading(m, Put(B, k, c3), Q), s6) = Reading(m, Put(B, k, block), <<>>)
  <2>1. FedAll(Reading(m, Put(B, k, c3), Q), s6) = HandleEvent(Reading(m, Put(B, k, c3), Q), BlockStop(k))
    BY FedSingle
  <2>2. CASE block.type = "tool_use"
    <3>1. IsJSON(block.input) /\ block.input # <<>>
      BY <2>2, MessageStreamAssumption DEF Whole, IsJSON
    <3>2. HandleEvent(Reading(m, Put(B, k, c3), Put(<<>>, k, block.input)), BlockStop(k))
            = Reading(m, Put(B, k, WithInput(c3, block.input)), <<>>)
      BY <3>1, InputStopRead
    <3> QED BY <1>4, <2>1, <2>2, <3>2
  <2>3. CASE block.type # "tool_use"
    BY <1>4, <2>1, <2>3, StopRead
  <2> QED BY <2>2, <2>3
<1> HIDE DEF s1, s2, s3, s4, s5, s6, c1, c2, c3, P, Q
<1> DEFINE t2 == s1 \o s2
           t3 == t2 \o s3
           t4 == t3 \o s4
           t5 == t4 \o s5
<1>12. t2 \in Seq(Events) /\ FedAll(asm, t2) = Reading(m, Put(B, k, c1), P)
  BY <1>5, <1>6, <1>7, FedOnward
<1> HIDE DEF t2
<1>13. t3 \in Seq(Events) /\ FedAll(asm, t3) = Reading(m, Put(B, k, c2), P)
  BY <1>5, <1>8, <1>12, FedOnward
<1> HIDE DEF t3
<1>14. t4 \in Seq(Events) /\ FedAll(asm, t4) = Reading(m, Put(B, k, c3), P)
  BY <1>5, <1>9, <1>13, FedOnward
<1> HIDE DEF t4
<1>15. t5 \in Seq(Events) /\ FedAll(asm, t5) = Reading(m, Put(B, k, c3), Q)
  BY <1>5, <1>10, <1>14, FedOnward
<1> HIDE DEF t5
<1>16. t5 \o s6 \in Seq(Events) /\ FedAll(asm, t5 \o s6) = Reading(m, Put(B, k, block), <<>>)
  BY <1>5, <1>11, <1>15, FedOnward
<1> QED BY <1>1, <1>16 DEF t2, t3, t4, t5

\* The synthesiser's delta holds all of a text, and there is none of an empty one.
LEMMA TextAtOnce ==
    ASSUME NEW m, NEW B, NEW P, NEW k \in Nat, NEW c \in Block, NEW data \in Text
    PROVE  /\ NonEmpty(Delta(k, "text_delta", data)) \in Seq(Events)
           /\ FedAll(Reading(m, Put(B, k, WithText(c, <<>>)), P), NonEmpty(Delta(k, "text_delta", data)))
                = Reading(m, Put(B, k, WithText(c, data)), P)
<1> DEFINE ev == Delta(k, "text_delta", data)
           c0 == WithText(c, <<>>)
<1>1. ev \in Events /\ ev.data = data
  BY EventTypes DEF Deltas, Delta
<1>2. <<ev>> \in Seq(Events) /\ <<>> \in Seq(Events)
  BY <1>1
<1>3. CASE data = <<>>
  BY <1>1, <1>2, <1>3, FedNone DEF NonEmpty
<1>4. CASE data # <<>>
  <2>1. NonEmpty(ev) = <<ev>>
    BY <1>1, <1>4 DEF NonEmpty
  <2>2. c0.text = <<>> /\ WithText(c0, data) = WithText(c, data)
    BY FieldIsSet
  <2>3. <<>> \o data = data
    BY DEF Text
  <2> HIDE DEF c0
  <2>4. HandleEvent(Reading(m, Put(B, k, c0), P), ev) = Reading(m, Put(B, k, WithText(c0, c0.text \o data)), P)
    BY DeltaRead
  <2> HIDE DEF ev
  <2>5. FedAll(Reading(m, Put(B, k, c0), P), <<ev>>) = HandleEvent(Reading(m, Put(B, k, c0), P), ev)
    BY FedSingle
  <2>6. FedAll(Reading(m, Put(B, k, c0), P), <<ev>>) = Reading(m, Put(B, k, WithText(c, data)), P)
    BY <2>2, <2>3, <2>4, <2>5
  <2> QED BY <1>2, <2>1, <2>6 DEF ev, c0
<1> QED BY <1>3, <1>4

LEMMA ThinkingAtOnce ==
    ASSUME NEW m, NEW B, NEW P, NEW k \in Nat, NEW c \in Block, NEW data \in Text
    PROVE  /\ NonEmpty(Delta(k, "thinking_delta", data)) \in Seq(Events)
           /\ FedAll(Reading(m, Put(B, k, WithThinking(c, <<>>)), P), NonEmpty(Delta(k, "thinking_delta", data)))
                = Reading(m, Put(B, k, WithThinking(c, data)), P)
<1> DEFINE ev == Delta(k, "thinking_delta", data)
           c0 == WithThinking(c, <<>>)
<1>1. ev \in Events /\ ev.data = data
  BY EventTypes DEF Deltas, Delta
<1>2. <<ev>> \in Seq(Events) /\ <<>> \in Seq(Events)
  BY <1>1
<1>3. CASE data = <<>>
  BY <1>1, <1>2, <1>3, FedNone DEF NonEmpty
<1>4. CASE data # <<>>
  <2>1. NonEmpty(ev) = <<ev>>
    BY <1>1, <1>4 DEF NonEmpty
  <2>2. c0.thinking = <<>> /\ WithThinking(c0, data) = WithThinking(c, data)
    BY FieldIsSet
  <2>3. <<>> \o data = data
    BY DEF Text
  <2> HIDE DEF c0
  <2>4. HandleEvent(Reading(m, Put(B, k, c0), P), ev) = Reading(m, Put(B, k, WithThinking(c0, c0.thinking \o data)), P)
    BY DeltaRead
  <2> HIDE DEF ev
  <2>5. FedAll(Reading(m, Put(B, k, c0), P), <<ev>>) = HandleEvent(Reading(m, Put(B, k, c0), P), ev)
    BY FedSingle
  <2>6. FedAll(Reading(m, Put(B, k, c0), P), <<ev>>) = Reading(m, Put(B, k, WithThinking(c, data)), P)
    BY <2>2, <2>3, <2>4, <2>5
  <2> QED BY <1>2, <2>1, <2>6 DEF ev, c0
<1> QED BY <1>3, <1>4

LEMMA SignatureAtOnce ==
    ASSUME NEW m, NEW B, NEW P, NEW k \in Nat, NEW c \in Block, NEW data \in Text
    PROVE  /\ NonEmpty(Delta(k, "signature_delta", data)) \in Seq(Events)
           /\ FedAll(Reading(m, Put(B, k, WithSignature(c, <<>>)), P), NonEmpty(Delta(k, "signature_delta", data)))
                = Reading(m, Put(B, k, WithSignature(c, data)), P)
<1> DEFINE ev == Delta(k, "signature_delta", data)
           c0 == WithSignature(c, <<>>)
<1>1. ev \in Events /\ ev.data = data
  BY EventTypes DEF Deltas, Delta
<1>2. <<ev>> \in Seq(Events) /\ <<>> \in Seq(Events)
  BY <1>1
<1>3. CASE data = <<>>
  BY <1>1, <1>2, <1>3, FedNone DEF NonEmpty
<1>4. CASE data # <<>>
  <2>1. NonEmpty(ev) = <<ev>>
    BY <1>1, <1>4 DEF NonEmpty
  <2>2. c0.signature = <<>> /\ WithSignature(c0, data) = WithSignature(c, data)
    BY FieldIsSet
  <2>3. <<>> \o data = data
    BY DEF Text
  <2> HIDE DEF c0
  <2>4. HandleEvent(Reading(m, Put(B, k, c0), P), ev) = Reading(m, Put(B, k, WithSignature(c0, c0.signature \o data)), P)
    BY DeltaRead
  <2> HIDE DEF ev
  <2>5. FedAll(Reading(m, Put(B, k, c0), P), <<ev>>) = HandleEvent(Reading(m, Put(B, k, c0), P), ev)
    BY FedSingle
  <2>6. FedAll(Reading(m, Put(B, k, c0), P), <<ev>>) = Reading(m, Put(B, k, WithSignature(c, data)), P)
    BY <2>2, <2>3, <2>4, <2>5
  <2> QED BY <1>2, <2>1, <2>6 DEF ev, c0
<1> QED BY <1>3, <1>4

\* The events SynthesizeSSE writes for a block.
LEMMA BlockRead ==
    ASSUME NEW m, NEW B, NEW k \in Nat, NEW block \in Block, Whole(block)
    PROVE  /\ BlockEvents(k, block) \in Seq(Events)
           /\ FedAll(Reading(m, B, <<>>), BlockEvents(k, block)) = Reading(m, Put(B, k, block), <<>>)
<1> DEFINE c0 == StartShape(block)
           c1 == WithText(c0, IF block.type = "text" THEN block.text ELSE <<>>)
           c2 == WithThinking(c1, block.thinking)
           c3 == WithSignature(c2, block.signature)
           P == IF block.type = "tool_use" THEN Put(<<>>, k, <<>>) ELSE <<>>
           Q == IF block.type = "tool_use" THEN Put(<<>>, k, block.input) ELSE <<>>
           asm == Reading(m, B, <<>>)
           start == BlockStart(k, c0)
           stop == BlockStop(k)
           deltas == DeltaPayloads(k, block)
<1>1. BlockEvents(k, block) = <<start>> \o deltas \o <<stop>>
  BY DEF BlockEvents, BlockStart, BlockStop
<1>2. block.text \in Text /\ block.thinking \in Text /\ block.signature \in Text /\ block.input \in Text
  BY DEF Block
<1>3. c0 \in Block
  BY StartTyped
<1>4. /\ c1 \in Block /\ c2 \in Block /\ c3 \in Block
      /\ WithText(c0, <<>>) = c0 /\ WithThinking(c1, <<>>) = c1 /\ WithSignature(c2, <<>>) = c2
      /\ c0.type = block.type
      /\ block.type = "tool_use" => WithInput(c3, block.input) = block
      /\ block.type # "tool_use" => c3 = block
  BY BlockMade
<1>5. start \in Events /\ stop \in Events
  BY <1>3, EventTypes
<1>6. HandleEvent(asm, start) = Reading(m, Put(B, k, c0), P)
  <2>1. HandleEvent(asm, BlockStart(k, c0)) = Reading(m, Put(B, k, c0), IF c0.type = "tool_use" THEN Put(<<>>, k, <<>>) ELSE <<>>)
    BY StartRead
  <2> QED BY <1>4, <2>1
<1>7. deltas \in Seq(Events) /\ FedAll(Reading(m, Put(B, k, c0), P), deltas) = Reading(m, Put(B, k, c3), Q)
  <2>1. CASE block.type = "text"
    <3>1. deltas = NonEmpty(Delta(k, "text_delta", block.text))
      BY <2>1 DEF DeltaPayloads
    <3>2. c1 = WithText(c0, block.text) /\ P = <<>> /\ Q = <<>>
      BY <2>1
    <3>3. block.thinking = <<>> /\ block.signature = <<>>
      BY <2>1 DEF Whole
    <3>4. c3 = c1
      BY <1>4, <3>3
    <3> HIDE DEF c0, c1, c3, deltas, P, Q
    <3>5. /\ NonEmpty(Delta(k, "text_delta", block.text)) \in Seq(Events)
          /\ FedAll(Reading(m, Put(B, k, WithText(c0, <<>>)), <<>>), NonEmpty(Delta(k, "text_delta", block.text)))
                = Reading(m, Put(B, k, WithText(c0, block.text)), <<>>)
      BY <1>2, <1>3, TextAtOnce
    <3> QED BY <1>4, <3>1, <3>2, <3>4, <3>5
  <2>2. CASE block.type = "tool_use"
    <3> DEFINE ev == Delta(k, "input_json_delta", block.input)
    <3>1. deltas = <<ev>>
      BY <2>2, MessageStreamAssumption DEF DeltaPayloads, Whole, IsJSON
    <3>2. c1 = WithText(c0, <<>>) /\ P = Put(<<>>, k, <<>>) /\ Q = Put(<<>>, k, block.input)
      BY <2>2
    <3>3. block.thinking = <<>> /\ block.signature = <<>>
      BY <2>2 DEF Whole
    <3>4. c3 = c0
      BY <1>4, <3>2, <3>3
    <3>5. ev \in Events
      BY <1>2, EventTypes DEF Deltas
    <3> HIDE DEF c0, c3, deltas, P, Q
    <3>6. PICK none : none = <<>>
      OBVIOUS
    <3>7. none \o block.input = block.input /\ P = Put(<<>>, k, none)
      BY <1>2, <3>2, <3>6 DEF Text
    <3>8. HandleEvent(Reading(m, Put(B, k, c0), Put(<<>>, k, none)), ev) = Reading(m, Put(B, k, c0), Put(<<>>, k, none \o block.input))
      BY InputRead
    <3> HIDE DEF ev
    <3>9. FedAll(Reading(m, Put(B, k, c0), P), <<ev>>) = HandleEvent(Reading(m, Put(B, k, c0), P), ev)
      BY FedSingle
    <3>10. <<ev>> \in Seq(Events)
      BY <3>5
    <3> QED BY <3>1, <3>2, <3>4, <3>7, <3>8, <3>9, <3>10
  <2>3. CASE block.type = "thinking"
    <3> DEFINE d1 == NonEmpty(Delta(k, "thinking_delta", block.thinking))
               d2 == NonEmpty(Delta(k, "signature_delta", block.signature))
    <3>1. deltas = d1 \o d2
      BY <2>3 DEF DeltaPayloads
    <3>2. c1 = WithText(c0, <<>>) /\ P = <<>> /\ Q = <<>>
      BY <2>3
    <3>3. d1 \in Seq(Events) /\ FedAll(Reading(m, Put(B, k, WithThinking(c1, <<>>)), <<>>), d1) = Reading(m, Put(B, k, c2), <<>>)
      BY <1>2, <1>4, ThinkingAtOnce
    <3>4. d2 \in Seq(Events) /\ FedAll(Reading(m, Put(B, k, WithSignature(c2, <<>>)), <<>>), d2) = Reading(m, Put(B, k, c3), <<>>)
      BY <1>2, <1>4, SignatureAtOnce
    <3> HIDE DEF c0, c1, c2, c3, deltas, P, Q, d1, d2
    <3>5. FedAll(Reading(m, Put(B, k, c0), <<>>), d1) = Reading(m, Put(B, k, c2), <<>>)
      BY <1>4, <3>2, <3>3
    <3>6. FedAll(Reading(m, Put(B, k, c2), <<>>), d2) = Reading(m, Put(B, k, c3), <<>>)
      BY <1>4, <3>4
    <3>7. d1 \o d2 \in Seq(Events) /\ FedAll(Reading(m, Put(B, k, c0), <<>>), d1 \o d2) = Reading(m, Put(B, k, c3), <<>>)
      BY <3>3, <3>4, <3>5, <3>6, FedOnward
    <3> QED BY <3>1, <3>2, <3>7
  <2>4. CASE block.type = "other"
    <3>1. deltas = <<>>
      BY <2>4 DEF DeltaPayloads
    <3>2. c1 = WithText(c0, <<>>) /\ P = <<>> /\ Q = <<>>
      BY <2>4
    <3>3. block.thinking = <<>> /\ block.signature = <<>>
      BY <2>4 DEF Whole
    <3>4. c3 = c0
      BY <1>4, <3>2, <3>3
    <3> HIDE DEF c0, c3, deltas, P, Q
    <3> QED BY <3>1, <3>2, <3>4, FedNone
  <2> QED BY <2>1, <2>2, <2>3, <2>4 DEF Block
<1>8. HandleEvent(Reading(m, Put(B, k, c3), Q), stop) = Reading(m, Put(B, k, block), <<>>)
  <2>1. CASE block.type = "tool_use"
    <3>1. IsJSON(block.input) /\ block.input # <<>>
      BY <2>1, MessageStreamAssumption DEF Whole, IsJSON
    <3>2. HandleEvent(Reading(m, Put(B, k, c3), Put(<<>>, k, block.input)), BlockStop(k))
            = Reading(m, Put(B, k, WithInput(c3, block.input)), <<>>)
      BY <3>1, InputStopRead
    <3> QED BY <1>4, <2>1, <3>2
  <2>2. CASE block.type # "tool_use"
    BY <1>4, <2>2, StopRead
  <2> QED BY <2>1, <2>2
<1> HIDE DEF c0, c1, c2, c3, P, Q, asm, start, stop, deltas
<1>9. <<start>> \in Seq(Events) /\ <<stop>> \in Seq(Events)
  BY <1>5
<1>10. FedAll(asm, <<start>>) = Reading(m, Put(B, k, c0), P)
  BY <1>6, FedSingle
<1>11. FedAll(Reading(m, Put(B, k, c3), Q), <<stop>>) = Reading(m, Put(B, k, block), <<>>)
  BY <1>8, FedSingle
<1> DEFINE s1 == <<start>>
           s3 == <<stop>>
           s2 == s1 \o deltas
<1> HIDE DEF s1, s3
<1>12. s1 \in Seq(Events) /\ s3 \in Seq(Events) /\ FedAll(asm, s1) = Reading(m, Put(B, k, c0), P)
       /\ FedAll(Reading(m, Put(B, k, c3), Q), s3) = Reading(m, Put(B, k, block), <<>>)
  BY <1>9, <1>10, <1>11 DEF s1, s3
<1>13. s2 \in Seq(Events) /\ FedAll(asm, s2) = Reading(m, Put(B, k, c3), Q)
  BY <1>7, <1>12, FedOnward
<1> HIDE DEF s2
<1>14. s2 \o s3 \in Seq(Events) /\ FedAll(asm, s2 \o s3) = Reading(m, Put(B, k, block), <<>>)
  BY <1>12, <1>13, FedOnward
<1> QED BY <1>1, <1>14 DEF s1, s2, s3, asm

-----------------------------------------------------------------------------
(***************************************************************************)
(* All the blocks.                                                         *)
(***************************************************************************)
Flattening(f, seqs, n) ==
    f = [i \in 1..n |-> IF i = 1 THEN seqs[i] ELSE f[i - 1] \o seqs[i]]

\* The recursion of FlattenSeq is one that ends.
LEMMA FlatteningExists ==
    ASSUME NEW seqs, NEW n \in Nat
    PROVE  \E f : Flattening(f, seqs, n)
<1> DEFINE S == {k \in Nat : \E f : Flattening(f, seqs, k)}
<1>1. 0 \in S
  <2>1. Flattening([i \in 1..0 |-> {}], seqs, 0)
    BY DEF Flattening
  <2> QED BY <2>1
<1>2. ASSUME NEW k \in Nat, k \in S PROVE k + 1 \in S
  <2>1. PICK f : Flattening(f, seqs, k)
    BY <1>2
  <2> DEFINE g == [i \in 1..k+1 |-> IF i = k + 1 THEN IF k = 0 THEN seqs[1] ELSE f[k] \o seqs[k + 1] ELSE f[i]]
  <2>2. \A i \in 1..k : f[i] = IF i = 1 THEN seqs[i] ELSE f[i - 1] \o seqs[i]
    BY <2>1 DEF Flattening
  <2>3. ASSUME NEW i \in 1..k+1 PROVE g[i] = IF i = 1 THEN seqs[i] ELSE g[i - 1] \o seqs[i]
    <3>1. CASE i = k + 1
      <4>1. k # 0 => g[i - 1] = f[k]
        BY <3>1
      <4> QED BY <3>1, <4>1
    <3>2. CASE i # k + 1
      <4>1. g[i] = f[i] /\ (i # 1 => g[i - 1] = f[i - 1]) /\ i \in 1..k
        BY <3>2
      <4> QED BY <2>2, <4>1
    <3> QED BY <3>1, <3>2
  <2>4. Flattening(g, seqs, k + 1)
    <3> DEFINE h == [i \in 1..k+1 |-> IF i = 1 THEN seqs[i] ELSE g[i - 1] \o seqs[i]]
    <3>1. g = [i \in 1..k+1 |-> g[i]]
      OBVIOUS
    <3> HIDE DEF g
    <3>2. g = h
      BY <2>3, <3>1
    <3> QED BY <3>2 DEF Flattening
  <2> HIDE DEF g
  <2> QED BY <2>4
<1> HIDE DEF S
<1>3. Nat \subseteq S
  BY <1>1, <1>2, NatSetInduction
<1> QED BY <1>3 DEF S

\* What each of the blocks adds to what is read.
BlockByBlock(m, Blocks, content) ==
    \A i \in 1..Len(content) :
       /\ Blocks[i] \in Seq(Events)
       /\ \A B : FedAll(Reading(m, B, <<>>), Blocks[i]) = Reading(m, Put(B, i, content[i]), <<>>)

\* One block more of the content.
LEMMA PrefixPut ==
    ASSUME NEW content \in Seq(Block), NEW i \in Nat, i + 1 <= Len(content)
    PROVE  Put(SubSeq(content, 1, i), i + 1, content[i + 1]) = SubSeq(content, 1, i + 1)
BY DEF Put

\* Streams that each make a block make the whole content, one after another.
LEMMA BlocksRead ==
    ASSUME NEW m, NEW content \in Seq(Block), NEW Blocks, Len(Blocks) = Len(content), Len(content) > 0,
           BlockByBlock(m, Blocks, content)
    PROVE  /\ FlattenSeq(Blocks) \in Seq(Events)
           /\ FedAll(Reading(m, <<>>, <<>>), FlattenSeq(Blocks)) = Reading(m, content, <<>>)
<1> DEFINE n == Len(content)
           f == CHOOSE g : Flattening(g, Blocks, n)
           R(i) == Reading(m, SubSeq(content, 1, i), <<>>)
           asm == Reading(m, <<>>, <<>>)
<1>1. n \in Nat /\ n > 0
  OBVIOUS
<1>2. Flattening(f, Blocks, n)
  BY <1>1, FlatteningExists
<1>3. FlattenSeq(Blocks) = f[n]
  BY <1>1 DEF FlattenSeq, Flattening
<1> HIDE DEF f
<1> DEFINE S == {i \in Nat : 1 <= i /\ i <= n => f[i] \in Seq(Events) /\ FedAll(asm, f[i]) = R(i)}
<1>4. 0 \in S
  OBVIOUS
<1>5. ASSUME NEW i \in Nat, i \in S PROVE i + 1 \in S
  <2> SUFFICES ASSUME i + 1 <= n PROVE f[i + 1] \in Seq(Events) /\ FedAll(asm, f[i + 1]) = R(i + 1)
    OBVIOUS
  <2> DEFINE more == Blocks[i + 1]
             before == SubSeq(content, 1, i)
  <2>1. more \in Seq(Events) /\ FedAll(Reading(m, before, <<>>), more) = Reading(m, Put(before, i + 1, content[i + 1]), <<>>)
    BY DEF BlockByBlock
  <2>2. Put(before, i + 1, content[i + 1]) = SubSeq(content, 1, i + 1)
    BY PrefixPut
  <2>3. CASE i = 0
    <3>1. f[i + 1] = more
      BY <1>1, <1>2, <2>3 DEF Flattening
    <3>2. before = <<>>
      BY <2>3
    <3> QED BY <2>1, <2>2, <3>1, <3>2
  <2>4. CASE i # 0
    <3>1. f[i + 1] = f[i] \o more
      <4>1. \A j \in 1..n : f[j] = IF j = 1 THEN Blocks[j] ELSE f[j - 1] \o Blocks[j]
        BY <1>2 DEF Flattening
      <4>2. PICK j : j = i + 1
        OBVIOUS
      <4>3. j \in 1..n /\ j # 1 /\ j - 1 = i
        BY <1>1, <2>4, <4>2
      <4>4. f[j] = f[j - 1] \o Blocks[j]
        BY ONLY <4>1, <4>3
      <4> QED BY ONLY <4>2, <4>3, <4>4 DEF more
    <3>2. f[i] \in Seq(Events) /\ FedAll(asm, f[i]) = Reading(m, before, <<>>)
      BY <1>5, <2>4
    <3> HIDE DEF more, before, asm
    <3>3. f[i] \o more \in Seq(Events) /\ FedAll(asm, f[i] \o more) = Reading(m, Put(before, i + 1, content[i + 1]), <<>>)
      BY <2>1, <3>2, FedOnward
    <3> QED BY <2>2, <3>1, <3>3
  <2> QED BY <2>3, <2>4
<1>6. n \in S
  <2> HIDE DEF S
  <2>1. Nat \subseteq S
    BY <1>4, <1>5, NatSetInduction
  <2> QED BY <1>1, <2>1
<1>7. SubSeq(content, 1, n) = content
  OBVIOUS
<1>8. f[n] \in Seq(Events) /\ FedAll(asm, f[n]) = R(n)
  BY <1>1, <1>6
<1> HIDE DEF n
<1> QED BY <1>3, <1>7, <1>8

-----------------------------------------------------------------------------
(***************************************************************************)
(* The whole message.                                                      *)
(***************************************************************************)
IsSet == TRUE

MessageStart(m) == [event |-> "message_start", meta |-> m.meta, usage |-> UsageSide(m.usage, {"input"})]
MessageDelta(m) == [event |-> "message_delta", stop |-> m.stop, usage |-> UsageSide(m.usage, {"output"})]
MessageStop == [event |-> "message_stop"]

FullyRead(m, stopped) == Assembler(m.meta, m.usage, m.stop, m.content, <<>>, Unset, Unset, stopped)

\* The two sides of a usage are the usage.
LEMMA SidesAre ==
    ASSUME NEW u \in Usages
    PROVE  /\ Over(UsageSide(u, {"input"}), <<>>) = UsageSide(u, {"input"})
           /\ Over(UsageSide(u, {"output"}), UsageSide(u, {"input"})) = u
           /\ UsageSide(u, {"input"}) \in Sides /\ UsageSide(u, {"output"}) \in Sides
<1>1. DOMAIN u = {"input", "output"} /\ u["input"] \in Nat /\ u["output"] \in Nat
  BY DEF Usages
<1>2. UsageSide(u, {"input"}) = [s \in {"input"} |-> u[s]] /\ UsageSide(u, {"output"}) = [s \in {"output"} |-> u[s]]
  BY <1>1 DEF UsageSide
<1>3. UsageSide(u, {"input"}) \in [{"input"} -> Nat] /\ UsageSide(u, {"output"}) \in [{"output"} -> Nat]
  BY <1>1, <1>2
<1>4. UsageSide(u, {"input"}) \in Sides /\ UsageSide(u, {"output"}) \in Sides
  BY <1>3 DEF Sides
<1>5. Over(UsageSide(u, {"input"}), <<>>) = UsageSide(u, {"input"})
  BY <1>2 DEF Over
<1>6. Over(UsageSide(u, {"output"}), UsageSide(u, {"input"})) = [s \in {"input", "output"} |-> u[s]]
  BY <1>2 DEF Over
<1>7. u = [s \in {"input", "output"} |-> u[s]]
  BY DEF Usages
<1> QED BY <1>4, <1>5, <1>6, <1>7

LEMMA NewIs == NewAssembler = Assembler("", <<>>, "", <<>>, <<>>, FALSE, FALSE, FALSE)
BY Zenon DEF NewAssembler, Assembler

\* An assembler with one field set.
SetMeta(asm, v) == [asm EXCEPT !.meta = v]
SetUsage(asm, v) == [asm EXCEPT !.usage = v]
SetStop(asm, v) == [asm EXCEPT !.stop = v]
SetBlocks(asm, v) == [asm EXCEPT !.blocks = v]
SetTruncated(asm, v) == [asm EXCEPT !.truncated = v]
SetError(asm, v) == [asm EXCEPT !.error = v]
SetStopped(asm, v) == [asm EXCEPT !.stopped = v]

\* One field set, the others left.
LEMMA AssemblerFields ==
    ASSUME NEW a, NEW u, NEW y, NEW B, NEW P, NEW t, NEW e, NEW s, NEW v
    PROVE  /\ SetMeta(Assembler(a, u, y, B, P, t, e, s), v) = Assembler(v, u, y, B, P, t, e, s)
           /\ SetUsage(Assembler(a, u, y, B, P, t, e, s), v) = Assembler(a, v, y, B, P, t, e, s)
           /\ SetStop(Assembler(a, u, y, B, P, t, e, s), v) = Assembler(a, u, v, B, P, t, e, s)
           /\ SetBlocks(Assembler(a, u, y, B, P, t, e, s), v) = Assembler(a, u, y, v, P, t, e, s)
           /\ SetTruncated(Assembler(a, u, y, B, P, t, e, s), v) = Assembler(a, u, y, B, P, v, e, s)
           /\ SetError(Assembler(a, u, y, B, P, t, e, s), v) = Assembler(a, u, y, B, P, t, v, s)
           /\ SetStopped(Assembler(a, u, y, B, P, t, e, s), v) = Assembler(a, u, y, B, P, t, e, v)
<1>1. SetMeta(Assembler(a, u, y, B, P, t, e, s), v) = Assembler(v, u, y, B, P, t, e, s)
  BY DEF Assembler, SetMeta
<1>2. SetUsage(Assembler(a, u, y, B, P, t, e, s), v) = Assembler(a, v, y, B, P, t, e, s)
  BY DEF Assembler, SetUsage
<1>3. SetStop(Assembler(a, u, y, B, P, t, e, s), v) = Assembler(a, u, v, B, P, t, e, s)
  BY DEF Assembler, SetStop
<1>4. SetBlocks(Assembler(a, u, y, B, P, t, e, s), v) = Assembler(a, u, y, v, P, t, e, s)
  BY DEF Assembler, SetBlocks
<1>5. SetTruncated(Assembler(a, u, y, B, P, t, e, s), v) = Assembler(a, u, y, B, P, v, e, s)
  BY DEF Assembler, SetTruncated
<1>6. SetError(Assembler(a, u, y, B, P, t, e, s), v) = Assembler(a, u, y, B, P, t, v, s)
  BY DEF Assembler, SetError
<1>7. SetStopped(Assembler(a, u, y, B, P, t, e, s), v) = Assembler(a, u, y, B, P, t, e, v)
  BY DEF Assembler, SetStopped
<1> QED BY <1>1, <1>2, <1>3, <1>4, <1>5, <1>6, <1>7

LEMMA AssemblerHas ==
    ASSUME NEW a, NEW u, NEW y, NEW B, NEW P, NEW t, NEW e, NEW s
    PROVE  LET asm == Assembler(a, u, y, B, P, t, e, s)
           IN  /\ asm.meta = a /\ asm.usage = u /\ asm.stop = y /\ asm.blocks = B /\ asm.partial = P
               /\ asm.truncated = t /\ asm.error = e /\ asm.stopped = s
BY DEF Assembler

\* The event that starts a message,
LEMMA MessageStartRead ==
    ASSUME NEW m, m.usage \in Usages
    PROVE  HandleEvent(NewAssembler, MessageStart(m)) = Reading(m, <<>>, <<>>)
<1> DEFINE ev == MessageStart(m)
           asm == Assembler(Unknown, <<>>, Unknown, <<>>, <<>>, Unset, Unset, Unset)
<1>1. NewAssembler = asm
  BY NewIs, Zenon DEF Unknown, Unset
<1>2. ev.event = "message_start" /\ ev.meta = m.meta /\ ev.usage = UsageSide(m.usage, {"input"})
  BY DEF MessageStart
<1>3. HandleEvent(NewAssembler, ev) = HandleMessageStart(NewAssembler, ev)
  BY <1>2 DEF HandleEvent
<1>4. Over(ev.usage, asm.usage) = UsageSide(m.usage, {"input"})
  BY <1>2, AssemblerHas, SidesAre
<1> DEFINE u == Over(ev.usage, asm.usage)
<1>5. HandleMessageStart(asm, ev) = SetUsage(SetMeta(asm, ev.meta), u)
  BY DEF HandleMessageStart, SetUsage, SetMeta
<1>6. SetMeta(asm, ev.meta) = Assembler(ev.meta, <<>>, Unknown, <<>>, <<>>, Unset, Unset, Unset)
  BY AssemblerFields
<1>7. \A w : SetUsage(Assembler(ev.meta, <<>>, Unknown, <<>>, <<>>, Unset, Unset, Unset), w)
               = Assembler(ev.meta, w, Unknown, <<>>, <<>>, Unset, Unset, Unset)
  BY AssemblerFields
<1> HIDE DEF ev, asm, u
<1>8. HandleMessageStart(asm, ev) = Assembler(ev.meta, u, Unknown, <<>>, <<>>, Unset, Unset, Unset)
  BY <1>5, <1>6, <1>7, Zenon
<1> QED BY <1>1, <1>2, <1>3, <1>4, <1>8 DEF u, Reading, ev

\* the one that brings its stop reason and the rest of its usage,
LEMMA MessageDeltaRead ==
    ASSUME NEW m, m.usage \in Usages
    PROVE  HandleEvent(Reading(m, m.content, <<>>), MessageDelta(m)) = FullyRead(m, Unset)
<1> DEFINE ev == MessageDelta(m)
           asm == Reading(m, m.content, <<>>)
           stop == IF ev.stop = "" THEN asm.stop ELSE ev.stop
           u == Over(ev.usage, asm.usage)
<1>1. ev.event = "message_delta" /\ ev.stop = m.stop /\ ev.usage = UsageSide(m.usage, {"output"})
  BY DEF MessageDelta
<1>2. HandleEvent(asm, ev) = HandleMessageDelta(asm, ev)
  BY <1>1 DEF HandleEvent
<1>3. asm.stop = Unknown /\ asm.usage = UsageSide(m.usage, {"input"})
  BY AssemblerHas DEF Reading
<1>4. u = m.usage /\ stop = m.stop
  BY <1>1, <1>3, SidesAre DEF Unknown
<1>5. HandleMessageDelta(asm, ev) = SetUsage(SetStop(asm, stop), u)
  BY DEF HandleMessageDelta, SetUsage, SetStop
<1>6. \A w : SetStop(asm, w)
               = Assembler(m.meta, UsageSide(m.usage, {"input"}), w, m.content, <<>>, Unset, Unset, Unset)
  BY AssemblerFields DEF Reading
<1>7. \A w, x : SetUsage(Assembler(m.meta, UsageSide(m.usage, {"input"}), w, m.content, <<>>, Unset, Unset, Unset), x)
               = Assembler(m.meta, x, w, m.content, <<>>, Unset, Unset, Unset)
  BY AssemblerFields
<1> HIDE DEF ev, asm, u, stop
<1>8. HandleMessageDelta(asm, ev) = Assembler(m.meta, u, stop, m.content, <<>>, Unset, Unset, Unset)
  BY <1>5, <1>6, <1>7, Zenon
<1> QED BY <1>2, <1>4, <1>8 DEF FullyRead, ev, asm

\* and the last one.
LEMMA MessageStopRead ==
    ASSUME NEW m
    PROVE  HandleEvent(FullyRead(m, Unset), MessageStop) = FullyRead(m, IsSet)
<1>1. \A asm : HandleEvent(asm, MessageStop) = SetStopped(asm, IsSet)
  BY DEF SetStopped, HandleEvent, MessageStop, IsSet
<1> QED BY <1>1, AssemblerFields DEF FullyRead

\* The end of the stream closes nothing when nothing is open.
LEMMA FinalizedIs ==
    ASSUME NEW m, NEW stopped
    PROVE  FinalizeOpen(FullyRead(m, stopped)) = [FullyRead(m, stopped) EXCEPT !.blocks = [i \in DOMAIN m.content |-> m.content[i]]]
<1> DEFINE asm == FullyRead(m, stopped)
           blocks == [i \in DOMAIN asm.blocks \cup DOMAIN asm.partial |->
                        IF i \in DOMAIN asm.partial
                        THEN [GetOrCreate(asm, i) EXCEPT !.input = ParsedInput(asm.partial[i])]
                        ELSE asm.blocks[i]]
           cut == asm.truncated \/ \E i \in DOMAIN asm.partial : asm.partial[i] # <<>> /\ ~IsJSON(asm.partial[i])
<1>1. asm.partial = <<>> /\ asm.blocks = m.content /\ asm.truncated = Unset
  BY AssemblerHas DEF FullyRead
<1>2. blocks = [i \in DOMAIN m.content |-> m.content[i]]
  <2>1. DOMAIN asm.partial = {}
    BY <1>1
  <2> QED BY <1>1, <2>1
<1>3. cut = Unset
  <2>1. DOMAIN asm.partial = {}
    BY <1>1
  <2> QED BY <1>1, <2>1 DEF Unset
<1>4. FinalizeOpen(asm) = SetTruncated(SetBlocks(asm, blocks), cut)
  BY DEF FinalizeOpen, SetTruncated, SetBlocks
<1> HIDE DEF blocks, cut, asm
<1>5. \A b, t : SetTruncated(SetBlocks(asm, b), t) = Assembler(m.meta, m.usage, m.stop, b, <<>>, t, Unset, stopped)
  BY AssemblerFields DEF asm, FullyRead
<1>6. FinalizeOpen(asm) = Assembler(m.meta, m.usage, m.stop, blocks, <<>>, Unset, Unset, stopped)
  BY <1>3, <1>4, <1>5, Zenon
<1>7. \A b : SetBlocks(asm, b) = Assembler(m.meta, m.usage, m.stop, b, <<>>, Unset, Unset, stopped)
  BY AssemblerFields DEF asm, FullyRead
<1> QED BY <1>2, <1>6, <1>7, Zenon DEF SetBlocks, asm

\* The indices of a content are in order.
LEMMA RankedIs ==
    ASSUME NEW n \in Nat, NEW r \in 1..n
    PROVE  Ranked(1..n, r) = r
<1>1. ASSUME NEW i \in 1..n PROVE Cardinality({j \in 1..n : j <= i}) = i
  <2>1. {j \in 1..n : j <= i} = 1..i
    OBVIOUS
  <2>2. Cardinality(1..i) = i
    BY FS_Interval
  <2> HIDE DEF Ranked
  <2> QED BY <2>1, <2>2, Zenon
<1> QED BY <1>1 DEF Ranked

MadeOf(type, name, text, thinking, signature, input) ==
    [type |-> type, name |-> name, text |-> text, thinking |-> thinking, signature |-> signature, input |-> input]

WithType(c, v) == [c EXCEPT !.type = v]
WithName(c, v) == [c EXCEPT !.name = v]

\* One field of a block set, the others left.
LEMMA MadeOfFields ==
    ASSUME NEW ty, NEW nm, NEW tx, NEW th, NEW sg, NEW in, NEW v
    PROVE  /\ WithType(MadeOf(ty, nm, tx, th, sg, in), v) = MadeOf(v, nm, tx, th, sg, in)
           /\ WithName(MadeOf(ty, nm, tx, th, sg, in), v) = MadeOf(ty, v, tx, th, sg, in)
           /\ WithText(MadeOf(ty, nm, tx, th, sg, in), v) = MadeOf(ty, nm, v, th, sg, in)
           /\ WithInput(MadeOf(ty, nm, tx, th, sg, in), v) = MadeOf(ty, nm, tx, th, sg, v)
<1>1. WithType(MadeOf(ty, nm, tx, th, sg, in), v) = MadeOf(v, nm, tx, th, sg, in)
  BY DEF WithType, MadeOf
<1>2. WithName(MadeOf(ty, nm, tx, th, sg, in), v) = MadeOf(ty, v, tx, th, sg, in)
  BY DEF WithName, MadeOf
<1>3. WithText(MadeOf(ty, nm, tx, th, sg, in), v) = MadeOf(ty, nm, v, th, sg, in)
  BY DEF WithText, MadeOf
<1>4. WithInput(MadeOf(ty, nm, tx, th, sg, in), v) = MadeOf(ty, nm, tx, th, sg, v)
  BY DEF WithInput, MadeOf
<1> QED BY <1>1, <1>2, <1>3, <1>4

LEMMA NoBlockIs == NoBlock = MadeOf("", "", <<>>, <<>>, <<>>, <<>>)
BY Zenon DEF NoBlock, MadeOf

\* The blocks the program makes of an empty one.
LEMMA BlocksOfNothing ==
    ASSUME NEW type, NEW name, NEW data
    PROVE  /\ WithName(WithType(NoBlock, type), name) = MadeOf(type, name, <<>>, <<>>, <<>>, <<>>)
           /\ WithText(WithType(NoBlock, type), data) = MadeOf(type, "", data, <<>>, <<>>, <<>>)
           /\ WithInput(WithName(WithType(NoBlock, type), name), data) = MadeOf(type, name, <<>>, <<>>, <<>>, data)
<1>1. PICK x, none : x = "" /\ none = <<>>
  OBVIOUS
<1>2. NoBlock = MadeOf(x, x, none, none, none, none)
  BY <1>1, NoBlockIs, Zenon
<1>3. /\ WithName(WithType(NoBlock, type), name) = MadeOf(type, name, none, none, none, none)
      /\ WithText(WithType(NoBlock, type), data) = MadeOf(type, x, data, none, none, none)
      /\ WithInput(WithName(WithType(NoBlock, type), name), data) = MadeOf(type, name, none, none, none, data)
  BY <1>2, MadeOfFields
<1> QED BY <1>1, <1>3, Zenon

\* A whole block is marshalled as it is.
LEMMA MarshalledIs ==
    ASSUME NEW block \in Block, Whole(block)
    PROVE  Marshalled(block) = block
<1>1. CASE block.type = "other"
  <2>1. block.text = <<>> /\ block.thinking = <<>> /\ block.signature = <<>> /\ block.input = <<>>
    BY <1>1 DEF Whole
  <2>2. block = MadeOf(block.type, block.name, block.text, block.thinking, block.signature, block.input)
    BY DEF Block, MadeOf
  <2>3. Marshalled(block) = WithName(WithType(NoBlock, "other"), block.name)
    BY <1>1 DEF Marshalled, WithName, WithType
  <2>4. PICK type : type = "other"
    OBVIOUS
  <2>5. WithName(WithType(NoBlock, type), block.name) = MadeOf(type, block.name, <<>>, <<>>, <<>>, <<>>)
    BY BlocksOfNothing
  <2>6. block = MadeOf(type, block.name, <<>>, <<>>, <<>>, <<>>)
    BY ONLY <1>1, <2>1, <2>2, <2>4, Zenon
  <2> QED BY ONLY <2>3, <2>4, <2>5, <2>6, Zenon
<1>2. CASE block.type # "other"
  BY <1>2 DEF Marshalled
<1> QED BY <1>1, <1>2

\* The content of an assembler that holds whole blocks.
LEMMA ContentIs ==
    ASSUME NEW content \in Seq(Block), \A i \in DOMAIN content : Whole(content[i])
    PROVE  Content(content) = content
<1>1. PICK n \in Nat : n = Len(content) /\ DOMAIN content = 1..n
  OBVIOUS
<1>2. Cardinality(1..n) = n
  BY FS_Interval
<1>3. ASSUME NEW i \in 1..n PROVE Marshalled(content[i]) = content[i]
  <2>1. content[i] \in Block /\ Whole(content[i])
    BY <1>1
  <2> QED BY <2>1, MarshalledIs
<1>4. Content(content) = [i \in 1..n |-> Marshalled(content[Ranked(1..n, i)])]
  BY <1>1, <1>2 DEF Content
<1>5. \A i \in 1..n : Marshalled(content[Ranked(1..n, i)]) = content[i]
  BY <1>3, RankedIs
<1>6. content = [i \in 1..n |-> content[i]]
  BY <1>1
<1> QED BY <1>4, <1>5, <1>6

\* What a message is assembled to, once every event of its stream is read.
LEMMA WholeIsAssembled ==
    ASSUME NEW m, WholeMessage(m), NEW events, FedAll(NewAssembler, events) = FullyRead(m, IsSet)
    PROVE  AssembleSSE(events) = [message |-> m, error |-> ""]
<1> DEFINE whole == FinalizeOpen(FullyRead(m, IsSet))
<1>1. m.content \in Seq(Block) /\ \A i \in DOMAIN m.content : Whole(m.content[i])
  BY DEF WholeMessage
<1>2. [i \in DOMAIN m.content |-> m.content[i]] = m.content
  BY <1>1
<1>3. whole = FullyRead(m, IsSet)
  <2>1. whole = SetBlocks(FullyRead(m, IsSet), m.content)
    BY <1>2, FinalizedIs, Zenon DEF SetBlocks
  <2>2. SetBlocks(FullyRead(m, IsSet), m.content) = FullyRead(m, IsSet)
    BY AssemblerFields DEF FullyRead
  <2> QED BY <2>1, <2>2
<1>4. /\ whole.meta = m.meta /\ whole.usage = m.usage /\ whole.stop = m.stop /\ whole.blocks = m.content
      /\ whole.truncated = Unset /\ whole.error = Unset /\ whole.stopped = IsSet
  BY <1>3, AssemblerHas DEF FullyRead
<1>5. StreamError(whole) = ""
  BY <1>4 DEF StreamError, Unset, IsSet
<1>6. Content(whole.blocks) = m.content
  BY <1>1, <1>4, ContentIs
<1>7. AssembleSSE(events) = [message |-> [meta |-> whole.meta, content |-> Content(whole.blocks), stop |-> whole.stop, usage |-> whole.usage],
                             error |-> StreamError(whole)]
  BY DEF AssembleSSE
<1>8. m = [meta |-> m.meta, content |-> m.content, stop |-> m.stop, usage |-> m.usage]
  BY DEF WholeMessage
<1> HIDE DEF whole
<1> QED BY <1>4, <1>5, <1>6, <1>7, <1>8

-----------------------------------------------------------------------------
(***************************************************************************)
(* A stream: an event that starts it, those of the blocks, two that end it. *)
(***************************************************************************)
Enveloped(m, s) == <<MessageStart(m)>> \o s \o <<MessageDelta(m), MessageStop>>

BlocksAll(m, s) ==
    s \in Seq(Events) /\ FedAll(Reading(m, <<>>, <<>>), s) = Reading(m, m.content, <<>>)

\* All but the last event of the stream.
Parts(m, s) == <<MessageStart(m)>> \o s \o <<MessageDelta(m)>>

\* The events of the blocks, within those that start and end the message, make the message, and not before the last one.
LEMMA EnvelopeRead ==
    ASSUME NEW m, WholeMessage(m), NEW s, BlocksAll(m, s)
    PROVE  /\ Parts(m, s) \in Seq(Events)
           /\ Enveloped(m, s) = Append(Parts(m, s), MessageStop)
           /\ FedAll(NewAssembler, Parts(m, s)) = FullyRead(m, Unset)
           /\ FedAll(NewAssembler, Enveloped(m, s)) = FullyRead(m, IsSet)
<1> DEFINE start == MessageStart(m)
           delta == MessageDelta(m)
           s1 == <<start>>
           s2 == s1 \o s
           s3 == <<delta>>
<1>1. m.usage \in Usages /\ m.meta \in Strings /\ m.stop \in Strings
  BY DEF WholeMessage
<1>2. start \in Events /\ delta \in Events
  <2>1. UsageSide(m.usage, {"input"}) \in Sides /\ UsageSide(m.usage, {"output"}) \in Sides
    BY <1>1, SidesAre
  <2> QED BY <1>1, <2>1 DEF MessageStart, MessageDelta, Events
<1>3. s \in Seq(Events) /\ FedAll(Reading(m, <<>>, <<>>), s) = Reading(m, m.content, <<>>)
  BY DEF BlocksAll
<1>4. HandleEvent(NewAssembler, start) = Reading(m, <<>>, <<>>)
  BY <1>1, MessageStartRead
<1>5. HandleEvent(Reading(m, m.content, <<>>), delta) = FullyRead(m, Unset)
  BY <1>1, MessageDeltaRead
<1> HIDE DEF start, delta
<1>6. s1 \in Seq(Events) /\ s3 \in Seq(Events)
  BY <1>2
<1>7. FedAll(NewAssembler, s1) = Reading(m, <<>>, <<>>)
  BY <1>4, FedSingle
<1>8. FedAll(Reading(m, m.content, <<>>), s3) = FullyRead(m, Unset)
  BY <1>5, FedSingle
<1>9. Enveloped(m, s) = Append(Parts(m, s), MessageStop)
  BY <1>2, <1>3 DEF Enveloped, Parts, start, delta
<1>10. Parts(m, s) = s2 \o s3
  BY DEF Parts, start, delta
<1> HIDE DEF s1, s3
<1>11. s2 \in Seq(Events) /\ FedAll(NewAssembler, s2) = Reading(m, m.content, <<>>)
  BY <1>3, <1>6, <1>7, FedOnward
<1> HIDE DEF s2
<1>12. s2 \o s3 \in Seq(Events) /\ FedAll(NewAssembler, s2 \o s3) = FullyRead(m, Unset)
  BY <1>6, <1>8, <1>11, FedOnward
<1>13. FedAll(NewAssembler, Append(Parts(m, s), MessageStop)) = FullyRead(m, IsSet)
  <2> DEFINE p == Parts(m, s)
             E == Events \cup {MessageStop}
  <2>1. p \in Seq(E) /\ MessageStop \in E
    BY <1>10, <1>12
  <2>2. FedAll(NewAssembler, p) = FullyRead(m, Unset)
    BY <1>10, <1>12
  <2> HIDE DEF p, E
  <2>3. FedAll(NewAssembler, Append(p, MessageStop)) = HandleEvent(FedAll(NewAssembler, p), MessageStop)
    BY <2>1, FedOne
  <2> QED BY <2>2, <2>3, MessageStopRead DEF p
<1> QED BY <1>9, <1>10, <1>12, <1>13

\* SynthesizeSSE gives such a stream,
LEMMA SynthesisedBlocks ==
    ASSUME NEW m, WholeMessage(m)
    PROVE  \E s : BlocksAll(m, s) /\ SynthesizeSSE(m) = Enveloped(m, s)
<1> DEFINE Blocks == [i \in DOMAIN m.content |-> BlockEvents(i, m.content[i])]
           s == FlattenSeq(Blocks)
<1>1. SynthesizeSSE(m) = Enveloped(m, s)
  BY DEF SynthesizeSSE, Enveloped, MessageStart, MessageDelta, MessageStop
<1>2. m.content \in Seq(Block) /\ \A i \in DOMAIN m.content : Whole(m.content[i])
  BY DEF WholeMessage
<1>3. Len(Blocks) = Len(m.content) /\ DOMAIN Blocks = DOMAIN m.content
  BY <1>2
<1>4. CASE Len(m.content) > 0
  <2>1. ASSUME NEW i \in 1..Len(m.content)
        PROVE  /\ Blocks[i] \in Seq(Events)
               /\ \A B : FedAll(Reading(m, B, <<>>), Blocks[i]) = Reading(m, Put(B, i, m.content[i]), <<>>)
    <3>1. PICK block : block = m.content[i]
      OBVIOUS
    <3>2. block \in Block /\ Whole(block) /\ i \in Nat /\ Blocks[i] = BlockEvents(i, block)
      BY <1>2, <3>1
    <3> HIDE DEF Blocks
    <3>3. BlockEvents(i, block) \in Seq(Events) /\ \A B : FedAll(Reading(m, B, <<>>), BlockEvents(i, block)) = Reading(m, Put(B, i, block), <<>>)
      BY <3>2, BlockRead
    <3> QED BY <3>1, <3>2, <3>3
  <2> HIDE DEF Blocks
  <2>2. BlockByBlock(m, Blocks, m.content)
    BY <2>1 DEF BlockByBlock
  <2>3. BlocksAll(m, s)
    BY <1>2, <1>3, <1>4, <2>2, BlocksRead DEF BlocksAll
  <2> QED BY <1>1, <2>3
<1>5. CASE Len(m.content) = 0
  <2>1. m.content = <<>> /\ Blocks = <<>>
    BY <1>2, <1>5
  <2>2. s = <<>>
    BY <2>1 DEF FlattenSeq
  <2>3. <<>> \in Seq(Events)
    OBVIOUS
  <2>4. BlocksAll(m, s)
    BY <2>1, <2>2, <2>3, FedNone DEF BlocksAll
  <2> QED BY <1>1, <2>4
<1>6. Len(m.content) \in Nat
  BY <1>2
<1> QED BY <1>4, <1>5, <1>6

\* The first event, and the rest.
LEMMA FirstAndRest ==
    ASSUME NEW E, NEW a \in E, NEW t \in Seq(E)
    PROVE  (<<a>> \o <<>> \o t)[1] = a /\ Tail(<<a>> \o <<>> \o t) = t
<1>1. <<a>> \in Seq(E) /\ Len(<<a>>) = 1 /\ <<a>>[1] = a
  OBVIOUS
<1>2. PICK s : s = <<a>>
  OBVIOUS
<1>3. s \in Seq(E) /\ Len(s) = 1 /\ s[1] = a
  BY <1>1, <1>2
<1>4. s \o <<>> = s
  BY <1>3
<1>5. /\ s \o t \in Seq(E) /\ Len(s \o t) = 1 + Len(t)
      /\ \A i \in 1..1 + Len(t) : (s \o t)[i] = IF i <= 1 THEN s[i] ELSE t[i - 1]
  <2>1. s \in Seq(E) /\ t \in Seq(E)
    BY <1>3
  <2>2. PICK n : n = Len(s)
    OBVIOUS
  <2>3. /\ s \o t \in Seq(E) /\ Len(s \o t) = n + Len(t)
        /\ \A i \in 1..n + Len(t) : (s \o t)[i] = IF i <= n THEN s[i] ELSE t[i - n]
    BY <2>1, <2>2, ConcatProperties
  <2>4. n = 1
    BY <1>3, <2>2
  <2> QED BY <2>3, <2>4
<1>6. Tail(s \o t) = t
  <2>1. PICK u : u = s \o t
    OBVIOUS
  <2>2. u \in Seq(E) /\ Len(u) = 1 + Len(t) /\ \A i \in 1..Len(t) : u[i + 1] = t[i]
    <3>1. /\ u \in Seq(E) /\ Len(u) = 1 + Len(t) /\ Len(t) \in Nat
          /\ \A i \in 1..1 + Len(t) : u[i] = IF i <= 1 THEN s[i] ELSE t[i - 1]
      BY <1>5, <2>1
    <3>2. ASSUME NEW i \in 1..Len(t) PROVE u[i + 1] = t[i]
      <4>1. PICK j : j = i + 1
        OBVIOUS
      <4>2. j \in 1..1 + Len(t) /\ ~(j <= 1) /\ j - 1 = i
        BY <3>1, <4>1
      <4>3. u[j] = t[j - 1]
        BY <3>1, <4>2
      <4> QED BY <4>1, <4>2, <4>3
    <3> QED BY <3>1, <3>2
  <2>3. PICK v \in Seq(E) : v = Tail(u) /\ Len(v) = Len(t) /\ \A i \in 1..Len(t) : v[i] = u[i + 1]
    BY <2>2
  <2>4. v = t
    BY <2>2, <2>3, SeqEqual
  <2> QED BY <2>1, <2>3, <2>4
<1>7. (s \o t)[1] = a
  <2>1. 1 \in 1..1 + Len(t) /\ 1 <= 1
    OBVIOUS
  <2>2. (s \o t)[1] = s[1]
    BY <1>5, <2>1
  <2> QED BY <1>3, <2>2
<1> QED BY <1>2, <1>4, <1>6, <1>7

\* and so does the frontier.
LEMMA FrontierBlocks ==
    ASSUME NEW m, WholeMessage(m)
    PROVE  \E s : BlocksAll(m, s) /\ FrontierEvents(m) = Enveloped(m, s)
<1> DEFINE Blocks == [i \in DOMAIN m.content |-> FrontierBlock(i, m.content[i])]
           s == FlattenSeq(Blocks)
           empty == [m EXCEPT !.content = <<>>]
           plain == SynthesizeSSE(empty)
<1>1. FrontierEvents(m) = Enveloped(m, s)
  <2>1. empty.content = <<>> /\ empty.meta = m.meta /\ empty.stop = m.stop /\ empty.usage = m.usage
    BY DEF WholeMessage
  <2>2. MessageStart(empty) = MessageStart(m) /\ MessageDelta(empty) = MessageDelta(m)
    BY <2>1 DEF MessageStart, MessageDelta
  <2>3. plain = <<MessageStart(empty)>> \o FlattenSeq([i \in DOMAIN empty.content |-> BlockEvents(i, empty.content[i])])
                  \o <<MessageDelta(empty), MessageStop>>
    BY DEF SynthesizeSSE, MessageStart, MessageDelta, MessageStop
  <2>4. [i \in DOMAIN empty.content |-> BlockEvents(i, empty.content[i])] = <<>>
    BY <2>1
  <2>5. FlattenSeq(<<>>) = <<>>
    BY DEF FlattenSeq
  <2> DEFINE a == MessageStart(m)
             b == MessageDelta(m)
             c == MessageStop
  <2>6. FrontierEvents(m) = <<plain[1]>> \o s \o Tail(plain)
    BY DEF FrontierEvents
  <2>7. plain = <<MessageStart(m)>> \o <<>> \o <<MessageDelta(m), MessageStop>>
    BY <2>2, <2>3, <2>4, <2>5, Zenon
  <2> HIDE DEF plain, s, a, b, c
  <2>8. plain = <<a>> \o <<>> \o <<b, c>>
    BY <2>7 DEF a, b, c
  <2>9. plain[1] = a /\ Tail(plain) = <<b, c>>
    <3>1. PICK E : a \in E /\ b \in E /\ c \in E
      <4>1. a \in {a, b, c} /\ b \in {a, b, c} /\ c \in {a, b, c}
        OBVIOUS
      <4> QED BY <4>1
    <3>2. <<b, c>> \in Seq(E)
      BY <3>1
    <3>3. PICK t : t = <<b, c>>
      OBVIOUS
    <3>4. (<<a>> \o <<>> \o t)[1] = a /\ Tail(<<a>> \o <<>> \o t) = t
      BY <3>1, <3>2, <3>3, FirstAndRest
    <3> QED BY <2>8, <3>3, <3>4
  <2> QED BY <2>6, <2>9 DEF Enveloped, a, b, c
<1>2. m.content \in Seq(Block) /\ \A i \in DOMAIN m.content : Whole(m.content[i])
  BY DEF WholeMessage
<1>3. Len(Blocks) = Len(m.content) /\ DOMAIN Blocks = DOMAIN m.content
  BY <1>2
<1>4. CASE Len(m.content) > 0
  <2>1. ASSUME NEW i \in 1..Len(m.content)
        PROVE  /\ Blocks[i] \in Seq(Events)
               /\ \A B : FedAll(Reading(m, B, <<>>), Blocks[i]) = Reading(m, Put(B, i, m.content[i]), <<>>)
    <3>1. PICK block : block = m.content[i]
      OBVIOUS
    <3>2. block \in Block /\ Whole(block) /\ i \in Nat /\ Blocks[i] = FrontierBlock(i, block)
      BY <1>2, <3>1
    <3> HIDE DEF Blocks
    <3>3. FrontierBlock(i, block) \in Seq(Events) /\ \A B : FedAll(Reading(m, B, <<>>), FrontierBlock(i, block)) = Reading(m, Put(B, i, block), <<>>)
      BY <3>2, FrontierBlockRead
    <3> QED BY <3>1, <3>2, <3>3
  <2> HIDE DEF Blocks
  <2>2. BlockByBlock(m, Blocks, m.content)
    BY <2>1 DEF BlockByBlock
  <2>3. BlocksAll(m, s)
    BY <1>2, <1>3, <1>4, <2>2, BlocksRead DEF BlocksAll
  <2> QED BY <1>1, <2>3
<1>5. CASE Len(m.content) = 0
  <2>1. m.content = <<>> /\ Blocks = <<>>
    BY <1>2, <1>5
  <2>2. s = <<>>
    BY <2>1 DEF FlattenSeq
  <2>3. <<>> \in Seq(Events)
    OBVIOUS
  <2>4. BlocksAll(m, s)
    BY <2>1, <2>2, <2>3, FedNone DEF BlocksAll
  <2> QED BY <1>1, <2>4
<1>6. Len(m.content) \in Nat
  BY <1>2
<1> QED BY <1>4, <1>5, <1>6

\* The assembler undoes the synthesiser, and reads the frontier's own stream: for
\* every message, of any number of blocks and texts of any number of pieces, what
\* AssembleSSE makes of the events is the message, and no error.
THEOREM SynthesisIsAssembled ==
    ASSUME NEW m, WholeMessage(m)
    PROVE  /\ AssembleSSE(SynthesizeSSE(m)) = [message |-> m, error |-> ""]
           /\ AssembleSSE(FrontierEvents(m)) = [message |-> m, error |-> ""]
<1>1. PICK s : BlocksAll(m, s) /\ SynthesizeSSE(m) = Enveloped(m, s)
  BY SynthesisedBlocks
<1>2. PICK t : BlocksAll(m, t) /\ FrontierEvents(m) = Enveloped(m, t)
  BY FrontierBlocks
<1>3. FedAll(NewAssembler, SynthesizeSSE(m)) = FullyRead(m, IsSet)
  BY <1>1, EnvelopeRead
<1>4. FedAll(NewAssembler, FrontierEvents(m)) = FullyRead(m, IsSet)
  BY <1>2, EnvelopeRead
<1> QED BY <1>3, <1>4, WholeIsAssembled

-----------------------------------------------------------------------------
(***************************************************************************)
(* What a completion becomes.                                              *)
(***************************************************************************)

\* Whatever the arguments of a call are, its input is JSON.
LEMMA ParsedIsJSON ==
    ASSUME NEW text \in Text
    PROVE  ParsedInput(text) \in Text /\ IsJSON(ParsedInput(text))
<1>1. CASE text = <<>>
  BY <1>1, EmptyTyped, MessageStreamAssumption DEF ParsedInput, IsJSON
<1>2. CASE text # <<>> /\ IsJSON(text)
  BY <1>2 DEF ParsedInput
<1>3. CASE text # <<>> /\ ~IsJSON(text)
  <2>1. PICK q \in Strings : q = "quoted"
    BY MessageStreamAssumption
  <2> DEFINE r == <<q>> \o text
  <2>2. r \in Text /\ r # <<>> /\ r[1] = q
    BY <2>1 DEF Text
  <2>3. ParsedInput(text) = r
    BY <1>3, <2>1 DEF ParsedInput
  <2> HIDE DEF r
  <2> QED BY <2>1, <2>2, <2>3 DEF IsJSON
<1> QED BY <1>1, <1>2, <1>3

CompletionType ==
    [meta : Strings, text : Text, calls : Seq([name : Strings, arguments : Text]), finish : Strings, usage : Usages]

\* FromOpenAI makes a whole message of any completion: SynthesizeSSE drops none of it.
LEMMA CompletionIsWhole ==
    ASSUME NEW c \in CompletionType
    PROVE  WholeMessage(FromOpenAI(c))
<1> DEFINE text == IF c.text = <<>> THEN <<>> ELSE <<[NoBlock EXCEPT !.type = "text", !.text = c.text]>>
           asked == [i \in DOMAIN c.calls |->
                       [NoBlock EXCEPT !.type = "tool_use", !.name = c.calls[i].name,
                                       !.input = ParsedInput(c.calls[i].arguments)]]
           Good == {b \in Block : Whole(b)}
<1>1. c.text \in Text /\ c.calls \in Seq([name : Strings, arguments : Text]) /\ c.meta \in Strings /\ c.usage \in Usages
  BY DEF CompletionType
<1>2. text \in Seq(Good)
  <2>1. CASE c.text = <<>>
    BY <2>1
  <2>2. CASE c.text # <<>>
    <3> DEFINE b == [NoBlock EXCEPT !.type = "text", !.text = c.text]
    <3>1. b = MadeOf("text", "", c.text, <<>>, <<>>, <<>>)
      <4>1. b = WithText(WithType(NoBlock, "text"), c.text)
        BY DEF WithText, WithType
      <4>2. PICK type, data : type = "text" /\ data = c.text
        OBVIOUS
      <4>3. WithText(WithType(NoBlock, type), data) = MadeOf(type, "", data, <<>>, <<>>, <<>>)
        BY BlocksOfNothing
      <4> QED BY ONLY <4>1, <4>2, <4>3, Zenon
    <3>2. b \in Good
      BY <1>1, <3>1, EmptyTyped DEF MadeOf, Block, Whole
    <3> HIDE DEF b, Good
    <3>3. <<b>> \in Seq(Good)
      BY <3>2
    <3> QED BY <2>2, <3>3 DEF b
  <2> QED BY <2>1, <2>2
<1>3. asked \in Seq(Good)
  <2>1. ASSUME NEW i \in DOMAIN c.calls PROVE asked[i] \in Good
    <3>0. c.calls[i] \in [name : Strings, arguments : Text]
      <4>1. PICK cs : cs = c.calls
        OBVIOUS
      <4>2. cs \in Seq([name : Strings, arguments : Text]) /\ i \in DOMAIN cs
        BY <1>1, <4>1
      <4>3. cs[i] \in [name : Strings, arguments : Text]
        <5>1. PICK T : T = [name : Strings, arguments : Text]
          OBVIOUS
        <5>2. cs \in Seq(T) /\ i \in DOMAIN cs
          BY <4>2, <5>1
        <5>3. cs[i] \in T
          BY ONLY <5>2
        <5> QED BY <5>1, <5>3
      <4> QED BY <4>1, <4>3
    <3>1. PICK name \in Strings, arguments \in Text : name = c.calls[i].name /\ arguments = c.calls[i].arguments
      BY <3>0
    <3>2. PICK input \in Text : input = ParsedInput(arguments) /\ IsJSON(input)
      BY ParsedIsJSON
    <3> DEFINE b == [NoBlock EXCEPT !.type = "tool_use", !.name = name, !.input = input]
    <3>3. b = MadeOf("tool_use", name, <<>>, <<>>, <<>>, input)
      <4>1. b = WithInput(WithName(WithType(NoBlock, "tool_use"), name), input)
        BY DEF WithInput, WithName, WithType
      <4>2. PICK type : type = "tool_use"
        OBVIOUS
      <4>3. WithInput(WithName(WithType(NoBlock, type), name), input) = MadeOf(type, name, <<>>, <<>>, <<>>, input)
        BY BlocksOfNothing
      <4> QED BY ONLY <4>1, <4>2, <4>3, Zenon
    <3>4. b \in Good
      BY <3>2, <3>3, EmptyTyped DEF MadeOf, Block, Whole
    <3>5. asked[i] = b
      BY <3>1, <3>2, Zenon
    <3> QED BY <3>4, <3>5
  <2>2. PICK n \in Nat : DOMAIN c.calls = 1..n
    BY <1>1
  <2>3. DOMAIN asked = 1..n /\ asked = [i \in 1..n |-> asked[i]]
    BY <2>2
  <2> HIDE DEF asked, Good
  <2> QED BY <2>1, <2>2, <2>3
<1>4. MapFinishReason(c.finish) \in Strings
  BY MessageStreamAssumption DEF MapFinishReason
<1>5. FromOpenAI(c) = [meta |-> c.meta, content |-> text \o asked, stop |-> MapFinishReason(c.finish), usage |-> c.usage]
  BY DEF FromOpenAI
<1> HIDE DEF text, asked, Good
<1>6. text \o asked \in Seq(Good)
  BY <1>2, <1>3
<1>7. text \o asked \in Seq(Block) /\ \A i \in DOMAIN (text \o asked) : Whole((text \o asked)[i])
  <2>1. PICK s \in Seq(Good) : s = text \o asked
    BY <1>6
  <2>2. s \in Seq(Block) /\ \A i \in DOMAIN s : Whole(s[i])
    BY DEF Good
  <2> QED BY <2>1, <2>2
<1>8. PICK s : s = text \o asked
  OBVIOUS
<1> QED BY <1>1, <1>4, <1>5, <1>7, <1>8 DEF WholeMessage

-----------------------------------------------------------------------------
(***************************************************************************)
(* What a stream that breaks off leaves of an assembler.                   *)
(***************************************************************************)
Marks == [event : {"message_stop", "ping", "unknown", "torn", "error"}]
Sent == Events \cup Marks

Standing(asm) == {"error", "stopped"} \subseteq DOMAIN asm
Flawed(asm) == asm.error \/ ~asm.stopped

\* All that is left of a stream: its last event ends the message.
Rest(events) ==
    /\ events \in Seq(Sent)
    /\ \A i \in 1..Len(events) :
          IF i = Len(events) THEN events[i] = MessageStop ELSE events[i] \in Events

\* The names of the events.
LEMMA EventNames ==
    ASSUME NEW ev \in Events
    PROVE  ev.event \in {"message_start", "content_block_start", "content_block_delta",
                         "content_block_stop", "message_delta"}
BY DEF Events

\* No event but the last stops the assembler, and none unsays an error.
LEMMA EventKeeps ==
    ASSUME NEW asm, NEW ev \in Events, Standing(asm)
    PROVE  Standing(HandleEvent(asm, ev)) /\ HandleEvent(asm, ev).stopped = asm.stopped
<1> DEFINE after == HandleEvent(asm, ev)
           Keeps(a) == Standing(a) /\ a.stopped = asm.stopped
<1>0. \A a, index, block : Keeps(a) => Keeps(WithBlock(a, index, block))
  BY DEF Standing, WithBlock
<1>1. CASE ev.event = "message_start"
  <2>1. after = HandleMessageStart(asm, ev)
    BY <1>1 DEF HandleEvent
  <2> QED BY <2>1 DEF HandleMessageStart, Standing
<1>2. CASE ev.event = "content_block_start"
  <2> DEFINE started == WithBlock(asm, ev.index, ev.block)
  <2>1. after = IF ev.block.type = "tool_use" THEN [started EXCEPT !.partial = Put(@, ev.index, <<>>)] ELSE started
    BY <1>2 DEF HandleEvent, HandleBlockStart
  <2>2. Keeps(started)
    BY <1>0
  <2> HIDE DEF started
  <2> QED BY <2>1, <2>2 DEF Standing
<1>3. CASE ev.event = "content_block_delta"
  <2> DEFINE made == WithBlock(asm, ev.index, GetOrCreate(asm, ev.index))
  <2>1. after = HandleBlockDelta(asm, ev)
    BY <1>3 DEF HandleEvent
  <2>2. Keeps(made)
    BY <1>0
  <2>3. \/ \E block : after = WithBlock(asm, ev.index, block)
        \/ \E P : after = [made EXCEPT !.partial = P]
        \/ after = made
    <3> HIDE DEF after
    <3> QED BY <2>1 DEF HandleBlockDelta
  <2> HIDE DEF made, after
  <2>4. Keeps(after)
    BY <1>0, <2>2, <2>3 DEF Standing
  <2> QED BY <2>4 DEF after
<1>4. CASE ev.event = "content_block_stop"
  <2>1. after = FinalizeToolUseInput(asm, ev.index)
    BY <1>4 DEF HandleEvent
  <2>2. after = asm \/ \E block, P, t : after = [WithBlock(asm, ev.index, block) EXCEPT !.partial = P, !.truncated = t]
    <3> HIDE DEF after
    <3> QED BY <2>1 DEF FinalizeToolUseInput
  <2>3. ASSUME NEW block, NEW P, NEW t, after = [WithBlock(asm, ev.index, block) EXCEPT !.partial = P, !.truncated = t]
        PROVE  Keeps(after)
    <3> DEFINE one == WithBlock(asm, ev.index, block)
    <3>1. Keeps(one)
      BY <1>0
    <3> HIDE DEF one, after
    <3>2. after = [one EXCEPT !.partial = P, !.truncated = t]
      BY <2>3 DEF one
    <3> QED BY <3>1, <3>2 DEF Standing
  <2> HIDE DEF after
  <2>4. Keeps(after)
    BY <2>2, <2>3
  <2> QED BY <2>4 DEF after
<1>5. CASE ev.event = "message_delta"
  <2>1. after = HandleMessageDelta(asm, ev)
    BY <1>5 DEF HandleEvent
  <2> QED BY <2>1 DEF HandleMessageDelta, Standing
<1> QED BY <1>1, <1>2, <1>3, <1>4, <1>5, EventNames

\* Noise, an error and the end, to an assembler.
LEMMA MarkKeeps ==
    ASSUME NEW asm, Standing(asm)
    PROVE  /\ \A name \in {"ping", "unknown", "torn"} : HandleEvent(asm, [event |-> name]) = asm
           /\ Standing(HandleEvent(asm, [event |-> "error"])) /\ HandleEvent(asm, [event |-> "error"]).error
           /\ Standing(HandleEvent(asm, MessageStop))
<1>1. \A name \in {"ping", "unknown", "torn"} : HandleEvent(asm, [event |-> name]) = asm
  BY DEF HandleEvent
<1>2. HandleEvent(asm, [event |-> "error"]) = SetError(asm, IsSet)
  BY Zenon DEF HandleEvent, SetError, IsSet
<1>3. HandleEvent(asm, MessageStop) = SetStopped(asm, IsSet)
  BY Zenon DEF HandleEvent, SetStopped, IsSet, MessageStop
<1>4. \A b : Standing(SetError(asm, b)) /\ SetError(asm, b).error = b /\ Standing(SetStopped(asm, b))
  BY DEF Standing, SetError, SetStopped
<1> QED BY <1>1, <1>2, <1>3, <1>4 DEF IsSet

\* The assembler before its first event, and after its last.
LEMMA NewStands == Standing(NewAssembler) /\ NewAssembler.stopped = Unset
BY DEF Standing, NewAssembler, Unset

LEMMA FullyReadStands == ASSUME NEW m PROVE Standing(FullyRead(m, IsSet))
BY DEF Standing, FullyRead, Assembler

\* The end of the stream hides no flaw.
LEMMA FlawIsReported ==
    ASSUME NEW events, Standing(FedAll(NewAssembler, events)), AssembleSSE(events).error = ""
    PROVE  ~Flawed(FedAll(NewAssembler, events))
<1> DEFINE asm == FedAll(NewAssembler, events)
           whole == FinalizeOpen(asm)
<1>1. StreamError(whole) = ""
  BY DEF AssembleSSE
<1>2. \E B, t : whole = [asm EXCEPT !.blocks = B, !.truncated = t]
  BY DEF FinalizeOpen
<1> HIDE DEF asm, whole
<1>3. Standing(asm)
  BY DEF asm
<1>4. whole.error = asm.error /\ whole.stopped = asm.stopped
  BY <1>2, <1>3 DEF Standing
<1>5. ~whole.error /\ whole.stopped
  BY <1>1 DEF StreamError
<1> QED BY <1>4, <1>5 DEF Flawed, asm

\* The first event is handled first.
LEMMA FedFirst ==
    ASSUME NEW E, NEW s \in Seq(E), s # <<>>, NEW asm
    PROVE  FedAll(asm, s) = FedAll(HandleEvent(asm, Head(s)), Tail(s))
<1> DEFINE a == <<Head(s)>>
           t == Tail(s)
<1>1. a \in Seq(E) /\ t \in Seq(E) /\ s = a \o t
  OBVIOUS
<1>2. FedAll(asm, a) = HandleEvent(asm, Head(s))
  BY FedSingle
<1> HIDE DEF a, t
<1>3. FedAll(asm, a \o t) = FedAll(FedAll(asm, a), t)
  BY <1>1, FedInTurn
<1> QED BY <1>1, <1>2, <1>3 DEF t

\* What is left after the next event.
LEMMA RestIsShorter ==
    ASSUME NEW events, Rest(events), events # <<>>
    PROVE  /\ Rest(Tail(events))
           /\ Head(events) \in Sent
           /\ Head(events) \in Events \/ (Head(events) = MessageStop /\ Tail(events) = <<>>)
           /\ Tail(events) # <<>> => Head(events) \in Events
<1>1. events \in Seq(Sent) /\ Len(events) \in Nat /\ Len(events) >= 1
  BY DEF Rest
<1>2. Head(events) = events[1] /\ Tail(events) \in Seq(Sent) /\ Len(Tail(events)) = Len(events) - 1
      /\ \A i \in 1..Len(events) - 1 : Tail(events)[i] = events[i + 1]
  BY <1>1
<1>3. Head(events) \in Sent
  BY <1>1
<1>4. IF 1 = Len(events) THEN events[1] = MessageStop ELSE events[1] \in Events
  BY <1>1 DEF Rest
<1>5. ASSUME NEW i \in 1..Len(events) - 1
      PROVE  IF i = Len(events) - 1 THEN Tail(events)[i] = MessageStop ELSE Tail(events)[i] \in Events
  <2>1. PICK j : j = i + 1
    OBVIOUS
  <2>2. j \in 1..Len(events) /\ (j = Len(events) <=> i = Len(events) - 1)
    BY <1>1, <2>1
  <2>3. IF j = Len(events) THEN events[j] = MessageStop ELSE events[j] \in Events
    BY <2>2 DEF Rest
  <2> QED BY <1>2, <2>1, <2>2, <2>3
<1>6. Rest(Tail(events))
  BY <1>2, <1>5 DEF Rest
<1>7. Tail(events) = <<>> <=> Len(events) = 1
  <2>1. PICK t \in Seq(Sent) : t = Tail(events) /\ Len(t) = Len(events) - 1
    BY <1>2
  <2>2. t = <<>> <=> Len(t) = 0
    OBVIOUS
  <2> QED BY <1>1, <2>1, <2>2
<1> QED BY <1>2, <1>3, <1>4, <1>6, <1>7

\* What the proxy keeps of what the client got: all of it, or less.
Kept(b, c) ==
    /\ b \in Seq(Sent) /\ c \in Seq(Sent)
    /\ Len(c) <= Len(b)
    /\ Len(c) = Len(b) => c = b

\* An event that is relayed is kept, or no longer everything is.
LEMMA RelayedIsKept ==
    ASSUME NEW ev \in Sent, Kept(body, captured), Relayed(ev)
    PROVE  /\ Kept(body', captured')
           /\ FedAll(NewAssembler, body') = HandleEvent(FedAll(NewAssembler, body), ev)
<1>1. PICK b, c : b = body /\ c = captured
  OBVIOUS
<1>2. b \in Seq(Sent) /\ c \in Seq(Sent) /\ Len(c) <= Len(b) /\ (Len(c) = Len(b) => c = b)
  BY <1>1 DEF Kept
<1>3. body' = Append(b, ev) /\ (captured' = Append(c, ev) \/ captured' = c)
  BY <1>1 DEF Relayed
<1>4. Kept(Append(b, ev), Append(c, ev)) /\ Kept(Append(b, ev), c)
  BY <1>2 DEF Kept
<1>5. FedAll(NewAssembler, Append(b, ev)) = HandleEvent(FedAll(NewAssembler, b), ev)
  BY <1>2, FedOne
<1> QED BY <1>1, <1>3, <1>4, <1>5

\* A stream under way: what it has brought and what is left of it make the
\* message, and the assembler has not heard the end before it comes.
Underway(m, b, p) ==
    /\ Rest(p)
    /\ Standing(FedAll(NewAssembler, b))
    /\ FedAll(FedAll(NewAssembler, b), p) = FullyRead(m, IsSet)
    /\ p # <<>> => ~FedAll(NewAssembler, b).stopped

\* A stream that is over: it made the message, or the assembler can tell.
Told(m, b) ==
    /\ Standing(FedAll(NewAssembler, b))
    /\ FedAll(NewAssembler, b) = FullyRead(m, IsSet) \/ Flawed(FedAll(NewAssembler, b))

\* The next event of the stream leaves it under way,
LEMMA UnderwayGoesOn ==
    ASSUME NEW m, NEW p, p # <<>>, Kept(body, captured), Underway(m, body, p), Relayed(Head(p))
    PROVE  Kept(body', captured') /\ Underway(m, body', Tail(p))
<1> DEFINE asm == FedAll(NewAssembler, body)
           ev == Head(p)
           after == HandleEvent(asm, ev)
<1>1. /\ Rest(Tail(p)) /\ ev \in Sent
      /\ ev \in Events \/ (ev = MessageStop /\ Tail(p) = <<>>)
  BY RestIsShorter DEF Underway
<1>2. Kept(body', captured') /\ FedAll(NewAssembler, body') = after
  BY <1>1, RelayedIsKept
<1>3. Standing(asm) /\ ~asm.stopped /\ p \in Seq(Sent) /\ FedAll(asm, p) = FullyRead(m, IsSet)
  BY DEF Underway, Rest
<1>4. FedAll(after, Tail(p)) = FullyRead(m, IsSet)
  BY <1>3, FedFirst
<1> HIDE DEF asm, ev
<1>5. CASE ev \in Events
  <2>1. Standing(after) /\ after.stopped = asm.stopped
    BY <1>3, <1>5, EventKeeps
  <2> HIDE DEF after
  <2> QED BY <1>1, <1>2, <1>3, <1>4, <2>1 DEF Underway
<1>6. CASE ev = MessageStop /\ Tail(p) = <<>>
  <2>1. Standing(after)
    BY <1>3, <1>6, MarkKeeps
  <2> HIDE DEF after
  <2> QED BY <1>1, <1>2, <1>4, <1>6, <2>1 DEF Underway
<1> QED BY <1>1, <1>5, <1>6

\* a ping, or an event the assembler does not know, too,
LEMMA NoiseIsNothing ==
    ASSUME NEW m, NEW p, NEW name \in {"ping", "unknown"}, Kept(body, captured), Underway(m, body, p),
           Relayed([event |-> name])
    PROVE  Kept(body', captured') /\ Underway(m, body', p)
<1>1. PICK ev \in Sent : ev = [event |-> name]
  BY DEF Sent, Marks
<1>2. Kept(body', captured') /\ FedAll(NewAssembler, body') = HandleEvent(FedAll(NewAssembler, body), ev)
  BY <1>1, RelayedIsKept
<1>3. HandleEvent(FedAll(NewAssembler, body), ev) = FedAll(NewAssembler, body)
  BY <1>1, MarkKeeps DEF Underway
<1> QED BY <1>2, <1>3 DEF Underway

\* and an error, or an event that is torn, can be told.
LEMMA BreakIsTold ==
    ASSUME NEW m, NEW p, p # <<>>, Kept(body, captured), Underway(m, body, p),
           NEW last \in {[event |-> "error"], Torn(Head(p))}, Relayed(last)
    PROVE  Kept(body', captured') /\ Told(m, body')
<1> DEFINE asm == FedAll(NewAssembler, body)
<1>1. Standing(asm) /\ ~asm.stopped /\ p \in Seq(Sent) /\ FedAll(asm, p) = FullyRead(m, IsSet)
  BY DEF Underway, Rest
<1>2. Head(p) \in Events \/ (Head(p) = MessageStop /\ Tail(p) = <<>>)
  BY RestIsShorter DEF Underway
<1>3. \/ last = [event |-> "error"]
      \/ last = [event |-> "torn"]
      \/ last = MessageStop /\ Head(p) = MessageStop /\ Tail(p) = <<>>
  <2>1. CASE Head(p) \in Events
    BY <2>1, EventNames DEF Torn
  <2>2. CASE Head(p) = MessageStop /\ Tail(p) = <<>>
    BY <2>2 DEF Torn, MessageStop
  <2> QED BY <1>2, <2>1, <2>2
<1>4. last \in Sent
  BY <1>3 DEF Sent, Marks, MessageStop
<1>5. Kept(body', captured') /\ FedAll(NewAssembler, body') = HandleEvent(asm, last)
  BY <1>4, RelayedIsKept
<1> HIDE DEF asm
<1>6. CASE last = [event |-> "error"]
  <2>1. Standing(HandleEvent(asm, last)) /\ HandleEvent(asm, last).error
    BY <1>1, <1>6, MarkKeeps
  <2> QED BY <1>5, <2>1 DEF Told, Flawed
<1>7. CASE last = [event |-> "torn"]
  <2>1. HandleEvent(asm, last) = asm
    BY <1>1, <1>7, MarkKeeps
  <2> QED BY <1>1, <1>5, <2>1 DEF Told, Flawed
<1>8. CASE last = MessageStop /\ Head(p) = MessageStop /\ Tail(p) = <<>>
  <2>1. FedAll(asm, p) = FedAll(HandleEvent(asm, last), <<>>)
    BY <1>1, <1>8, FedFirst
  <2>2. HandleEvent(asm, last) = FullyRead(m, IsSet)
    BY <1>1, <2>1, FedNone
  <2>3. Standing(HandleEvent(asm, last))
    BY <1>1, <1>8, MarkKeeps
  <2> QED BY <1>5, <2>2, <2>3 DEF Told
<1> QED BY <1>3, <1>6, <1>7, <1>8

\* The end, or what is taken for it.
LEMMA EndIsTold ==
    ASSUME NEW m, NEW p, NEW b, Underway(m, b, p)
    PROVE  Told(m, b)
<1>1. CASE p = <<>>
  BY <1>1, FedNone DEF Underway, Told
<1>2. CASE p # <<>>
  BY <1>2 DEF Underway, Told, Flawed
<1> QED BY <1>1, <1>2

\* A frontier's stream, before its first event.
LEMMA StreamStarts ==
    ASSUME NEW m, WholeMessage(m)
    PROVE  Kept(<<>>, <<>>) /\ Underway(m, <<>>, FrontierEvents(m))
<1>1. PICK s : BlocksAll(m, s) /\ FrontierEvents(m) = Enveloped(m, s)
  BY FrontierBlocks
<1>2. PICK parts \in Seq(Events) : FrontierEvents(m) = Append(parts, MessageStop)
  BY <1>1, EnvelopeRead
<1>3. FedAll(NewAssembler, FrontierEvents(m)) = FullyRead(m, IsSet)
  BY <1>1, EnvelopeRead
<1>4. Rest(Append(parts, MessageStop))
  <2>1. parts \in Seq(Sent) /\ MessageStop \in Sent
    BY DEF Sent, Marks, MessageStop
  <2>2. PICK last \in Sent : last = MessageStop
    BY <2>1
  <2>3. Append(parts, last) \in Seq(Sent) /\ Len(Append(parts, last)) = Len(parts) + 1 /\ Append(parts, last)[Len(parts) + 1] = last
        /\ \A i \in 1..Len(parts) : Append(parts, last)[i] = parts[i] /\ parts[i] \in Events
    BY <2>1
  <2> QED BY <2>2, <2>3 DEF Rest
<1>5. Kept(<<>>, <<>>)
  BY DEF Kept
<1>6. FedAll(NewAssembler, <<>>) = NewAssembler
  BY FedNone
<1>7. Standing(NewAssembler) /\ ~NewAssembler.stopped
  BY NewStands DEF Unset
<1> QED BY <1>2, <1>3, <1>4, <1>5, <1>6, <1>7 DEF Underway

(***************************************************************************)
(* The invariant of a request that streams.                                *)
(***************************************************************************)
StreamInv ==
    /\ step \in {"calling", "waiting", "forward"} => body = <<>> /\ captured = <<>>
    /\ step \notin {"logged"} => rows = {}
    /\ step = "relaying" => streaming
    /\ streaming /\ step = "served" =>
          \E m : WholeMessage(m) /\ meant = <<m>> /\ body = SynthesizeSSE(m)
    /\ step = "relaying" =>
          Kept(body, captured) /\ \E m : WholeMessage(m) /\ meant = <<m>> /\ Underway(m, body, plan)
    /\ streaming /\ step = "ended" =>
          Kept(body, captured) /\ \E m : WholeMessage(m) /\ meant = <<m>> /\ Told(m, body)
    /\ CutIsFlagged

\* A row without an error holds the message that was meant.
LEMMA LoggedAsMeant ==
    ASSUME NEW m, WholeMessage(m), Kept(body, captured), Told(m, body),
           ({AssembleSSE(captured).error} \ {""}) \cup Capped = {}
    PROVE  AssembleSSE(captured).message = m
<1>2. AssembleSSE(captured).error = "" /\ Capped = {}
  OBVIOUS
<1>3. ~(Len(body) > Len(captured))
  BY <1>2 DEF Capped
<1>4. captured = body
  <2>1. PICK b \in Seq(Sent), c \in Seq(Sent) : b = body /\ c = captured
    BY DEF Kept
  <2>2. Len(c) <= Len(b) /\ (Len(c) = Len(b) => c = b)
    BY <2>1 DEF Kept
  <2>3. Len(b) \in Nat /\ Len(c) \in Nat
    BY LenProperties, Zenon
  <2>4. ~(Len(b) > Len(c))
    BY <1>3, <2>1
  <2> QED BY ONLY <2>1, <2>2, <2>3, <2>4
<1>5. ~Flawed(FedAll(NewAssembler, body))
  BY <1>2, <1>4, FlawIsReported DEF Told
<1>6. FedAll(NewAssembler, captured) = FullyRead(m, IsSet)
  BY <1>4, <1>5 DEF Told
<1>7. AssembleSSE(captured) = [message |-> m, error |-> ""]
  BY <1>6, WholeIsAssembled
<1> QED
  <2>1. PICK read, e : read = AssembleSSE(captured) /\ e = ""
    OBVIOUS
  <2>2. read = [message |-> m, error |-> e]
    BY <1>7, <2>1
  <2>3. read.message = m
    BY ONLY <2>2
  <2> QED BY <2>1, <2>3

\* Every step keeps the invariant.
LEMMA StreamStep ==
    ASSUME StreamInv, [AnswerNext]_answerVars
    PROVE  StreamInv'
<1>1. CASE CallBreaks
  BY <1>1 DEF CallBreaks, StreamInv, CutIsFlagged
<1>2. CASE CallTimesOut
  BY <1>2 DEF CallTimesOut, StreamInv, CutIsFlagged
<1>3. CASE CallRefused
  <2>1. step' \in {"waiting", "forward"} /\ step = "calling" /\ UNCHANGED <<streaming, meant, plan, body, captured, rows>>
    BY <1>3 DEF CallRefused
  <2> QED BY <2>1 DEF StreamInv, CutIsFlagged
<1>4. CASE CallWaits
  <2>1. step' \in {"calling", "forward"} /\ step = "waiting" /\ UNCHANGED <<streaming, meant, plan, body, captured, rows>>
    BY <1>4 DEF CallWaits, Waited
  <2> QED BY <2>1 DEF StreamInv, CutIsFlagged
<1>5. CASE CallAnswers
  <2>1. PICK m \in DOMAIN WrittenLocally : meant' = <<m>> /\ body' = IF streaming THEN WrittenLocally[m] ELSE <<m>>
    BY <1>5 DEF CallAnswers
  <2>2. PICK completion \in Completions : m = FromOpenAI(completion)
    BY DEF WrittenLocally
  <2>3. completion \in CompletionType
    BY LocalAnswerAssumption DEF CompletionType
  <2>4. WholeMessage(m)
    BY <2>2, <2>3, CompletionIsWhole
  <2>5. WrittenLocally[m] = SynthesizeSSE(m)
    BY <2>1 DEF WrittenLocally
  <2>6. step = "calling" /\ step' = "served" /\ UNCHANGED <<streaming, captured, rows>>
    BY <1>5 DEF CallAnswers
  <2>7. streaming' => \E n : WholeMessage(n) /\ meant' = <<n>> /\ body' = SynthesizeSSE(n)
    BY <2>1, <2>4, <2>5, <2>6
  <2> QED BY <2>6, <2>7 DEF StreamInv, CutIsFlagged
<1>6. CASE AskFrontier
  <2>1. PICK m \in Messages :
          /\ meant' = <<m>>
          /\ IF streaming
             THEN plan' = FrontierStreams[m] /\ step' = "relaying" /\ UNCHANGED <<body, captured>>
             ELSE \E got \in {<<m>>, <<>>} :
                    plan' = <<>> /\ step' = "ended" /\ body' = got /\ captured' = got
    BY <1>6 DEF AskFrontier
  <2>2. step = "forward" /\ UNCHANGED <<streaming, rows>>
    BY <1>6 DEF AskFrontier
  <2>3. CASE streaming
    <3>1. WholeMessage(m) /\ FrontierStreams[m] = FrontierEvents(m)
      BY LocalAnswerAssumption DEF FrontierStreams
    <3>2. body' = <<>> /\ captured' = <<>> /\ plan' = FrontierEvents(m) /\ step' = "relaying" /\ streaming'
      BY <2>1, <2>2, <2>3, <3>1 DEF StreamInv
    <3>3. Kept(body', captured') /\ Underway(m, body', plan')
      BY <3>1, <3>2, StreamStarts
    <3> QED BY <2>1, <2>2, <3>1, <3>2, <3>3 DEF StreamInv, CutIsFlagged
  <2>4. CASE ~streaming
    <3>1. step' = "ended" /\ ~streaming' /\ rows' = rows
      BY <2>1, <2>2, <2>4
    <3> QED BY <2>2, <3>1 DEF StreamInv, CutIsFlagged
  <2> QED BY <2>3, <2>4
<1>7. CASE RelayNext
  <2>1. step = "relaying" /\ plan # <<>> /\ Relayed(Head(plan)) /\ plan' = Tail(plan) /\ UNCHANGED <<step, streaming, meant, rows>>
    BY <1>7 DEF RelayNext
  <2>2. PICK m : WholeMessage(m) /\ meant = <<m>> /\ Underway(m, body, plan)
    BY <2>1 DEF StreamInv
  <2>3. Kept(body', captured') /\ Underway(m, body', plan')
    BY <2>1, <2>2, UnderwayGoesOn DEF StreamInv
  <2> QED BY <2>1, <2>2, <2>3 DEF StreamInv, CutIsFlagged
<1>8. CASE RelayNoise
  <2>1. PICK name \in {"ping", "unknown"} : Relayed([event |-> name])
    BY <1>8 DEF RelayNoise
  <2>2. step = "relaying" /\ UNCHANGED <<step, streaming, meant, plan, rows>>
    BY <1>8 DEF RelayNoise
  <2>3. PICK m : WholeMessage(m) /\ meant = <<m>> /\ Underway(m, body, plan)
    BY <2>2 DEF StreamInv
  <2>4. Kept(body', captured') /\ Underway(m, body', plan')
    BY <2>1, <2>2, <2>3, NoiseIsNothing DEF StreamInv
  <2> QED BY <2>2, <2>3, <2>4 DEF StreamInv, CutIsFlagged
<1>9. CASE RelayEnds
  <2>1. step = "relaying" /\ step' = "ended" /\ UNCHANGED <<streaming, meant, rows>>
    BY <1>9 DEF RelayEnds
  <2>2. PICK m : WholeMessage(m) /\ meant = <<m>> /\ Underway(m, body, plan)
    BY <2>1 DEF StreamInv
  <2>3. CASE UNCHANGED <<plan, body, captured>>
    <3>1. Told(m, body') /\ Kept(body', captured')
      BY <2>1, <2>2, <2>3, EndIsTold DEF StreamInv
    <3> QED BY <2>1, <2>2, <3>1 DEF StreamInv, CutIsFlagged
  <2>4. CASE plan # <<>> /\ \E last \in {[event |-> "error"], Torn(Head(plan))} : Relayed(last)
    <3>1. Told(m, body') /\ Kept(body', captured')
      BY <2>1, <2>2, <2>4, BreakIsTold DEF StreamInv
    <3> QED BY <2>1, <2>2, <3>1 DEF StreamInv, CutIsFlagged
  <2> QED BY <1>9, <2>3, <2>4 DEF RelayEnds
<1>10. CASE Log
  <2>1. step = "ended" /\ step' = "logged" /\ UNCHANGED <<streaming, meant, plan, body, captured>>
    BY <1>10 DEF Log
  <2>2. CASE streaming
    <3>1. rows' = {[response |-> <<AssembleSSE(captured).message>>,
                    errors |-> ({AssembleSSE(captured).error} \ {""}) \cup Capped]}
      BY <1>10, <2>2 DEF Log
    <3>2. PICK m : WholeMessage(m) /\ meant = <<m>> /\ Told(m, body)
      BY <2>1, <2>2 DEF StreamInv
    <3>3. Kept(body, captured)
      BY <2>1, <2>2 DEF StreamInv
    <3>4. \A row \in rows' : row.errors = {} => row.response = meant'
      <4>1. ASSUME NEW row \in rows', row.errors = {} PROVE row.response = meant
        <5>1. /\ row.errors = ({AssembleSSE(captured).error} \ {""}) \cup Capped
              /\ row.response = <<AssembleSSE(captured).message>>
          <6>1. PICK e, said : /\ e = ({AssembleSSE(captured).error} \ {""}) \cup Capped
                               /\ said = <<AssembleSSE(captured).message>>
            OBVIOUS
          <6>2. row = [response |-> said, errors |-> e]
            BY <3>1, <6>1, Zenon
          <6>3. row.errors = e /\ row.response = said
            BY ONLY <6>2
          <6> QED BY <6>1, <6>3
        <5>2. ({AssembleSSE(captured).error} \ {""}) \cup Capped = {}
          BY <4>1, <5>1
        <5>3. AssembleSSE(captured).message = m
          BY <3>2, <3>3, <5>2, LoggedAsMeant
        <5> QED BY <3>2, <5>1, <5>3
      <4> QED BY <2>1, <4>1
    <3> QED BY <2>1, <3>4 DEF StreamInv, CutIsFlagged
  <2>3. CASE ~streaming
    BY <2>1, <2>3 DEF StreamInv, CutIsFlagged
  <2> QED BY <2>2, <2>3
<1>11. CASE UNCHANGED answerVars
  BY <1>11 DEF answerVars, StreamInv, CutIsFlagged
<1> QED BY <1>1, <1>2, <1>3, <1>4, <1>5, <1>6, <1>7, <1>8, <1>9, <1>10, <1>11 DEF AnswerNext, GoesOn

\* So it always holds.
LEMMA StreamInvariant == AnswerSpec => []StreamInv
<1>1. AnswerInit => StreamInv
  BY DEF AnswerInit, StreamInv, CutIsFlagged
<1>2. StreamInv /\ [AnswerNext]_answerVars => StreamInv'
  BY StreamStep
<1> QED BY <1>1, <1>2, PTL DEF AnswerSpec

\* A client that streams reads the very message the backend's completion became
\* (SynthesizeSSE, internal/anthropic/sse_synth.go): for every completion.
THEOREM StreamsSayWhatWasMeant == AnswerSpec => []StreamSaysWhatWasMeant
<1>1. ASSUME StreamInv, step = "served", streaming
      PROVE  AssembleSSE(body) = [message |-> meant[1], error |-> ""]
  <2>1. PICK m : WholeMessage(m) /\ meant = <<m>> /\ body = SynthesizeSSE(m)
    BY <1>1 DEF StreamInv
  <2>2. AssembleSSE(body) = [message |-> m, error |-> ""]
    BY <2>1, SynthesisIsAssembled
  <2>3. meant[1] = m
    BY <2>1
  <2> QED BY <2>2, <2>3
<1>2. StreamInv => StreamSaysWhatWasMeant
  BY <1>1 DEF StreamSaysWhatWasMeant
<1> QED BY <1>2, StreamInvariant, PTL

\* A streamed call that is logged without an error is the message that was meant
\* (relayBody, internal/proxy/forward.go; AssembleSSE): for every message, wherever
\* the stream breaks off, whatever comes between its events, at every capture cap.
THEOREM CutsAreFlagged == AnswerSpec => []CutIsFlagged
<1>1. StreamInv => CutIsFlagged
  BY DEF StreamInv
<1> QED BY <1>1, StreamInvariant, PTL

-----------------------------------------------------------------------------
(***************************************************************************)
(* The retries of the backend's call.                                      *)
(***************************************************************************)
Shifting(f, m) == f = [n \in 0..m |-> IF n = 0 THEN 1 ELSE 2 * f[n - 1]]

\* The powers of two: their recursion is one that ends,
LEMMA ShiftingExists == \A m \in Nat : \E f : Shifting(f, m)
<1> DEFINE S == {m \in Nat : \E f : Shifting(f, m)}
<1>1. 0 \in S
  <2>1. Shifting([n \in 0..0 |-> 1], 0)
    BY DEF Shifting
  <2> QED BY <2>1
<1>2. ASSUME NEW m \in Nat, m \in S PROVE m + 1 \in S
  <2>1. PICK f : Shifting(f, m)
    BY <1>2
  <2> DEFINE g == [n \in 0..m+1 |-> IF n = m + 1 THEN 2 * f[m] ELSE f[n]]
  <2>2. Shifting(g, m + 1)
    BY <2>1 DEF Shifting
  <2> QED BY <2>2
<1> HIDE DEF S
<1>3. Nat \subseteq S
  BY <1>1, <1>2, NatSetInduction
<1> QED BY <1>3 DEF S

\* in one way,
LEMMA ShiftingUnique ==
    ASSUME NEW k \in Nat, NEW m \in Nat, NEW f, NEW g, Shifting(f, k), Shifting(g, m), k <= m
    PROVE  \A i \in 0..k : f[i] = g[i]
<1> DEFINE E == {i \in Nat : i <= k => f[i] = g[i]}
<1>1. 0 \in E
  BY DEF Shifting
<1>2. \A i \in Nat : i \in E => i + 1 \in E
  BY DEF Shifting
<1> HIDE DEF E
<1>3. Nat \subseteq E
  BY <1>1, <1>2, NatSetInduction
<1> QED BY <1>3 DEF E

\* so each is twice the one before,
LEMMA ShiftedIs == Shifted = [n \in Nat |-> IF n = 0 THEN 1 ELSE 2 * Shifted[n - 1]]
<1> DEFINE Shift(n) == CHOOSE f : Shifting(f, n)
           F == [n \in Nat |-> Shift(n)[n]]
<1>1. \A n \in Nat : Shifting(Shift(n), n)
  BY ShiftingExists
<1> HIDE DEF Shift
<1>2. ASSUME NEW n \in Nat PROVE F[n] = IF n = 0 THEN 1 ELSE 2 * F[n - 1]
  <2> DEFINE f == Shift(n)
  <2>1. F[n] = f[n]
    OBVIOUS
  <2>2. Shifting(f, n)
    BY <1>1
  <2>3. f[n] = IF n = 0 THEN 1 ELSE 2 * f[n - 1]
    BY <2>2 DEF Shifting
  <2>4. CASE n # 0
    <3> DEFINE g == Shift(n - 1)
    <3>1. n - 1 \in Nat
      BY <2>4
    <3>2. Shifting(g, n - 1) /\ F[n - 1] = g[n - 1]
      BY <1>1, <3>1
    <3> HIDE DEF f, g, F
    <3>3. g[n - 1] = f[n - 1]
      BY <2>2, <3>1, <3>2, ShiftingUnique
    <3> QED BY <2>1, <2>3, <2>4, <3>2, <3>3
  <2> QED BY <2>1, <2>3, <2>4
<1>3. F = [n \in Nat |-> IF n = 0 THEN 1 ELSE 2 * F[n - 1]]
  <2>1. F = [n \in Nat |-> F[n]]
    OBVIOUS
  <2> HIDE DEF F
  <2> QED BY <1>2, <2>1
<1> HIDE DEF F
<1> QED BY <1>3 DEF Shifted

\* and they are numbers.
LEMMA ShiftedType == \A n \in Nat : Shifted[n] \in Nat
<1> DEFINE S == {n \in Nat : Shifted[n] \in Nat}
<1>1. 0 \in S
  BY ShiftedIs
<1>2. \A n \in Nat : n \in S => n + 1 \in S
  BY ShiftedIs
<1> HIDE DEF S
<1>3. Nat \subseteq S
  BY <1>1, <1>2, NatSetInduction
<1> QED BY <1>3 DEF S

\* The smaller of two numbers.
LEMMA MinOfTwo == ASSUME NEW a \in Nat, NEW b \in Nat PROVE Min({a, b}) \in Nat
<1>1. \E x \in {a, b} : \A y \in {a, b} : x <= y
  OBVIOUS
<1> QED BY <1>1 DEF Min

CallType ==
    [attempt : Nat, elapsed : Nat, wait : Nat,
     status : {NoStatus, "broken", "throttled", "balance", "refused"}]

CallInv ==
    /\ call \in CallType
    /\ call.attempt <= MaxRetries /\ call.elapsed <= Deadline
    /\ step = "waiting" => call.attempt < MaxRetries
    /\ call.status = "balance" => step = "forward"

\* What is waited is a number, whatever the backend asks for.
LEMMA WaitType ==
    ASSUME CallInv, NEW r \in RetryAfters
    PROVE  Wait(r) \in Nat
<1>1. /\ r \in Nat /\ MaxRetryAfter \in Nat /\ MaxBackoff \in Nat /\ call.attempt \in Nat
  BY LocalAnswerAssumption DEF CallInv, CallType
<1>2. Shifted[call.attempt] \in Nat
  BY <1>1, ShiftedType
<1>3. Min({r, MaxRetryAfter}) \in Nat
  BY <1>1, MinOfTwo
<1>4. Min({Shifted[call.attempt], MaxBackoff}) \in Nat
  BY <1>1, <1>2, MinOfTwo
<1> QED BY <1>3, <1>4 DEF Wait, Backoff

\* The backend's call tries no more often than it may, never outlives the deadline
\* of the whole call, and is not tried again for an empty balance (Client.Complete,
\* internal/backend/client.go): for every cap and every wait asked for.
THEOREM RetriesAreBounded == AnswerSpec => []CallInv /\ RetriesBounded
<1>0. MaxRetries \in Nat /\ Deadline \in Nat
  BY LocalAnswerAssumption
<1>1. AnswerInit => CallInv
  BY <1>0 DEF AnswerInit, CallInv, CallType, NewCall, NoStatus
<1>2. CallInv /\ [AnswerNext]_answerVars => CallInv' /\ [/\ call.status = "balance" => step' \notin {"calling", "waiting"}
       /\ call'.elapsed <= Deadline /\ call'.attempt <= MaxRetries]_answerVars
  <2> SUFFICES ASSUME CallInv, [AnswerNext]_answerVars
               PROVE  /\ CallInv' 
                      /\ (call.status = "balance" => step' \notin {"calling", "waiting"}) \/ UNCHANGED answerVars
    BY DEF CallInv
  <2>1. CASE CallBreaks
    BY <2>1 DEF CallBreaks, CallInv, CallType
  <2>2. CASE CallTimesOut
    <3>1. PICK status \in {"broken"} : call' = [call EXCEPT !.status = status, !.elapsed = Deadline]
      BY <2>2 DEF CallTimesOut
    <3>2. call'.attempt = call.attempt /\ call'.elapsed = Deadline /\ call'.status = status /\ call' \in CallType
      BY <1>0, <3>1 DEF CallInv, CallType
    <3> QED BY <1>0, <2>2, <3>2 DEF CallTimesOut, CallInv
  <2>3. CASE CallRefused
    <3>1. PICK status \in {"throttled", "balance", "refused"}, r \in RetryAfters :
             LET waits == Retryable(status) /\ call.attempt < MaxRetries
             IN  /\ call' = [call EXCEPT !.status = status, !.wait = IF waits THEN Wait(r) ELSE 0]
                 /\ step' = IF waits THEN "waiting" ELSE "forward"
      BY <2>3 DEF CallRefused
    <3>2. PICK w \in Nat : w = IF Retryable(status) /\ call.attempt < MaxRetries THEN Wait(r) ELSE 0
      BY WaitType
    <3>3. step = "calling"
      BY <2>3 DEF CallRefused
    <3>4. call' = [call EXCEPT !.status = status, !.wait = w]
      BY <3>1, <3>2
    <3>5. /\ call'.attempt = call.attempt /\ call'.elapsed = call.elapsed /\ call'.status = status /\ call'.wait = w
          /\ call' \in CallType
      BY <3>4 DEF CallInv, CallType
    <3> QED BY <3>1, <3>3, <3>5 DEF CallInv, Retryable
  <2>4. CASE CallWaits
    <3>1. CASE call.elapsed + call.wait < Deadline
      <4>1. PICK a \in Nat, e \in Nat, w \in Nat : a = call.attempt + 1 /\ e = call.elapsed + call.wait /\ w = 0
        BY DEF CallInv, CallType
      <4>2. call' = [call EXCEPT !.attempt = a, !.elapsed = e, !.wait = w] /\ step' = "calling" /\ step = "waiting"
        BY <2>4, <3>1, <4>1 DEF CallWaits, Waited
      <4>3. call'.attempt = a /\ call'.elapsed = e /\ call'.status = call.status /\ call' \in CallType
        BY <4>2 DEF CallInv, CallType
      <4>4. a <= MaxRetries /\ e <= Deadline
        BY <1>0, <3>1, <4>1, <4>2 DEF CallInv, CallType
      <4> QED BY <4>2, <4>3, <4>4 DEF CallInv
    <3>2. CASE ~(call.elapsed + call.wait < Deadline)
      <4>1. PICK w \in Nat : w = 0
        OBVIOUS
      <4>2. call' = [call EXCEPT !.elapsed = Deadline, !.wait = w] /\ step' = "forward"
        BY <2>4, <3>2, <4>1 DEF CallWaits, Waited
      <4>3. call'.attempt = call.attempt /\ call'.elapsed = Deadline /\ call' \in CallType
        BY <1>0, <4>2 DEF CallInv, CallType
      <4> QED BY <1>0, <4>2, <4>3 DEF CallInv
    <3> QED BY <3>1, <3>2
  <2>5. CASE CallAnswers
    BY <1>0, <2>5 DEF CallAnswers, CallInv, CallType, NewCall, NoStatus
  <2>6. CASE AskFrontier
    BY <1>0, <2>6 DEF AskFrontier, CallInv, CallType, NewCall, NoStatus
  <2>7. CASE RelayNext \/ RelayNoise \/ RelayEnds \/ Log
    BY <2>7 DEF RelayNext, RelayNoise, RelayEnds, Log, CallInv
  <2>8. CASE UNCHANGED answerVars
    BY <2>8 DEF answerVars, CallInv
  <2> QED BY <2>1, <2>2, <2>3, <2>4, <2>5, <2>6, <2>7, <2>8 DEF AnswerNext, GoesOn
<1> QED BY <1>1, <1>2, PTL DEF AnswerSpec, RetriesBounded
=============================================================================
