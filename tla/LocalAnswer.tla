----------------------------- MODULE LocalAnswer -----------------------------
(***************************************************************************)
(* How one live request gets its bytes. Served locally: Client.Complete    *)
(* (internal/backend/client.go) waits out throttling within one deadline,  *)
(* FromOpenAI and, for a client that streams, SynthesizeSSE make the       *)
(* answer; when the call fails the frontier is asked (proxy/route.go).     *)
(* From the frontier: the body is relayed and captured up to a cap         *)
(* (proxy/forward.go, capture.go), and the logger assembles what it got    *)
(* (proxy/logger.go). Time is counted in units of the retry base.          *)
(***************************************************************************)
EXTENDS MessageStream

CONSTANTS
    Completions,   \* what the backend may answer
    Messages,      \* what the frontier may mean
    MaxRetries,    \* anthropicMaxRetries
    Deadline,      \* requestTimeout
    MaxBackoff,    \* cap of the backoff
    MaxRetryAfter, \* and of Retry-After
    RetryAfters,   \* waits the backend may ask for; 0 for none
    MaxCapture,    \* maxCaptureBytes, in events
    MaxNoise       \* bound: pings and unknown events of a stream

ASSUME LocalAnswerAssumption ==
    /\ {MaxRetries, Deadline, MaxBackoff, MaxRetryAfter, MaxCapture, MaxNoise} \subseteq Nat
    /\ RetryAfters \subseteq Nat
    /\ \A message \in Messages : WholeMessage(message)
    /\ \A completion \in Completions :
          completion \in [meta : Strings, text : Text, calls : Seq([name : Strings, arguments : Text]),
                         finish : Strings, usage : Usages]

VARIABLES
    step,
    streaming,   \* the client asked for a stream
    call,        \* the call of the backend: attempt, time gone, last status
    meant,       \* the message the answerer means the client to have, once known
    plan,        \* events the frontier still has to send
    noise,
    body,        \* what the client got: events, or the message (nothing, when it is cut)
    captured,    \* what of it the proxy kept
    rows         \* the table calls

answerVars == <<step, streaming, call, meant, plan, noise, body, captured, rows>>

NoStatus == "none"
NewCall == [attempt |-> 0, elapsed |-> 0, status |-> NoStatus, wait |-> 0]

AnswerInit ==
    /\ step \in {"calling", "forward"}
    /\ streaming \in BOOLEAN
    /\ call = NewCall
    /\ meant = <<>>
    /\ plan = <<>>
    /\ noise = 0
    /\ body = <<>>
    /\ captured = <<>>
    /\ rows = {}

-----------------------------------------------------------------------------
(***************************************************************************)
(* The backend's call.                                                     *)
(***************************************************************************)
Retryable(status) == status = "throttled"

\* 1 << n
Shifted[n \in Nat] == IF n = 0 THEN 1 ELSE 2 * Shifted[n - 1]

Backoff(attempt) == Min({Shifted[attempt], MaxBackoff})

Wait(retryAfter) == IF retryAfter > 0 THEN Min({retryAfter, MaxRetryAfter}) ELSE Backoff(call.attempt)

\* A transport error, or the client hanging up.
CallBreaks ==
    /\ step = "calling"
    /\ step' = "forward" /\ call' = [call EXCEPT !.status = "broken"]
    /\ UNCHANGED <<streaming, meant, plan, noise, body, captured, rows>>

\* Mutant: a client without a timeout.
CallTimesOut_Never == FALSE

CallTimesOut ==
    /\ step = "calling"
    /\ step' = "forward" /\ call' = [call EXCEPT !.status = "broken", !.elapsed = Deadline]
    /\ UNCHANGED <<streaming, meant, plan, noise, body, captured, rows>>

\* A status other than 200: what is not waited out fails the call.
CallRefused ==
    /\ step = "calling"
    /\ \E status \in {"throttled", "balance", "refused"}, retryAfter \in RetryAfters :
          LET waits == Retryable(status) /\ call.attempt < MaxRetries
          IN  /\ call' = [call EXCEPT !.status = status, !.wait = IF waits THEN Wait(retryAfter) ELSE 0]
              /\ step' = IF waits THEN "waiting" ELSE "forward"
    /\ UNCHANGED <<streaming, meant, plan, noise, body, captured, rows>>

\* Mutant: every attempt has a deadline of its own.
Waited_OnAndOn == step' = "calling" /\ call' = [call EXCEPT !.attempt = @ + 1, !.elapsed = @ + call.wait, !.wait = 0]

\* The wait ends, or the deadline comes first.
Waited ==
    IF call.elapsed + call.wait < Deadline
    THEN step' = "calling" /\ call' = [call EXCEPT !.attempt = @ + 1, !.elapsed = @ + call.wait, !.wait = 0]
    ELSE step' = "forward" /\ call' = [call EXCEPT !.elapsed = Deadline, !.wait = 0]

CallWaits ==
    /\ step = "waiting"
    /\ Waited
    /\ UNCHANGED <<streaming, meant, plan, noise, body, captured, rows>>

WrittenLocally == [message \in {FromOpenAI(completion) : completion \in Completions} |-> SynthesizeSSE(message)]

CallAnswers ==
    /\ step = "calling"
    /\ \E message \in DOMAIN WrittenLocally :
          /\ meant' = <<message>>
          /\ body' = IF streaming THEN WrittenLocally[message] ELSE <<message>>
    /\ step' = "served"
    /\ call' = NewCall
    /\ UNCHANGED <<streaming, plan, noise, captured, rows>>

-----------------------------------------------------------------------------
(***************************************************************************)
(* The frontier.                                                           *)
(***************************************************************************)
\* One delta for each piece: the frontier's own stream of a message.
Pieces(index, delta, data) == [i \in DOMAIN data |-> Delta(index, delta, <<data[i]>>)]

FrontierBlock(index, block) ==
    <<[event |-> "content_block_start", index |-> index, block |-> StartShape(block)]>>
      \o Pieces(index, "text_delta", IF block.type = "text" THEN block.text ELSE <<>>)
      \o Pieces(index, "thinking_delta", block.thinking)
      \o Pieces(index, "signature_delta", block.signature)
      \o Pieces(index, "input_json_delta", block.input)
      \o <<[event |-> "content_block_stop", index |-> index]>>

FrontierEvents(message) ==
    LET Blocks == [i \in DOMAIN message.content |-> FrontierBlock(i, message.content[i])]
        plain == SynthesizeSSE([message EXCEPT !.content = <<>>])
    IN  <<plain[1]>> \o FlattenSeq(Blocks) \o Tail(plain)

FrontierStreams == [message \in Messages |-> FrontierEvents(message)]

AskFrontier ==
    /\ step = "forward"
    /\ call' = NewCall
    /\ \E message \in Messages :
          /\ meant' = <<message>>
          /\ IF streaming
             THEN plan' = FrontierStreams[message] /\ step' = "relaying" /\ UNCHANGED <<body, captured>>
             ELSE \E sent \in {<<message>>, <<>>} :
                    plan' = <<>> /\ step' = "ended" /\ body' = sent /\ captured' = sent
    /\ UNCHANGED <<streaming, noise, rows>>

\* relayBody: to the client, and to the capture while there is room.
Relayed(ev) ==
    /\ body' = Append(body, ev)
    /\ captured' = IF Len(captured) < MaxCapture THEN Append(captured, ev) ELSE captured

RelayNext ==
    /\ step = "relaying" /\ plan # <<>>
    /\ Relayed(Head(plan))
    /\ plan' = Tail(plan)
    /\ UNCHANGED <<step, streaming, call, meant, noise, rows>>

RelayNoise ==
    /\ step = "relaying" /\ noise < MaxNoise
    /\ \E event \in {"ping", "unknown"} : Relayed([event |-> event])
    /\ noise' = noise + 1
    /\ UNCHANGED <<step, streaming, call, meant, plan, rows>>

\* The assembler skips an event it cannot decode; a last one it need not.
Torn(ev) == IF ev.event = "message_stop" THEN ev ELSE [event |-> "torn"]

\* The end, or what relayBody takes for it: a connection that breaks between
\* two events or within one, and an error the frontier reports.
RelayEnds ==
    /\ step = "relaying"
    /\ \/ UNCHANGED <<plan, body, captured>>
       \/ /\ plan # <<>> /\ plan' = <<>>
          /\ \E last \in {[event |-> "error"], Torn(Head(plan))} : Relayed(last)
    /\ step' = "ended"
    /\ UNCHANGED <<streaming, call, meant, noise, rows>>

Capped == IF Len(body) > Len(captured) THEN {"capped"} ELSE {}

Log ==
    /\ step = "ended"
    /\ \/ /\ streaming
          /\ \E read \in {AssembleSSE(captured)} :
                rows' = {[response |-> <<read.message>>, errors |-> ({read.error} \ {""}) \cup Capped]}
       \/ /\ ~streaming
          /\ rows' = {[response |-> captured, errors |-> {}]}
    /\ step' = "logged"
    /\ UNCHANGED <<streaming, call, meant, plan, noise, body, captured>>

-----------------------------------------------------------------------------
GoesOn == CallTimesOut \/ CallWaits \/ AskFrontier \/ RelayNext \/ RelayEnds \/ Log

AnswerNext == GoesOn \/ CallRefused \/ CallBreaks \/ CallAnswers \/ RelayNoise

AnswerSpec == AnswerInit /\ [][AnswerNext]_answerVars

\* The backend need not answer, the deadline of its call is kept; that the
\* frontier goes on or breaks off is assumed.
AnswerFairSpec == AnswerSpec /\ WF_answerVars(GoesOn)

-----------------------------------------------------------------------------
(***************************************************************************)
(* Properties.                                                             *)
(***************************************************************************)
\* A client that streams reads from a synthesised stream the very message the
\* backend's completion became: blocks, order, inputs, stop reason and usage.
StreamSaysWhatWasMeant ==
    step = "served" /\ streaming =>
        AssembleSSE(body) = [message |-> meant[1], error |-> ""]

\* A streamed call that is logged without an error is the message that was
\* meant: whatever broke off, was capped or was reported is flagged.
CutIsFlagged ==
    streaming => \A row \in rows : row.errors = {} => row.response = meant

\* An empty balance is not throttling: the call it fails is never tried again.
\* Throttling is waited out, within the deadline of the whole call.
RetriesBounded ==
    [][/\ call.status = "balance" => step' \notin {"calling", "waiting"}
       /\ call'.elapsed <= Deadline /\ call'.attempt <= MaxRetries]_answerVars

\* Every request ends, served or logged, however long the backend throttles or
\* does not answer at all.
RequestEnds == <>(step \in {"served", "logged"})
=============================================================================
