-------------------------- MODULE FeaturiseProofs --------------------------
(***************************************************************************)
(* Proofs about Featurise, for any number of sessions, featurisers, turns  *)
(* and faults: the types, that a known followup is what the next call      *)
(* says, and that a task is labelled for it.                               *)
(*                                                                         *)
(* What is read is written later, and what is written is read again later: *)
(* a followup stands because calls are only ever appended, so that the     *)
(* next call of a session, once there is one, is the next call for good.   *)
(***************************************************************************)
EXTENDS Featurise, SequenceTheorems, WellFoundedInduction, TLAPS

Contents == Asks \cup Results \cup Answers
Messages == [role : {"user", "assistant"}, content : Contents]
Responses == {<<>>} \cup UNION {Beginnings(answer) : answer \in Answers}
CallRows ==
    [session : Sessions,
     request : [planMode : {FALSE}, messages : Seq(Messages)],
     reply : {"decodes", "garbled", "none"},
     response : Responses]
FeatureRows ==
    [turnType : TurnTypes,
     subsystem : {Subsystem(FilesTouched(blocks)) : blocks \in Responses},
     followup : Followups]

Signal(c) == ErrorFollowup(c, FilesTouched(calls[c].response))

\* What a row says of the followup of a call is what there is to say.
Stands(c, row) == row.followup # "unknown" => row.followup = Signal(c)

Answereds == {c \in CallIds : Answered(c)}
Decodeds == {c \in CallIds : Decodes(c)}

-----------------------------------------------------------------------------
(***************************************************************************)
(* The inductive invariant, a part for each process.                       *)
(***************************************************************************)
ClientInv ==
    /\ turns \in 0..MaxTurns /\ faults \in 0..MaxFaults
    /\ transcript \in [Sessions -> Seq(Messages)]
    /\ calls \in Seq(CallRows)

\* Rows of features are of calls whose reply decodes.
FeaturesInv ==
    \A c \in DOMAIN features :
        c \in Decodeds /\ features[c] \in FeatureRows /\ Stands(c, features[c])

\* A process has answered calls left, and holds a row of the least of them only
\* when its reply decodes.
FeaturiserInv(f) ==
    LET at == featuriser[f]
    IN  \/ at = FeaturiserIdle
        \/ /\ at = [pc |-> "read", left |-> at.left, row |-> None]
           /\ at.left # {} /\ at.left \subseteq Answereds
        \/ /\ at = [pc |-> "write", left |-> at.left, row |-> at.row]
           /\ at.left # {} /\ at.left \subseteq Answereds
           /\ Min(at.left) \in Decodeds
           /\ at.row \in FeatureRows /\ Stands(Min(at.left), at.row)

FeaturisersInv ==
    /\ featuriser = [f \in Featurisers |-> featuriser[f]]
    /\ \A f \in Featurisers : FeaturiserInv(f)

Origins == {"disagreement", "escalation", "error_followup", "clean"}

\* The rows of a query still say what its origin promises.
HarvestInv ==
    /\ harvester = [pc |-> harvester.pc, rows |-> harvester.rows]
    /\ harvester.rows = [c \in DOMAIN harvester.rows |-> harvester.rows[c]]
    /\ harvester.pc \in Origins \cup {Idle}
    /\ \A c \in DOMAIN harvester.rows :
          /\ harvester.pc # Idle /\ c \in DOMAIN features
          /\ harvester.rows[c] \in FeatureRows /\ Stands(c, harvester.rows[c])
          /\ harvester.pc = "error_followup" => harvester.rows[c].followup = "yes"
          /\ harvester.pc = "clean" => harvester.rows[c].followup = "no"
          /\ harvester.pc # "escalation"

Labelled(task) ==
    /\ task.call \in DOMAIN features
    /\ task.difficulty = "challenging" => Signal(task.call) = "yes"
    /\ task.difficulty = "simple" => Signal(task.call) = "no"

TasksInv == \A task \in tasks : Labelled(task)

VerdictsInv == DOMAIN verdicts \subseteq DOMAIN features

IInv == ClientInv /\ FeaturesInv /\ FeaturisersInv /\ HarvestInv /\ TasksInv /\ VerdictsInv

-----------------------------------------------------------------------------
(***************************************************************************)
(* Lemmas.                                                                 *)
(***************************************************************************)
LEMMA LeastIsIn ==
    ASSUME NEW S, S \subseteq Nat, S # {}
    PROVE  Min(S) \in S
<1> DEFINE R == {pair \in Nat \X Nat : pair[1] < pair[2]}
<1>1. IsWellFoundedOn(R, Nat)
  BY NatLessThanWellFounded, Zenon DEF OpToRel
<1>2. PICK x \in S : \A y \in S : <<y, x>> \notin R
  <2> HIDE DEF R
  <2> QED
    BY <1>1, WFMin, Zenon
<1>3. \A y \in S : x <= y
  <2>1. \A y \in S : ~(y < x)
    BY <1>2
  <2> QED
    BY <2>1
<1> QED
  BY <1>3 DEF Min

\* What decodes is an answer.
LEMMA DecodedAnswered == Decodeds \subseteq Answereds
BY DEF Decodeds, Answereds, Decodes, Answered

LEMMA CallIdsAre == calls \in Seq(CallRows) => CallIds = 1..Len(calls) /\ CallIds \subseteq Nat
BY DEF CallIds

LEMMA TypeOfTurn == ASSUME NEW request, NEW blocks
                    PROVE  ClassifyTurnType(request, blocks) \in TurnTypes
BY DEF ClassifyTurnType, TurnTypes

LEMMA SignalIs == \A c : Signal(c) \in Followups /\ (Signal(c) = "unknown" <=> NextCalls(c) = {})
BY DEF Signal, ErrorFollowup, Followups

\* The row of an answered call says what the next call, if any, says.
LEMMA FeatureRowStands ==
    ASSUME calls \in Seq(CallRows), NEW c \in CallIds
    PROVE  FeatureRow(c) \in FeatureRows /\ Stands(c, FeatureRow(c))
<1>1. calls[c].response \in Responses
  <2>1. calls[c] \in CallRows
    BY DEF CallIds
  <2> QED
    BY <2>1 DEF CallRows
<1>2. FeatureRow(c).followup = Signal(c)
  BY DEF FeatureRow, Signal
<1>3. FeatureRow(c) \in FeatureRows
  BY <1>1, <1>2, SignalIs, TypeOfTurn DEF FeatureRow, FeatureRows, Signal
<1> QED
  BY <1>2, <1>3 DEF Stands

\* A followup that is known stays so: the table of calls only grows.
Kept(c) ==
    /\ c \in Answereds => c \in Answereds'
    /\ c \in Decodeds => c \in Decodeds'
    /\ \A row : Stands(c, row) => Stands(c, row)'
    /\ Signal(c) # "unknown" => Signal(c)' = Signal(c)

LEMMA SameCallsKeep ==
    ASSUME UNCHANGED calls, NEW c
    PROVE  Kept(c)
BY DEF Kept, Answereds, Decodeds, CallIds, Answered, Decodes, Stands, Signal, ErrorFollowup, NextCalls, LaterCalls

LEMMA NewCallKeeps ==
    ASSUME calls \in Seq(CallRows), NEW row \in CallRows, calls' = Append(calls, row),
           NEW c \in CallIds
    PROVE  Kept(c)
<1> DEFINE new == Len(calls) + 1
<1>1. /\ CallIds = 1..Len(calls) /\ CallIds' = 1..new /\ Len(calls) \in Nat
      /\ \A d \in CallIds : calls'[d] = calls[d]
  BY DEF CallIds
<1>2. c \in CallIds' /\ calls'[c] = calls[c] /\ (Answered(c)' <=> Answered(c)) /\ (Decodes(c)' <=> Decodes(c))
  BY <1>1 DEF Answered, Decodes
<1>3. LaterCalls(c)' \in {LaterCalls(c), LaterCalls(c) \cup {new}}
  <2> HIDE DEF new
  <2>1. new = Len(calls) + 1
    BY DEF new
  <2>2. CallIds' = CallIds \cup {new} /\ \A d \in CallIds : d < new
    BY <1>1, <2>1
  <2>3. \A d \in CallIds : d \in LaterCalls(c)' <=> d \in LaterCalls(c)
    BY <1>1, <1>2, <2>2 DEF LaterCalls
  <2> QED
    BY <2>2, <2>3 DEF LaterCalls
<1>4. LaterCalls(c) \subseteq 1..Len(calls)
  BY <1>1 DEF LaterCalls
<1>5. ASSUME NextCalls(c) # {} PROVE NextCalls(c)' = NextCalls(c)
  <2>1. PICK d \in LaterCalls(c) : \A e \in LaterCalls(c) : d <= e
    BY <1>5 DEF NextCalls
  <2>2. NextCalls(c) = {d} /\ NextCalls(c)' = {d}
    BY <1>1, <1>3, <1>4, <2>1 DEF NextCalls
  <2> QED
    BY <2>2
<1>6. ASSUME Signal(c) # "unknown" PROVE Signal(c)' = Signal(c)
  <2>1. NextCalls(c) # {}
    BY <1>6, SignalIs
  <2>2. NextCalls(c)' = NextCalls(c) /\ \A d \in NextCalls(c) : calls'[d] = calls[d]
    BY <1>1, <1>4, <1>5, <2>1 DEF NextCalls
  <2> QED
    BY <1>2, <2>1, <2>2 DEF Signal, ErrorFollowup
<1>7. \A r : Stands(c, r) => Stands(c, r)'
  BY <1>6 DEF Stands
<1> QED
  BY <1>2, <1>6, <1>7 DEF Kept, Answereds, Decodeds

\* What the client sends is a list of messages.
LEMMA SendableIs ==
    ASSUME NEW messages \in Seq(Messages)
    PROVE  Sendable(messages) \subseteq Seq(Messages)
<1>1. ASSUME NEW content \in Asks \cup Results PROVE Message("user", content) \in Messages
  BY <1>1 DEF Message, Messages, Contents
<1>2. CASE messages = <<>>
  <2>1. Sendable(messages) = {<<Message("user", ask)>> : ask \in Asks}
    BY <1>2 DEF Sendable
  <2>2. ASSUME NEW ask \in Asks PROVE <<Message("user", ask)>> \in Seq(Messages)
    <3>1. Message("user", ask) \in Messages
      BY <1>1
    <3> QED
      BY <3>1
  <2> QED
    BY <2>1, <2>2
<1>3. CASE messages # <<>> /\ Last(messages).role = "user"
  BY <1>3 DEF Sendable
<1>4. CASE messages # <<>> /\ Last(messages).role # "user"
  <2>1. \A reply \in Asks \cup Results : Append(messages, Message("user", reply)) \in Seq(Messages)
    BY <1>1, AppendProperties
  <2>2. Front(messages) \in Seq(Messages)
    <3>1. Len(messages) \in Nat /\ \A i \in 1..(Len(messages) - 1) : messages[i] \in Messages
      OBVIOUS
    <3> QED
      BY <3>1, SubSeqProperties DEF Front
  <2> QED
    BY <1>4, <2>1, <2>2 DEF Sendable
<1> QED
  BY <1>2, <1>3, <1>4

LEMMA TurnTyped ==
    ASSUME ClientInv, NEW s \in Sessions, Turn(s)
    PROVE  /\ ClientInv'
           /\ calls' = calls \/ \E row \in CallRows : calls' = Append(calls, row)
<1>1. PICK sent \in Sendable(transcript[s]) \cup Sendable(<<>>), answer \in Answers :
        LET heard == Append(sent, Message("assistant", answer))
        IN  \/ /\ transcript' = [transcript EXCEPT ![s] = heard]
               /\ UNCHANGED calls
            \/ \E stored \in Replies(answer) :
                  /\ transcript' = [transcript EXCEPT
                        ![s] = IF stored.reply = "none" THEN sent ELSE heard]
                  /\ calls' = Append(calls, CallRow(s, sent, stored))
  BY DEF Turn
<1>2. sent \in Seq(Messages)
  <2>1. transcript[s] \in Seq(Messages) /\ <<>> \in Seq(Messages)
    BY DEF ClientInv
  <2> QED
    BY <2>1, SendableIs
<1>3. Append(sent, Message("assistant", answer)) \in Seq(Messages)
  <2>1. Message("assistant", answer) \in Messages
    BY DEF Message, Messages, Contents
  <2> QED
    BY <1>2, <2>1, AppendProperties
<1>4. transcript' \in [Sessions -> Seq(Messages)]
  BY <1>1, <1>2, <1>3 DEF ClientInv
<1>5. ASSUME NEW stored \in Replies(answer) PROVE CallRow(s, sent, stored) \in CallRows
  <2>1. stored.reply \in {"decodes", "garbled", "none"} /\ stored.response \in Responses
    <3>1. CASE stored \in {[reply |-> "decodes", response |-> blocks] : blocks \in Beginnings(answer)}
      BY <3>1 DEF Responses
    <3>2. CASE stored \in {[reply |-> reply, response |-> <<>>] : reply \in {"garbled", "none"}}
      BY <3>2 DEF Responses
    <3> QED
      BY <1>5, <3>1, <3>2 DEF Replies
  <2> QED
    BY <1>2, <2>1 DEF CallRow, CallRows
<1>6. calls' = calls \/ \E row \in CallRows : calls' = Append(calls, row)
  BY <1>1, <1>5
<1>7. calls' \in Seq(CallRows)
  <2>1. calls \in Seq(CallRows)
    BY DEF ClientInv
  <2>2. \A row \in CallRows : Append(calls, row) \in Seq(CallRows)
    BY <2>1, AppendProperties
  <2> QED
    BY <1>6, <2>1, <2>2
<1>8. turns' \in 0..MaxTurns /\ faults' \in 0..MaxFaults
  BY FeaturiseAssumption DEF Turn, ClientInv
<1> QED
  BY <1>4, <1>6, <1>7, <1>8 DEF ClientInv

-----------------------------------------------------------------------------
(***************************************************************************)
(* Each action preserves the invariant. What an action leaves alone keeps  *)
(* its part, as no followup that is known changes.                         *)
(***************************************************************************)
AllKept == \A c \in CallIds : Kept(c)

LEMMA FeaturesKept ==
    ASSUME IInv, AllKept, UNCHANGED features
    PROVE  FeaturesInv'
BY DEF IInv, AllKept, Kept, FeaturesInv, Decodeds

LEMMA RowsKept ==
    ASSUME IInv, AllKept, DOMAIN features \subseteq DOMAIN features', UNCHANGED harvester
    PROVE  HarvestInv'
<1> SUFFICES ASSUME NEW c \in DOMAIN harvester.rows
             PROVE  Stands(c, harvester.rows[c])'
  BY DEF IInv, HarvestInv
<1>1. c \in CallIds
  BY DEF IInv, HarvestInv, FeaturesInv, Decodeds
<1>2. Stands(c, harvester.rows[c])
  BY DEF IInv, HarvestInv
<1> QED
  BY <1>1, <1>2 DEF AllKept, Kept, Stands

LEMMA TasksKept ==
    ASSUME IInv, AllKept, DOMAIN features \subseteq DOMAIN features', UNCHANGED tasks
    PROVE  TasksInv'
<1> SUFFICES ASSUME NEW task \in tasks
             PROVE  Labelled(task)'
  BY DEF TasksInv
<1>1. Labelled(task) /\ task.call \in CallIds
  BY DEF IInv, TasksInv, Labelled, FeaturesInv, Decodeds
<1> QED
  BY <1>1 DEF AllKept, Kept, Labelled

LEMMA FeaturiserKept ==
    ASSUME IInv, AllKept, NEW f \in Featurisers, featuriser'[f] = featuriser[f]
    PROVE  FeaturiserInv(f)'
<1>1. FeaturiserInv(f)
  BY DEF IInv, FeaturisersInv
<1>2. \A c \in Answereds :
        /\ c \in Answereds' /\ (c \in Decodeds => c \in Decodeds')
        /\ \A row : Stands(c, row) => Stands(c, row)'
  BY DEF AllKept, Kept, Answereds
<1>3. CASE featuriser[f] = FeaturiserIdle
  BY <1>3 DEF FeaturiserInv
<1>4. ASSUME featuriser[f].left # {}, featuriser[f].left \subseteq Answereds
      PROVE  /\ featuriser[f].left \subseteq Answereds'
             /\ Min(featuriser[f].left) \in Answereds
  <2>1. featuriser[f].left \subseteq Nat
    BY <1>4, CallIdsAre DEF IInv, ClientInv, Answereds
  <2> QED
    BY <1>2, <1>4, <2>1, LeastIsIn
<1>5. CASE /\ featuriser[f] = [pc |-> "read", left |-> featuriser[f].left, row |-> None]
           /\ featuriser[f].left # {} /\ featuriser[f].left \subseteq Answereds
  BY <1>4, <1>5 DEF FeaturiserInv
<1>6. CASE /\ featuriser[f] = [pc |-> "write", left |-> featuriser[f].left, row |-> featuriser[f].row]
           /\ featuriser[f].left # {} /\ featuriser[f].left \subseteq Answereds
           /\ Min(featuriser[f].left) \in Decodeds
           /\ featuriser[f].row \in FeatureRows
           /\ Stands(Min(featuriser[f].left), featuriser[f].row)
  <2>1. Min(featuriser[f].left) \in Decodeds' /\ Stands(Min(featuriser[f].left), featuriser[f].row)'
    BY <1>2, <1>4, <1>6 DEF Stands
  <2> QED
    BY <1>4, <1>6, <2>1 DEF FeaturiserInv
<1> QED
  BY <1>1, <1>3, <1>5, <1>6 DEF FeaturiserInv

LEMMA AdvancedStands ==
    ASSUME IInv, NEW f \in Featurisers, featuriser[f] # FeaturiserIdle, UNCHANGED calls,
           featuriser'[f] = Advanced(f)
    PROVE  FeaturiserInv(f)'
<1> DEFINE rest == featuriser[f].left \ {Min(featuriser[f].left)}
<1>1. featuriser[f].left \subseteq Answereds
  BY DEF IInv, FeaturisersInv, FeaturiserInv
<1>2. Answereds' = Answereds
  BY DEF Answereds, CallIds, Answered
<1>3. rest \subseteq Answereds'
  BY <1>1, <1>2
<1> HIDE DEF rest
<1>4. CASE rest = {}
  <2>1. featuriser'[f] = FeaturiserIdle
    BY <1>4 DEF Advanced, rest
  <2> QED
    BY <2>1 DEF FeaturiserInv
<1>5. CASE rest # {}
  <2>1. featuriser'[f] = [pc |-> "read", left |-> rest, row |-> None]
    BY <1>5 DEF Advanced, rest, FeaturiserIdle
  <2> QED
    BY <1>3, <1>5, <2>1 DEF FeaturiserInv
<1> QED
  BY <1>4, <1>5

\* A step of one featuriser that leaves the tables alone, once it is known
\* what that one holds.
LEMMA OneFeaturiser ==
    ASSUME IInv, NEW f \in Featurisers, NEW at,
           featuriser' = [featuriser EXCEPT ![f] = at], featuriser'[f] = at => FeaturiserInv(f)',
           AllKept
    PROVE  FeaturisersInv'
<1>1. featuriser' = [g \in Featurisers |-> featuriser'[g]] /\ featuriser'[f] = at
  BY DEF IInv, FeaturisersInv
<1>2. ASSUME NEW g \in Featurisers, g # f PROVE FeaturiserInv(g)'
  <2>1. featuriser'[g] = featuriser[g]
    BY <1>2 DEF IInv, FeaturisersInv
  <2> QED
    BY <2>1, FeaturiserKept
<1> QED
  BY <1>1, <1>2 DEF FeaturisersInv

LEMMA FeaturisersKept ==
    ASSUME IInv, AllKept, UNCHANGED featuriser
    PROVE  FeaturisersInv'
BY FeaturiserKept DEF IInv, FeaturisersInv

LEMMA HoldsLeft ==
    ASSUME NEW f \in Featurisers, NEW l, l # {}, l \subseteq Answereds, UNCHANGED calls,
           featuriser'[f] = [pc |-> "read", left |-> l, row |-> None]
    PROVE  FeaturiserInv(f)'
<1>1. Answereds' = Answereds
  BY DEF Answereds, CallIds, Answered
<1> QED
  BY <1>1 DEF FeaturiserInv

LEMMA HoldsRow ==
    ASSUME NEW f \in Featurisers, NEW l, l # {}, l \subseteq Answereds, UNCHANGED calls,
           Min(l) \in Decodeds, NEW r \in FeatureRows, Stands(Min(l), r),
           featuriser'[f] = [pc |-> "write", left |-> l, row |-> r]
    PROVE  FeaturiserInv(f)'
<1>1. Answereds' = Answereds /\ Decodeds' = Decodeds
  BY DEF Answereds, Decodeds, CallIds, Answered, Decodes
<1>2. Stands(Min(l), r)'
  BY DEF Stands, Signal, ErrorFollowup, NextCalls, LaterCalls, CallIds
<1> QED
  BY <1>1, <1>2 DEF FeaturiserInv

\* Records in full, after an update of two of their fields.
LEMMA ReadRecord ==
    ASSUME NEW l
    PROVE  [FeaturiserIdle EXCEPT !.pc = "read", !.left = l] = [pc |-> "read", left |-> l, row |-> None]
<1> DEFINE R == [pc : {Idle, "read"}, left : {{}, l}, row : {None}]
           updated == [FeaturiserIdle EXCEPT !.pc = "read", !.left = l]
<1>1. updated \in R /\ [pc |-> "read", left |-> l, row |-> None] \in R
  BY DEF FeaturiserIdle
<1>2. updated.pc = "read" /\ updated.left = l /\ updated.row = None
  BY DEF FeaturiserIdle
<1> QED
  BY <1>1, <1>2

LEMMA WriteRecord ==
    \A l, r, at : at = [pc |-> "read", left |-> l, row |-> None] =>
        [at EXCEPT !.pc = "write", !.row = r] = [pc |-> "write", left |-> l, row |-> r]
<1> SUFFICES ASSUME NEW l, NEW r, NEW at, at = [pc |-> "read", left |-> l, row |-> None]
             PROVE  [at EXCEPT !.pc = "write", !.row = r] = [pc |-> "write", left |-> l, row |-> r]
  OBVIOUS
<1> DEFINE R == [pc : {"read", "write"}, left : {l}, row : {None, r}]
           updated == [at EXCEPT !.pc = "write", !.row = r]
<1>1. updated \in R /\ [pc |-> "write", left |-> l, row |-> r] \in R
  OBVIOUS
<1>2. updated.pc = "write" /\ updated.left = l /\ updated.row = r
  OBVIOUS
<1> QED
  BY <1>1, <1>2

LEMMA StartStands ==
    ASSUME IInv, NEW f \in Featurisers, NEW refresh \in BOOLEAN, FeaturiseStart(f, refresh)
    PROVE  IInv'
<1>0. AllKept
  BY SameCallsKeep DEF FeaturiseStart, client, AllKept
<1>1. PICK ids : ids \subseteq Answereds /\ ids # {}
                 /\ featuriser' = [featuriser EXCEPT ![f] = [FeaturiserIdle EXCEPT !.pc = "read", !.left = ids]]
  BY DecodedAnswered DEF FeaturiseStart, MissingFeatures, NullFollowup, Answereds, IInv, FeaturesInv
<1>2. featuriser' = [featuriser EXCEPT ![f] = [pc |-> "read", left |-> ids, row |-> None]]
  BY <1>1, ReadRecord
<1>3. UNCHANGED calls
  BY DEF FeaturiseStart, client
<1>4. FeaturisersInv'
  BY <1>0, <1>1, <1>2, <1>3, HoldsLeft, OneFeaturiser
<1> QED
  BY <1>0, <1>4, FeaturesKept, RowsKept, TasksKept DEF FeaturiseStart, client, IInv, ClientInv, VerdictsInv

LEMMA ReadStands ==
    ASSUME IInv, NEW f \in Featurisers, FeaturiseRead(f)
    PROVE  IInv'
<1>0. AllKept /\ UNCHANGED calls
  BY SameCallsKeep DEF FeaturiseRead, client, AllKept
<1>1. PICK l : featuriser[f] = [pc |-> "read", left |-> l, row |-> None] /\ l # {} /\ l \subseteq Answereds
  BY DEF FeaturiseRead, IInv, FeaturisersInv, FeaturiserInv, FeaturiserIdle, Idle
<1>2. calls \in Seq(CallRows)
  BY DEF IInv, ClientInv
<1>3. Min(l) \in Answereds /\ Min(l) \in Decodeds
  <2>1. l \subseteq Nat
    BY <1>1, <1>2, CallIdsAre DEF Answereds
  <2>2. Min(l) \in Answereds
    BY <1>1, <2>1, LeastIsIn
  <2> QED
    BY <1>1, <2>2 DEF FeaturiseRead, Decodeds, Answereds
<1>4. PICK r \in FeatureRows : r = FeatureRow(Min(l)) /\ Stands(Min(l), r)
  BY <1>2, <1>3, FeatureRowStands DEF Answereds
<1>5. featuriser' = [featuriser EXCEPT ![f] = [pc |-> "write", left |-> l, row |-> r]]
  <2>1. featuriser[f].left = l
    BY <1>1
  <2>2. featuriser' = [featuriser EXCEPT ![f].pc = "write", ![f].row = r]
    BY <1>4, <2>1 DEF FeaturiseRead
  <2>3. featuriser' = [featuriser EXCEPT ![f] = [featuriser[f] EXCEPT !.pc = "write", !.row = r]]
    BY <2>2
  <2>4. PICK at : at = featuriser[f] /\ at = [pc |-> "read", left |-> l, row |-> None]
    BY <1>1
  <2>5. [at EXCEPT !.pc = "write", !.row = r] = [pc |-> "write", left |-> l, row |-> r]
    BY <2>4, WriteRecord, Zenon
  <2> QED
    BY <2>3, <2>4, <2>5
<1>6. FeaturisersInv'
  BY <1>0, <1>1, <1>3, <1>4, <1>5, HoldsRow, OneFeaturiser
<1> QED
  BY <1>0, <1>6, FeaturesKept, RowsKept, TasksKept DEF FeaturiseRead, client, IInv, ClientInv, VerdictsInv

\* A featuriser that goes on to the next call, or ends, leaves the rest alone.
LEMMA GoesOnStands ==
    ASSUME IInv, NEW f \in Featurisers,
           FeaturisePasses(f) \/ FeaturiseSkips(f) \/ FeaturiseKilled(f)
    PROVE  IInv'
<1>0. AllKept /\ UNCHANGED calls
  BY SameCallsKeep DEF FeaturisePasses, FeaturiseSkips, FeaturiseKilled, client, AllKept
<1>1. featuriser[f] # FeaturiserIdle
  BY DEF FeaturisePasses, FeaturiseSkips, FeaturiseKilled, FeaturiserIdle, Idle
<1>2. PICK at : /\ featuriser' = [featuriser EXCEPT ![f] = at]
                /\ at \in {Advanced(f), FeaturiserIdle}
  BY DEF FeaturisePasses, FeaturiseSkips, FeaturiseKilled
<1>3. featuriser'[f] = at => FeaturiserInv(f)'
  <2>1. CASE at = Advanced(f)
    BY <1>0, <1>1, <2>1, AdvancedStands
  <2>2. CASE at = FeaturiserIdle
    BY <2>2 DEF FeaturiserInv
  <2> QED
    BY <1>2, <2>1, <2>2
<1>4. FeaturisersInv'
  BY <1>0, <1>2, <1>3, OneFeaturiser
<1>5. ClientInv'
  BY FeaturiseAssumption DEF FeaturisePasses, FeaturiseSkips, FeaturiseKilled, Failed, client, IInv, ClientInv
<1> QED
  BY <1>0, <1>4, <1>5, FeaturesKept, RowsKept, TasksKept
     DEF FeaturisePasses, FeaturiseSkips, FeaturiseKilled, client, IInv, VerdictsInv

\* The row that is written may replace one that is known: both say the same.
LEMMA WriteStands ==
    ASSUME IInv, NEW f \in Featurisers, FeaturiseWrite(f)
    PROVE  IInv'
<1>0. AllKept /\ UNCHANGED calls
  BY SameCallsKeep DEF FeaturiseWrite, client, AllKept
<1>1. PICK l \in SUBSET Answereds, r \in FeatureRows :
            /\ featuriser[f] = [pc |-> "write", left |-> l, row |-> r]
            /\ l # {} /\ Min(l) \in Decodeds /\ Stands(Min(l), r)
  <2>1. FeaturiserInv(f) /\ featuriser[f].pc = "write"
    BY DEF FeaturiseWrite, IInv, FeaturisersInv
  <2>2. /\ featuriser[f] = [pc |-> "write", left |-> featuriser[f].left, row |-> featuriser[f].row]
        /\ featuriser[f].left # {} /\ featuriser[f].left \subseteq Answereds
        /\ Min(featuriser[f].left) \in Decodeds
        /\ featuriser[f].row \in FeatureRows
        /\ Stands(Min(featuriser[f].left), featuriser[f].row)
    BY <2>1 DEF FeaturiserInv, FeaturiserIdle, Idle
  <2> QED
    BY <2>2
<1>2. PICK c : c = Min(l) /\ c \in Decodeds
  BY <1>1
<1>3. features' = Upserted(features, c, r)
  BY <1>1, <1>2 DEF FeaturiseWrite
<1>4. /\ DOMAIN features' = DOMAIN features \cup {c}
      /\ features'[c] = r
      /\ \A d \in DOMAIN features : d # c => features'[d] = features[d]
  BY <1>3 DEF Upserted
<1>5. Decodeds' = Decodeds
  BY <1>0 DEF Decodeds, CallIds, Decodes
<1>6. FeaturesInv'
  <2> SUFFICES ASSUME NEW d \in DOMAIN features'
               PROVE  d \in Decodeds /\ features'[d] \in FeatureRows /\ Stands(d, features[d])'
    BY <1>5 DEF FeaturesInv
  <2>1. PICK row : row = features'[d]
    OBVIOUS
  <2>2. d \in Decodeds /\ row \in FeatureRows /\ Stands(d, row)
    BY <1>1, <1>2, <1>4, <2>1 DEF IInv, FeaturesInv
  <2>3. Stands(d, row)'
    BY <1>0, <2>2 DEF AllKept, Kept, Decodeds
  <2> QED
    BY <2>1, <2>2, <2>3 DEF Stands
<1>7. FeaturisersInv'
  <2>1. featuriser[f] # FeaturiserIdle /\ featuriser' = [featuriser EXCEPT ![f] = Advanced(f)]
    BY DEF FeaturiseWrite, FeaturiserIdle, Idle
  <2>2. featuriser'[f] = Advanced(f) => FeaturiserInv(f)'
    BY <1>0, <2>1, AdvancedStands
  <2> QED
    BY <1>0, <2>1, <2>2, OneFeaturiser
<1> QED
  BY <1>0, <1>4, <1>6, <1>7, RowsKept, TasksKept
     DEF FeaturiseWrite, client, IInv, ClientInv, VerdictsInv

LEMMA TurnStands ==
    ASSUME IInv, NEW s \in Sessions, Turn(s)
    PROVE  IInv'
<1>1. ClientInv' /\ (calls' = calls \/ \E row \in CallRows : calls' = Append(calls, row))
  BY TurnTyped DEF IInv
<1>2. AllKept
  BY <1>1, SameCallsKeep, NewCallKeeps DEF AllKept, IInv, ClientInv
<1> QED
  BY <1>1, <1>2, FeaturesKept, RowsKept, TasksKept, FeaturisersKept DEF Turn, IInv, VerdictsInv

LEMMA VerdictStands ==
    ASSUME IInv, Verify \/ Judge
    PROVE  IInv'
<1>1. AllKept
  BY SameCallsKeep DEF Verify, Judge, client, AllKept
<1>2. VerdictsInv'
  <2>1. CASE Verify
    BY <2>1 DEF Verify, Upserted, IInv, VerdictsInv
  <2>2. CASE Judge
    BY <2>2 DEF Judge, IInv, VerdictsInv
  <2> QED
    BY <2>1, <2>2
<1> QED
  BY <1>1, <1>2, FeaturesKept, RowsKept, TasksKept, FeaturisersKept
     DEF Verify, Judge, client, IInv, ClientInv

\* The rows of a query are of its origin when it is made.
LEMMA QueryStands ==
    ASSUME IInv, NEW origin \in Origins, UNCHANGED <<features, calls>>,
           harvester' = [pc |-> origin, rows |-> HarvestRows(origin)]
    PROVE  HarvestInv'
<1>1. ASSUME NEW c \in HarvestSource(origin)
      PROVE  /\ c \in DOMAIN features /\ origin # "escalation"
             /\ origin = "error_followup" => features[c].followup = "yes"
             /\ origin = "clean" => features[c].followup = "no"
  BY <1>1 DEF HarvestSource, Origins, Disagreements, ErrorFollowups, CleanCandidates, IInv, VerdictsInv
<1>2. ASSUME NEW c \in HarvestSource(origin)
      PROVE  features[c] \in FeatureRows /\ Stands(c, features[c])'
  <2>1. features[c] \in FeatureRows /\ Stands(c, features[c]) /\ Kept(c)
    BY <1>1, SameCallsKeep DEF IInv, FeaturesInv
  <2> QED
    BY <2>1 DEF Kept, Stands
<1>3. harvester'.pc = origin /\ harvester'.rows = HarvestRows(origin)
  OBVIOUS
<1>4. /\ DOMAIN harvester'.rows = HarvestSource(origin)
      /\ \A c \in HarvestSource(origin) : harvester'.rows[c] = features[c]
  BY <1>3 DEF HarvestRows
<1>5. ASSUME NEW c \in DOMAIN harvester'.rows
      PROVE  Stands(c, harvester.rows[c])'
  BY <1>2, <1>4 DEF Stands
<1>6. /\ harvester' = [pc |-> harvester'.pc, rows |-> harvester'.rows]
      /\ harvester'.rows = [c \in DOMAIN harvester'.rows |-> harvester'.rows[c]]
      /\ harvester'.pc \in Origins
  BY <1>3, <1>4 DEF HarvestRows
<1>7. ASSUME NEW c \in DOMAIN harvester'.rows
      PROVE  /\ c \in DOMAIN features' /\ harvester'.pc # "escalation"
             /\ harvester'.rows[c] \in FeatureRows
             /\ harvester'.pc = "error_followup" => harvester'.rows[c].followup = "yes"
             /\ harvester'.pc = "clean" => harvester'.rows[c].followup = "no"
  BY <1>1, <1>2, <1>3, <1>4
<1>8. \A c \in DOMAIN harvester'.rows : Stands(c, harvester.rows[c])' /\ harvester'.pc # Idle
  BY <1>3, <1>5 DEF Origins, Idle
<1> QED
  BY <1>6, <1>7, <1>8 DEF HarvestInv, Origins, Idle

LEMMA EmptyFunction ==
    ASSUME NEW f, f = [x \in DOMAIN f |-> f[x]], DOMAIN f = {}
    PROVE  f = <<>>
OBVIOUS

LEMMA HarvestStands ==
    ASSUME IInv, HarvestStart \/ HarvestNext \/ HarvestFails
    PROVE  IInv'
<1>1. AllKept /\ UNCHANGED <<client, features, verdicts, tasks, featuriser>>
  BY SameCallsKeep DEF HarvestStart, HarvestNext, HarvestFails, client, AllKept
<1>2. HarvestInv'
  <2>1. ASSUME harvester' = HarvesterIdle PROVE HarvestInv'
    <3>1. harvester'.pc = Idle /\ harvester'.rows = <<>>
      BY <2>1 DEF HarvesterIdle
    <3> QED
      BY <2>1, <3>1 DEF HarvestInv, HarvesterIdle
  <2>2. CASE HarvestStart
    BY <1>1, <2>2, QueryStands DEF HarvestStart, Origins, client
  <2>3. CASE HarvestNext
    <3>1. NextOrigin[harvester.pc] \in Origins \cup {Idle}
      BY <2>3 DEF HarvestNext, IInv, HarvestInv, NextOrigin, Origins
    <3>2. CASE NextOrigin[harvester.pc] = Idle
      BY <2>1, <2>3, <3>2 DEF HarvestNext
    <3>3. CASE NextOrigin[harvester.pc] \in Origins
      <4>1. Idle \notin Origins
        BY DEF Idle, Origins
      <4> QED
        BY <1>1, <2>3, <3>3, <4>1, QueryStands DEF HarvestNext, client
    <3> QED
      BY <3>1, <3>2, <3>3
  <2>4. CASE HarvestFails
    BY <2>1, <2>4 DEF HarvestFails
  <2> QED
    BY <2>2, <2>3, <2>4
<1>3. ClientInv'
  <2>1. CASE HarvestStart \/ HarvestNext
    BY <2>1 DEF HarvestStart, HarvestNext, client, IInv, ClientInv
  <2>2. CASE HarvestFails
    BY <2>2, FeaturiseAssumption DEF HarvestFails, Failed, client, IInv, ClientInv
  <2> QED
    BY <2>1, <2>2
<1> QED
  BY <1>1, <1>2, <1>3, FeaturesKept, TasksKept, FeaturisersKept DEF client, IInv, VerdictsInv

\* The task that is inserted is labelled for what its row says.
LEMMA InsertStands ==
    ASSUME IInv, HarvestInsert
    PROVE  IInv'
<1>1. AllKept /\ UNCHANGED <<client, features, verdicts, featuriser, faults>>
  BY SameCallsKeep DEF HarvestInsert, client, AllKept
<1>2. PICK c : c = Min(DOMAIN harvester.rows) /\ c \in DOMAIN harvester.rows
  <2>1. DOMAIN harvester.rows \subseteq Nat
    BY CallIdsAre DEF IInv, ClientInv, HarvestInv, FeaturesInv, Decodeds
  <2>2. DOMAIN harvester.rows # {}
    <3>1. harvester.rows # <<>> /\ harvester.rows = [c \in DOMAIN harvester.rows |-> harvester.rows[c]]
      BY DEF HarvestInsert, IInv, HarvestInv
    <3> QED
      BY <3>1, EmptyFunction
  <2> QED
    BY <2>1, <2>2, LeastIsIn
<1> DEFINE origin == harvester.pc
           row == harvester.rows[c]
<1>3. /\ row \in FeatureRows /\ Stands(c, row) /\ c \in DOMAIN features
      /\ origin \in {"disagreement", "error_followup", "clean"}
      /\ origin = "error_followup" => row.followup = "yes"
      /\ origin = "clean" => row.followup = "no"
  BY <1>2 DEF IInv, HarvestInv, Origins
<1> DEFINE task == HarvestTask(c, origin)
<1>4. tasks' = tasks \/ tasks' = tasks \cup {task}
  BY <1>2 DEF HarvestInsert
<1>5. Labelled(task)
  <2>1. task.call = c /\ task.difficulty = HarvestDifficulty(origin, row.followup)
    BY DEF HarvestTask
  <2>2. HarvestDifficulty(origin, row.followup) = "challenging" => row.followup = "yes"
    BY <1>3 DEF HarvestDifficulty, None
  <2>3. HarvestDifficulty(origin, row.followup) = "simple" => row.followup = "no"
    BY <1>3 DEF HarvestDifficulty, None
  <2> HIDE DEF task, row, origin
  <2> QED
    BY <1>3, <2>1, <2>2, <2>3 DEF Labelled, Stands
<1>6. TasksInv'
  <2> HIDE DEF task
  <2> SUFFICES ASSUME NEW t \in tasks' PROVE Labelled(t)'
    BY DEF TasksInv
  <2>1. Labelled(t)
    BY <1>4, <1>5 DEF IInv, TasksInv
  <2>2. Kept(t.call)
    BY <1>1, SameCallsKeep DEF client
  <2> QED
    BY <1>1, <2>1, <2>2 DEF Labelled, Kept
<1>7. HarvestInv'
  <2>1. harvester' = [pc |-> harvester.pc, rows |-> [d \in DOMAIN harvester.rows \ {c} |-> harvester.rows[d]]]
    BY <1>2 DEF HarvestInsert, IInv, HarvestInv
  <2>2. harvester'.pc = harvester.pc /\ harvester'.rows = [d \in DOMAIN harvester.rows \ {c} |-> harvester.rows[d]]
    BY <2>1
  <2>3. ASSUME NEW d \in DOMAIN harvester.rows \ {c}
        PROVE  Stands(d, harvester.rows[d])'
    <3>1. Stands(d, harvester.rows[d]) /\ Kept(d)
      BY <1>1, SameCallsKeep DEF IInv, HarvestInv, client
    <3>2. harvester'.rows[d] = harvester.rows[d]
      BY <2>2
    <3> QED
      BY <3>1, <3>2 DEF Kept, Stands
  <2> QED
    BY <1>1, <2>1, <2>2, <2>3 DEF IInv, HarvestInv
<1> QED
  BY <1>1, <1>6, <1>7, FeaturesKept, FeaturisersKept DEF client, IInv, ClientInv, VerdictsInv

LEMMA InitStands == Init => IInv
<1> SUFFICES ASSUME Init PROVE IInv
  OBVIOUS
<1>1. ClientInv
  BY FeaturiseAssumption DEF Init, ClientInv
<1>2. FeaturesInv /\ VerdictsInv /\ TasksInv
  BY DEF Init, FeaturesInv, VerdictsInv, TasksInv
<1>3. FeaturisersInv
  BY DEF Init, FeaturisersInv, FeaturiserInv
<1>4. HarvestInv
  BY DEF Init, HarvestInv, HarvesterIdle
<1> QED
  BY <1>1, <1>2, <1>3, <1>4 DEF IInv

LEMMA NextStands == IInv /\ [Next]_vars => IInv'
<1> SUFFICES ASSUME IInv, [Next]_vars PROVE IInv'
  OBVIOUS
<1>1. ASSUME UNCHANGED vars PROVE IInv'
  <2>1. AllKept /\ UNCHANGED <<client, features, verdicts, tasks, featuriser, harvester, faults>>
    BY <1>1, SameCallsKeep DEF vars, client, AllKept
  <2> QED
    BY <2>1, FeaturesKept, RowsKept, TasksKept, FeaturisersKept DEF client, IInv, ClientInv, VerdictsInv
<1> QED
  BY <1>1, TurnStands, StartStands, ReadStands, WriteStands, GoesOnStands, VerdictStands,
     HarvestStands, InsertStands DEF Next, FeaturiseGoesOn

THEOREM Invariance == Spec => []IInv
<1> QED
  BY InitStands, NextStands, PTL DEF Spec

-----------------------------------------------------------------------------
(***************************************************************************)
(* What follows.                                                           *)
(***************************************************************************)
\* Rows are of what exists, through every overlap of commands.
THEOREM Typing == Spec => []TypeOK
<1>1. IInv => TypeOK
  BY DEF IInv, ClientInv, FeaturesInv, Decodeds, FeatureRows, VerdictsInv, TasksInv, Labelled, TypeOK
<1> QED
  BY <1>1, Invariance, PTL

\* A known followup is what the very next call of its session says, whatever
\* overlapping featurise wrote it and whatever the client has sent since.
THEOREM KnownFollowupsStand == Spec => []FollowupStands
<1>1. IInv => FollowupStands
  BY DEF IInv, FeaturesInv, Stands, Signal, FollowupStands
<1> QED
  BY <1>1, Invariance, PTL

\* A harvested task is challenging or simple for what its call's followup
\* says, although the harvest inserts rows it read a while ago.
THEOREM LabelsAreEarned == Spec => []LabelsEarned
<1>1. IInv => LabelsEarned
  BY DEF IInv, TasksInv, Labelled, Signal, LabelsEarned
<1> QED
  BY <1>1, Invariance, PTL
=============================================================================
