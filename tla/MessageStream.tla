---------------------------- MODULE MessageStream ----------------------------
(***************************************************************************)
(* A complete Anthropic message and the event stream that carries it:      *)
(* AssembleSSE (internal/anthropic/sse.go) reads a captured stream,        *)
(* SynthesizeSSE (sse_synth.go) writes one for a message a backend gave,   *)
(* FromOpenAI (internal/backend/translate.go) makes that message.          *)
(*                                                                         *)
(* Text and JSON are sequences of pieces, in JSON a string is the piece    *)
(* "quoted" and what it quotes. A block has every field a block may have,  *)
(* like the program's; one of a type the program does not know ("other")   *)
(* is written back as it was first read.                                   *)
(***************************************************************************)
EXTENDS Integers, Sequences, SequencesExt, FiniteSetsExt

CONSTANTS
    Strings,    \* what names, identifiers and the pieces of a text are
    ValidJSON   \* the texts that are JSON, other than strings

EmptyObject == <<"{}">>

ASSUME MessageStreamAssumption ==
    /\ {"", "{}", "quoted", "tool_use", "max_tokens", "end_turn"} \subseteq Strings
    /\ EmptyObject \in ValidJSON /\ <<>> \notin ValidJSON

IsJSON(text) == text \in ValidJSON \/ (text # <<>> /\ text[1] = "quoted")

NoBlock ==
    [type |-> "", name |-> "", text |-> <<>>, thinking |-> <<>>, signature |-> <<>>, input |-> <<>>]

Text == Seq(Strings)
Usages == [input : Nat, output : Nat]

Block ==
    [type : {"text", "thinking", "tool_use", "other"}, name : Strings, text : Text,
     thinking : Text, signature : Text, input : Text]

\* What the type of a block does not use is empty, and a call's input is JSON.
Whole(block) ==
    /\ block.type # "text" => block.text = <<>>
    /\ block.type # "thinking" => block.thinking = <<>> /\ block.signature = <<>>
    /\ block.type \notin {"tool_use", "other"} => block.name = ""
    /\ IF block.type = "tool_use" THEN IsJSON(block.input) ELSE block.input = <<>>

WholeMessage(message) ==
    /\ message \in [meta : Strings, content : Seq(Block), stop : Strings, usage : Usages]
    /\ \A i \in DOMAIN message.content : Whole(message.content[i])

-----------------------------------------------------------------------------
(***************************************************************************)
(* The assembler.                                                          *)
(***************************************************************************)
NewAssembler ==
    [meta |-> "", usage |-> <<>>, stop |-> "", blocks |-> <<>>, partial |-> <<>>,
     truncated |-> FALSE, error |-> FALSE, stopped |-> FALSE]

Over(new, old) == [i \in DOMAIN new \cup DOMAIN old |-> IF i \in DOMAIN new THEN new[i] ELSE old[i]]

Put(f, index, value) == [i \in DOMAIN f \cup {index} |-> IF i = index THEN value ELSE f[i]]

Without(f, index) == [i \in DOMAIN f \ {index} |-> f[i]]

GetOrCreate(asm, index) == IF index \in DOMAIN asm.blocks THEN asm.blocks[index] ELSE NoBlock

WithBlock(asm, index, block) == [asm EXCEPT !.blocks = Put(@, index, block)]

\* Usage fields an event leaves out stay.
HandleMessageStart(asm, ev) == [asm EXCEPT !.meta = ev.meta, !.usage = Over(ev.usage, @)]

HandleBlockStart(asm, ev) ==
    LET started == WithBlock(asm, ev.index, ev.block)
    IN  IF ev.block.type = "tool_use"
        THEN [started EXCEPT !.partial = Put(@, ev.index, <<>>)] ELSE started

HandleBlockDelta(asm, ev) ==
    LET block == GetOrCreate(asm, ev.index)
        made == WithBlock(asm, ev.index, block)
    IN  CASE ev.delta = "text_delta" -> WithBlock(asm, ev.index, [block EXCEPT !.text = @ \o ev.data])
          [] ev.delta = "thinking_delta" -> WithBlock(asm, ev.index, [block EXCEPT !.thinking = @ \o ev.data])
          [] ev.delta = "signature_delta" -> WithBlock(asm, ev.index, [block EXCEPT !.signature = @ \o ev.data])
          [] ev.delta = "input_json_delta" ->
                LET before == IF ev.index \in DOMAIN asm.partial THEN asm.partial[ev.index] ELSE <<>>
                IN  [made EXCEPT !.partial = Put(@, ev.index, before \o ev.data)]
          [] OTHER -> made

\* Nothing is an empty object, what is not JSON a string.
ParsedInput(text) ==
    IF text = <<>> THEN EmptyObject ELSE IF IsJSON(text) THEN text ELSE <<"quoted">> \o text

FinalizeToolUseInput(asm, index) ==
    IF index \notin DOMAIN asm.partial THEN asm
    ELSE LET text == asm.partial[index]
             block == [GetOrCreate(asm, index) EXCEPT !.input = ParsedInput(text)]
         IN  [WithBlock(asm, index, block) EXCEPT
                !.partial = Without(@, index), !.truncated = @ \/ (text # <<>> /\ ~IsJSON(text))]

HandleMessageDelta(asm, ev) ==
    [asm EXCEPT !.stop = IF ev.stop = "" THEN @ ELSE ev.stop, !.usage = Over(ev.usage, @)]

HandleEvent(asm, ev) ==
    CASE ev.event = "message_start" -> HandleMessageStart(asm, ev)
      [] ev.event = "content_block_start" -> HandleBlockStart(asm, ev)
      [] ev.event = "content_block_delta" -> HandleBlockDelta(asm, ev)
      [] ev.event = "content_block_stop" -> FinalizeToolUseInput(asm, ev.index)
      [] ev.event = "message_delta" -> HandleMessageDelta(asm, ev)
      [] ev.event = "message_stop" -> [asm EXCEPT !.stopped = TRUE]
      [] ev.event = "error" -> [asm EXCEPT !.error = TRUE]
      [] OTHER -> asm   \* ping, and what is not known

\* HandleEvent, of an assembler that is bound: TLC evaluates it once.
Fed(asm, ev) == CHOOSE after \in {HandleEvent(before, ev) : before \in {asm}} : TRUE

\* Event after event.
FedAll(asm, events) ==
    LET fed[n \in 0..Len(events)] == IF n = 0 THEN asm ELSE Fed(fed[n - 1], events[n])
    IN  fed[Len(events)]

\* The stream being over: whatever input is still open, in any order.
FinalizeOpen(asm) ==
    [asm EXCEPT
        !.blocks = [i \in DOMAIN @ \cup DOMAIN asm.partial |->
                      IF i \in DOMAIN asm.partial
                      THEN [GetOrCreate(asm, i) EXCEPT !.input = ParsedInput(asm.partial[i])]
                      ELSE @[i]],
        !.truncated = @ \/ \E i \in DOMAIN asm.partial : asm.partial[i] # <<>> /\ ~IsJSON(asm.partial[i])]

\* A block of an unknown type is marshalled as its start gave it.
Marshalled(block) ==
    IF block.type = "other" THEN [NoBlock EXCEPT !.type = "other", !.name = block.name] ELSE block

\* Blocks in the order of their indices.
Ranked(indices, rank) == CHOOSE i \in indices : Cardinality({j \in indices : j <= i}) = rank

Content(blocks) ==
    [rank \in 1..Cardinality(DOMAIN blocks) |-> Marshalled(blocks[Ranked(DOMAIN blocks, rank)])]

\* Mutant: a stream that breaks off is taken for its end.
StreamError_None(asm) == IF asm.error THEN "upstream" ELSE IF asm.truncated THEN "truncated" ELSE ""

StreamError(asm) ==
    IF asm.error THEN "upstream" ELSE IF ~asm.stopped \/ asm.truncated THEN "truncated" ELSE ""

AssembleSSE(events) ==
    LET whole == FinalizeOpen(FedAll(NewAssembler, events))
    IN  [message |-> [meta |-> whole.meta, content |-> Content(whole.blocks),
                      stop |-> whole.stop, usage |-> whole.usage],
         error |-> StreamError(whole)]

-----------------------------------------------------------------------------
(***************************************************************************)
(* The synthesiser.                                                        *)
(***************************************************************************)
StartShape(block) ==
    CASE block.type = "text" -> [NoBlock EXCEPT !.type = "text"]
      [] block.type = "tool_use" ->
            [NoBlock EXCEPT !.type = "tool_use", !.name = block.name, !.input = EmptyObject]
      [] block.type = "thinking" -> [NoBlock EXCEPT !.type = "thinking"]
      [] OTHER -> block

Delta(index, delta, data) ==
    [event |-> "content_block_delta", index |-> index, delta |-> delta, data |-> data]

NonEmpty(delta) == IF delta.data = <<>> THEN <<>> ELSE <<delta>>

\* Mutant: nothing is sent for a call's input, which its start holds anyway.
DeltaPayloads_NoInput(index, block) ==
    CASE block.type = "text" -> NonEmpty(Delta(index, "text_delta", block.text))
      [] OTHER -> <<>>

DeltaPayloads(index, block) ==
    CASE block.type = "text" -> NonEmpty(Delta(index, "text_delta", block.text))
      [] block.type = "tool_use" ->
            <<Delta(index, "input_json_delta",
                    IF block.input = <<>> THEN EmptyObject ELSE block.input)>>
      [] block.type = "thinking" ->
            NonEmpty(Delta(index, "thinking_delta", block.thinking))
              \o NonEmpty(Delta(index, "signature_delta", block.signature))
      [] OTHER -> <<>>

BlockEvents(index, block) ==
    <<[event |-> "content_block_start", index |-> index, block |-> StartShape(block)]>>
      \o DeltaPayloads(index, block)
      \o <<[event |-> "content_block_stop", index |-> index]>>

UsageSide(usage, side) == [s \in DOMAIN usage \cap side |-> usage[s]]

SynthesizeSSE(message) ==
    LET Blocks == [i \in DOMAIN message.content |-> BlockEvents(i, message.content[i])]
    IN  <<[event |-> "message_start", meta |-> message.meta, usage |-> UsageSide(message.usage, {"input"})]>>
          \o FlattenSeq(Blocks)
          \o <<[event |-> "message_delta", stop |-> message.stop, usage |-> UsageSide(message.usage, {"output"})],
               [event |-> "message_stop"]>>

-----------------------------------------------------------------------------
(***************************************************************************)
(* What a chat completion becomes: [meta, text, calls, finish, usage].     *)
(***************************************************************************)
MapFinishReason(reason) ==
    CASE reason = "tool_calls" -> "tool_use"
      [] reason = "length" -> "max_tokens"
      [] OTHER -> "end_turn"

FromOpenAI(completion) ==
    LET text == IF completion.text = <<>> THEN <<>>
                ELSE <<[NoBlock EXCEPT !.type = "text", !.text = completion.text]>>
        calls == [i \in DOMAIN completion.calls |->
                    [NoBlock EXCEPT !.type = "tool_use", !.name = completion.calls[i].name,
                                    !.input = ParsedInput(completion.calls[i].arguments)]]
    IN  [meta |-> completion.meta, content |-> text \o calls,
         stop |-> MapFinishReason(completion.finish), usage |-> completion.usage]
=============================================================================
