--------------------------- MODULE MCLocalAnswer ---------------------------
(***************************************************************************)
(* Instances of LocalAnswer: completions with and without text, calls and  *)
(* malformed arguments; messages of every kind of block.                   *)
(***************************************************************************)
EXTENDS LocalAnswer

MCStrings == STRING
MCInput == <<"{", "}">>
MCJSON == {EmptyObject, MCInput}

MCUsage == [input |-> 3, output |-> 5]
MCCall(arguments) == [name |-> "Edit", arguments |-> arguments]
MCCompletions ==
    {[meta |-> "id", text |-> text, calls |-> calls, finish |-> finish, usage |-> MCUsage] :
        text \in {<<>>, <<"t1", "t2">>},
        calls \in {<<>>, <<MCCall(<<>>)>>, <<MCCall(MCInput), MCCall(<<"{">>)>>},
        finish \in {"stop", "tool_calls"}}

MCText == [NoBlock EXCEPT !.type = "text", !.text = <<"t1", "t2">>]
MCThinking == [NoBlock EXCEPT !.type = "thinking", !.thinking = <<"h">>, !.signature = <<"s">>]
MCTool == [NoBlock EXCEPT !.type = "tool_use", !.name = "Edit", !.input = MCInput]
MCOther == [NoBlock EXCEPT !.type = "other", !.name = "search"]
MCMessage(content) == [meta |-> "id", content |-> content, stop |-> "end_turn", usage |-> MCUsage]
MCMessages ==
    {MCMessage(<<>>), MCMessage(<<MCThinking, MCTool>>), MCMessage(<<MCThinking, MCText, MCTool>>), MCMessage(<<MCOther, MCTool, MCTool>>)}
=============================================================================
