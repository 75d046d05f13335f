---------------------------- MODULE MCFeaturise ----------------------------
(***************************************************************************)
(* Instances of Featurise: answers that say something or edit a file,      *)
(* tools that work or fail.                                                *)
(***************************************************************************)
EXTENDS Featurise

MCText == [type |-> "text"]
MCEdit == [type |-> "tool_use", name |-> "Edit", path |-> "/repo/src/a"]
MCResult(error) == [type |-> "tool_result", isError |-> error, error |-> FALSE]

MCPaths == ("/repo/src/a" :> "src/a")
MCSegments == ("src/a" :> "src")
MCAnswers == {<<MCText>>, <<MCEdit>>}
MCEdits == {<<MCEdit>>}
MCAsks == {<<MCText>>}
MCResults == {<<MCResult(e)>> : e \in BOOLEAN}
=============================================================================
