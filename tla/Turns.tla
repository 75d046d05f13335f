-------------------------------- MODULE Turns --------------------------------
(***************************************************************************)
(* What one turn of a session tells the router (internal/feature):         *)
(* turn_type.go and extract.go classify a captured call, request_only.go   *)
(* guesses the same from a request alone, followup.go looks for a sign     *)
(* that the turn went wrong.                                               *)
(*                                                                         *)
(* A request is [planMode, messages], a message [role, content], content a *)
(* sequence of blocks. A block has a type; a tool_use a name and the path  *)
(* its input gives ("" for none); a tool_result isError, and error when    *)
(* its text starts with the word.                                          *)
(***************************************************************************)
EXTENDS Integers, Sequences, FiniteSets, SequencesExt

CONSTANTS
    RepoRelative,  \* path in a tool's input -> path as the rows hold it
    TopSegment     \* path as the rows hold it -> its first segment

EditFamily == {"Edit", "Write", "MultiEdit", "NotebookEdit"}

TurnTypes == {"multi_file_edit", "single_file_edit", "plan", "tool_result_summary",
              "question_answer", "other"}

EditPath(block) ==
    IF block.type = "tool_use" /\ block.name \in EditFamily THEN block.path ELSE ""

EditPaths(blocks) == {EditPath(b) : b \in ToSet(blocks)} \ {""}

\* Repo-relative, in the order of their first edit.
FilesTouched(blocks) ==
    LET Add(files, b) ==
            IF EditPath(b) = "" \/ Contains(files, RepoRelative[EditPath(b)]) THEN files
            ELSE Append(files, RepoRelative[EditPath(b)])
    IN  FoldLeft(Add, <<>>, blocks)

\* Of the first file, be it under the repository or not.
Subsystem(files) == IF files = <<>> THEN "" ELSE TopSegment[files[1]]

-----------------------------------------------------------------------------
LastUserContent(messages) ==
    LET last == SelectLastInSeq(messages, LAMBDA m : m.role = "user")
    IN  IF last = 0 THEN <<>> ELSE messages[last].content

HasUser(messages) == \E m \in ToSet(messages) : m.role = "user"

HasToolResult(content) == \E b \in ToSet(content) : b.type = "tool_result"

TextOnly(blocks) ==
    /\ \E b \in ToSet(blocks) : b.type = "text"
    /\ \A b \in ToSet(blocks) : b.type \in {"text", "thinking"}

ExitsPlanMode(blocks) ==
    \E b \in ToSet(blocks) : b.type = "tool_use" /\ b.name = "ExitPlanMode"

\* The rules in their order; paths are told apart as the tools name them.
ClassifyTurnType(request, blocks) ==
    LET results == HasToolResult(LastUserContent(request.messages))
    IN  IF Cardinality(EditPaths(blocks)) >= 2 THEN "multi_file_edit"
        ELSE IF Cardinality(EditPaths(blocks)) = 1 THEN "single_file_edit"
        ELSE IF ExitsPlanMode(blocks) \/ request.planMode THEN "plan"
        ELSE IF ~HasUser(request.messages) \/ ~TextOnly(blocks) THEN "other"
        ELSE IF results THEN "tool_result_summary"
        ELSE "question_answer"

\* The last file of each assistant message that touched any; the last of all.
LastTouched(messages) ==
    LET Touch(last, m) ==
            IF m.role = "assistant" /\ FilesTouched(m.content) # <<>>
            THEN Last(FilesTouched(m.content)) ELSE last
    IN  FoldLeft(Touch, "", messages)

\* What the proxy can say before there is an answer.
RequestOnly(request) ==
    [turnType |->
        IF request.planMode THEN "plan"
        ELSE IF ~HasUser(request.messages) THEN "other"
        ELSE IF HasToolResult(LastUserContent(request.messages)) THEN "tool_result_summary"
        ELSE "question_answer",
     subsystem |->
        IF LastTouched(request.messages) = "" THEN ""
        ELSE TopSegment[LastTouched(request.messages)]]

-----------------------------------------------------------------------------
LooksLikeError(block) == block.isError \/ block.error

\* Every message of the request is looked at, those before the turn included.
HasErrorFollowup(files, request) ==
    \E m \in ToSet(request.messages) : \E b \in ToSet(m.content) :
        \/ b.type = "tool_result" /\ LooksLikeError(b)
        \/ EditPath(b) # "" /\ Contains(files, RepoRelative[EditPath(b)])
=============================================================================
