-------------------------- MODULE MCJudgePipeline --------------------------
(***************************************************************************)
(* Instances of JudgePipeline: exchanges for every outcome of the cascade, *)
(* and the texts, edits and answers its functions are checked with.        *)
(***************************************************************************)
EXTENDS JudgePipeline

MCSay(words) == [type |-> "text", words |-> words]
MCCall(name, path, edits, content) ==
    [type |-> "tool_use", name |-> name,
     input |-> [path |-> path, edits |-> edits, content |-> content]]
MCEdit(path, old, new) == MCCall("Edit", path, <<[old |-> old, new |-> new, all |-> FALSE]>>, <<>>)

\* Three files, one of a subsystem that has a test command and one of no
\* language, and one path outside of the repository.
MCCommit == ("api/a.go" :> <<"x", "y", "x">>) @@ ("b.vue" :> <<"x">>) @@ ("Makefile" :> <<"x">>)
MCResolve == ("/repo/api/a.go" :> "api/a.go") @@ ("/repo/b.vue" :> "b.vue")
             @@ ("/repo/Makefile" :> "Makefile") @@ ("/repo/new.md" :> "new.md") @@ ("/etc" :> "")
MCLanguage == ("api/a.go" :> "go") @@ ("b.vue" :> "vue") @@ ("new.md" :> "markdown")
              @@ ("Makefile" :> "")
MCDifft == (<<<<"y", "x">>, <<"x", "y">>>> :> [changed |-> 1, total |-> 2])
           @@ (<<<<"x", "y">>, <<"y", "x">>>> :> [changed |-> 1, total |-> 2])
MCThresholds ==
    [high |-> 0, low |-> 0,
     overrides |-> (<<"vue", "single_file_edit">> :> [high |-> 60, low |-> 20])]

MCExchange(turnType, head, asked, replayed) ==
    [turnType |-> turnType, head |-> head, frontier |-> asked, local |-> replayed]

\* The same answer; texts with nothing in common and with a word in three; the
\* same edit of two answers, edits that differ, and one that fails.
MCExchanges ==
    {MCExchange("question_answer", TRUE, <<MCSay(<<"a">>)>>, <<MCSay(<<"a">>)>>),
     MCExchange("question_answer", TRUE, <<MCSay(<<"a">>)>>, <<MCSay(<<"b">>)>>),
     MCExchange("single_file_edit", TRUE, <<MCEdit("/repo/api/a.go", <<"y">>, <<"z">>)>>,
                <<MCSay(<<"a">>), MCEdit("/repo/api/a.go", <<"y">>, <<"z">>)>>),
     MCExchange("single_file_edit", TRUE, <<MCEdit("/repo/api/a.go", <<"y">>, <<"z">>)>>,
                <<MCEdit("/repo/api/a.go", <<"y">>, <<"w">>)>>)}

-----------------------------------------------------------------------------
\* Texts of up to three of two words; edits of two files that may fail, alone,
\* together, or as a MultiEdit.
MCTexts == BoundedSeq({"x", "y"}, 3)

MCTextEdits == [old : {<<"x">>, <<"y">>, <<"x", "y">>}, new : {<<>>, <<"y", "x">>}, all : BOOLEAN]
MCFileEdits ==
    {MCCall("MultiEdit", "/repo/api/a.go", <<e, f>>, <<>>) : e, f \in MCTextEdits}
    \cup {MCCall("Edit", p, <<e>>, <<>>) : e \in MCTextEdits, p \in {"/repo/api/a.go", "/repo/b.vue"}}
    \cup {MCCall("Edit", "/repo/b.vue", <<[old |-> <<>>, new |-> <<"y">>, all |-> all]>>, <<>>) : all \in BOOLEAN}
    \cup {MCCall("Write", p, <<>>, <<"x">>) : p \in {"/repo/b.vue", "/repo/new.md", "/etc"}}
    \cup {MCCall("NotebookEdit", "/repo/b.vue", <<>>, <<>>), MCCall("Edit", "/repo/new.md", <<>>, <<>>)}
MCOneFile == {<<b>> : b \in MCFileEdits}
MCTwoFiles ==
    {<<b, d>> : b \in {c \in MCFileEdits : c.name # "MultiEdit"}, d \in {c \in MCFileEdits : c.name # "Edit"}}
MCPairs == {<<m, n>> \in MCOneFile \X MCOneFile : m[1].name # "MultiEdit"}

\* Three files written in any order, two of them or all: alike, alike in a word
\* of two, or as difft has it.
MCWrites ==
    {MCCall("Write", p, <<>>, t) : p \in {"/repo/Makefile", "/repo/b.vue"}, t \in {<<"x", "z">>, <<"x", "y">>}}
    \cup {MCCall("Write", "/repo/new.md", <<>>, t) : t \in {<<"x", "y">>, <<"y", "x">>}}
MCWriteUps ==
    {<<b, d>> : b, d \in MCWrites} \cup {<<b, d, MCCall("Write", "/repo/b.vue", <<>>, <<"x", "y">>)>> : b, d \in MCWrites}

MCMessages == MCOneFile \cup MCTwoFiles
MCCompared ==
    {MCExchange("single_file_edit", TRUE, p[1], p[2]) : p \in MCPairs \cup (MCWriteUps \X MCWriteUps)}
=============================================================================
