---------------------------- MODULE MCBootstrap ----------------------------
(***************************************************************************)
(* An instance of Bootstrap: a history of documentation, a fix with a test *)
(* of a helper that lies among the tests, and more documentation, which    *)
(* the share may refuse.                                                   *)
(***************************************************************************)
EXTENDS Bootstrap

MCSource(path, lines) ==
    [path |-> path, status |-> "M", text |-> TRUE, binary |-> FALSE, hunks |-> 1, lines |-> lines,
     size |-> 1, toolchain |-> "", layer |-> "code", exercises |-> {}]

MCTest(path, tested) ==
    [MCSource(path, 2) EXCEPT !.status = "A", !.toolchain = "go", !.layer = "tests", !.exercises = {tested}]

MCCommit(files, keyword, fix, date) ==
    [parents |-> 1, files |-> files, parentTree |-> [p \in {"a", "b"} |-> 1],
     parentTests |-> [p \in {"b"} |-> "go"],
     keyword |-> keyword, fixLike |-> fix, date |-> date, briefSize |-> 1]

MCDocs(date) == MCCommit({MCSource("readme", 1)}, "docs", FALSE, date)

MCHistory ==
    <<MCDocs(0),
      MCCommit({MCSource("a", 2), MCTest("b_test", "b")}, "bugfix", TRUE, 2),
      MCDocs(3)>>
MCTrackOf == [c \in 1..3 |-> 1]
MCSmallOf == [c \in 1..3 |-> TRUE]
=============================================================================
