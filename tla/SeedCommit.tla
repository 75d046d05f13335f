----------------------------- MODULE SeedCommit -----------------------------
(***************************************************************************)
(* What `eval seed-history` makes of one commit                            *)
(* (internal/evals/seed_history.go, holdout.go, characteristics.go): which *)
(* of its files count, which code its tests drag in as context, why it is  *)
(* refused, and the labels and held-out tests of the task it becomes.      *)
(*                                                                         *)
(* A commit is a record: parents (how many), files, parentTree (path to    *)
(* size, the files of the parent a test may exercise), parentTests (path   *)
(* to toolchain, those of them in a directory or layer of tests), keyword  *)
(* (the first group of nature keywords its subject contains, "" for none), *)
(* fixLike (the subject matches the fix pattern), date (days) and          *)
(* briefSize. A file is a record: path, status, text (its extension is     *)
(* eligible), binary, hunks, lines (changed, or of a new file), size (at   *)
(* the parent), toolchain (of a test file, "" for the rest), layer         *)
(* ([layers] of config) and exercises, the paths its name says it tests.   *)
(***************************************************************************)
EXTENDS Integers, FiniteSets, FiniteSetsExt

CONSTANTS
    MaxFiles,       \* files a task may change
    MaxDiffLines,   \* lines a task may change
    ContextCap,     \* size its request may have
    FollowupWindow  \* days a later fix still counts against a commit

ASSUME SeedAssumption ==
    /\ MaxFiles \in Nat \ {0}
    /\ MaxDiffLines \in Nat \ {0}
    /\ ContextCap \in Nat
    /\ FollowupWindow \in Nat

Statuses == {"A", "M", "D"}

\* Added and modified files; a rename is a deletion and an addition.
ChangedFiles(commit) == {f \in commit.files : f.status \in {"A", "M"}}

\* The files the task asks for: text, and for a modified one a diff with hunks.
Touched(commit) ==
    {f \in ChangedFiles(commit) :
        f.text /\ ~f.binary /\ (f.status = "A" \/ f.hunks > 0)}

Paths(commit) == {f.path : f \in Touched(commit)}

\* Code the touched tests exercise, shown for reference when the parent has it.
Companions(commit) ==
    {p \in UNION {f.exercises : f \in Touched(commit)} \ Paths(commit) :
        p \in DOMAIN commit.parentTree /\ commit.parentTree[p] > 0}

DiffLines(commit) == MapThenSumSet(LAMBDA f : f.lines, Touched(commit))

\* The request hands over the parent's content of what it shows.
RequestSize(commit) ==
    commit.briefSize
      + MapThenSumSet(LAMBDA f : IF f.status = "A" THEN 0 ELSE f.size, Touched(commit))
      + MapThenSumSet(LAMBDA p : commit.parentTree[p], Companions(commit))

IsTest(f) == f.toolchain # ""

Nature(commit) ==
    IF commit.keyword # "" THEN commit.keyword
    ELSE IF \A f \in Touched(commit) : f.layer = "tests" THEN "test-writing"
    ELSE ""

\* Later commits on the same files, seen from the head at seeding time.
FollowedByFix(commit, later) ==
    \E c \in later :
        /\ {f.path : f \in c.files} \cap Paths(commit) # {}
        /\ c.date - commit.date \in 0..FollowupWindow
        /\ c.fixLike

Difficulty(commit, later) ==
    IF commit.fixLike \/ FollowedByFix(commit, later) THEN "challenging" ELSE "simple"

\* Held-out tests: those of the commit and what it shows for reference that
\* lies among tests, and a command when one toolchain runs all of them.
Holdout(commit) ==
    LET tests == {f \in Touched(commit) : IsTest(f)}
        shown == Companions(commit) \cap DOMAIN commit.parentTests
        chains == {f.toolchain : f \in tests} \cup {commit.parentTests[p] : p \in shown}
    IN  [files |-> {f.path : f \in tests} \cup shown,
         cmd |-> IF Cardinality(chains) = 1 /\ chains \subseteq {"go", "php", "vitest"}
                 THEN CHOOSE t \in chains : TRUE ELSE ""]

TurnType(commit) ==
    IF Cardinality(Paths(commit)) >= 2 THEN "multi_file_edit" ELSE "single_file_edit"

Oversize(commit) ==
    Cardinality(Paths(commit)) > MaxFiles \/ DiffLines(commit) > MaxDiffLines

\* Why the commit is refused, in the order of the tests, or "insert".
SeedOutcome(commit, allowDocs) ==
    IF commit.parents # 1 THEN "merge_or_root"
    ELSE IF Touched(commit) = {} THEN "no_code_files"
    ELSE IF Oversize(commit) THEN "oversize"
    ELSE IF RequestSize(commit) > ContextCap THEN "context_cap"
    ELSE IF Nature(commit) = "docs" /\ ~allowDocs THEN "docs_share"
    ELSE "insert"
=============================================================================
