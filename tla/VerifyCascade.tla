---------------------------- MODULE VerifyCascade ----------------------------
(***************************************************************************)
(* The verification cascade (internal/verify): do the frontier's answer    *)
(* and the local one agree?  verify.go compares the texts, applies the     *)
(* edits of both sides (editapply.go) in a worktree each, measures how     *)
(* alike the files are (similarity.go), and decides by two thresholds.     *)
(*                                                                         *)
(* Text is a sequence of words, and the input of a tool call counts as one *)
(* word.  An answer is a sequence of blocks: text with its words, or a     *)
(* tool_use with its name and its input.                                   *)
(* An exchange is [turnType, head, frontier, local]; head tells whether    *)
(* the commit was recorded.  A similarity is a fraction <<n, d>>, which    *)
(* the code rounds to a float.  The lint columns of both sides are one     *)
(* outcome, their test columns another: what a linter or a test command    *)
(* finds is free, an edit that failed is a lint failure.                   *)
(***************************************************************************)
EXTENDS Integers, Sequences, FiniteSets, SequencesExt

CONSTANTS
    Commit,      \* the repository at the commit of a call: path -> words
    Resolve,     \* path as a tool names it -> path in the repository, "" outside
    Language,    \* path in the repository -> language of its extension
    Difft,       \* <<words, words>> -> [changed, total], where difft answers
    Thresholds,  \* [high, low, overrides], percent; <<language, turn type>> -> [high, low]
    Linted,      \* paths a linter is installed for
    Tested,      \* paths whose subsystem has a test command
    LintSeen,    \* bound: lint outcomes that occur
    TestsSeen,   \* bound: test outcomes that occur
    Texts,       \* texts, answers and exchanges that the promises of the
    Messages,    \* cascade are checked over
    Compared

Outcomes == {"null", "ok", "failed"}
ASSUME OutcomesAssumption ==
    LintSeen \in (SUBSET Outcomes) \ {{}} /\ TestsSeen \in (SUBSET Outcomes) \ {{}}

IsSeq(s) == s \in Seq({s[i] : i \in DOMAIN s})

\* What the JSON of a message decodes to.
WellFormed(message) ==
    /\ IsSeq(message)
    /\ \A i \in DOMAIN message :
          /\ message[i].type = "text" => IsSeq(message[i].words)
          /\ message[i].type = "tool_use" =>
                LET input == message[i].input
                IN  /\ IsSeq(input.content) /\ IsSeq(input.edits)
                    /\ \A k \in DOMAIN input.edits :
                          LET e == input.edits[k]
                          IN  IsSeq(e.old) /\ IsSeq(e.new)

ASSUME CommitAssumption ==
    Commit = [p \in DOMAIN Commit |-> Commit[p]] /\ \A p \in DOMAIN Commit : IsSeq(Commit[p])
ASSUME TextsAssumption == \A t \in Texts : IsSeq(t)
ASSUME MessagesAssumption ==
    /\ \A m \in Messages : WellFormed(m)
    /\ \A e \in Compared : WellFormed(e.frontier) /\ WellFormed(e.local)

EditTurnTypes == {"single_file_edit", "multi_file_edit"}

-----------------------------------------------------------------------------
(***************************************************************************)
(* What an answer says, and what it does to files.                         *)
(***************************************************************************)
\* The words of a block; other types than these two say nothing.
Said(b) ==
    CASE b.type = "text" -> [i \in DOMAIN b.words |-> [word |-> b.words[i]]]
      [] b.type = "tool_use" -> <<[name |-> b.name], [input |-> b.input]>>
      [] OTHER -> <<>>

ConcatenatedContent(message) ==
    LET said[n \in 0..Len(message)] ==
            IF n = 0 THEN <<>> ELSE said[n - 1] \o Said(message[n])
    IN  said[Len(message)]

\* The items of s at these places.
Only(s, places) ==
    LET kept[n \in 0..Len(s)] ==
            IF n = 0 THEN <<>>
            ELSE IF n \in places THEN Append(kept[n - 1], s[n]) ELSE kept[n - 1]
    IN  kept[Len(s)]

\* A call that names no file is passed over.
FileEdits(message) ==
    Only(message, {i \in DOMAIN message :
                      /\ message[i].type = "tool_use" /\ message[i].input.path # ""
                      /\ message[i].name \in {"Edit", "MultiEdit", "Write", "NotebookEdit"}})

Occurrences(content, old) ==
    {i \in 1..Len(content) - Len(old) + 1 : SubSeq(content, i, i + Len(old) - 1) = old}

WordAt(content, i) == IF i > Len(content) THEN <<>> ELSE <<content[i]>>

\* One word on: it is part of what was replaced, begins an occurrence, or stays.
\* An empty old_string occurs before every word and at the end.
Scanned(scan, content, i, e) ==
    IF scan.skip > 0 THEN [scan EXCEPT !.skip = @ - 1]
    ELSE IF i \in Occurrences(content, e.old) /\ (e.all \/ ~scan.replaced)
    THEN [out |-> scan.out \o IF e.old = <<>> THEN e.new \o WordAt(content, i) ELSE e.new,
          skip |-> IF e.old = <<>> THEN 0 ELSE Len(e.old) - 1, replaced |-> TRUE]
    ELSE [scan EXCEPT !.out = @ \o WordAt(content, i)]

\* From the left, what was replaced is not looked at again; once, or for all.
Replace(content, e) ==
    LET scan[i \in 0..Len(content) + 1] ==
            IF i = 0 THEN [out |-> <<>>, skip |-> 0, replaced |-> FALSE]
            ELSE Scanned(scan[i - 1], content, i, e)
    IN  scan[Len(content) + 1].out

\* Mutant: what was replaced before an old_string is missing stays.
ApplyTextEdits_Partial(content, edits) ==
    LET Step(file, e) ==
            IF Occurrences(file.content, e.old) = {} THEN [file EXCEPT !.ok = FALSE]
            ELSE [file EXCEPT !.content = Replace(file.content, e)]
    IN  FoldLeft(Step, [ok |-> TRUE, content |-> content], edits)

\* One that does not occur fails the call, and the file stays.
TextEdited(file, content, e) ==
    IF ~file.ok THEN file
    ELSE IF Occurrences(file.content, e.old) = {} THEN [ok |-> FALSE, content |-> content]
    ELSE [file EXCEPT !.content = Replace(file.content, e)]

\* In order, each in what the ones before it left.
ApplyTextEdits(content, edits) ==
    LET file[n \in 0..Len(edits)] ==
            IF n = 0 THEN [ok |-> TRUE, content |-> content]
            ELSE TextEdited(file[n - 1], content, edits[n])
    IN  file[Len(edits)]

Write(tree, path, content) == [p \in DOMAIN tree \cup {path} |-> IF p = path THEN content ELSE tree[p]]

\* One call on a worktree: the files, and whether it failed.
ApplyEdit(tree, b) ==
    LET path == Resolve[b.input.path]
    IN  CASE path = "" -> [ok |-> FALSE, tree |-> tree]
          [] path # "" /\ b.name = "Write" -> [ok |-> TRUE, tree |-> Write(tree, path, b.input.content)]
          [] path # "" /\ b.name \in {"Edit", "MultiEdit"} /\ path \in DOMAIN tree ->
                LET applied == ApplyTextEdits(tree[path], b.input.edits)
                IN  [ok |-> applied.ok, tree |-> Write(tree, path, applied.content)]
          [] OTHER -> [ok |-> FALSE, tree |-> tree]

\* A file whose edit failed is touched too.
FileEdited(side, b) ==
    LET applied == ApplyEdit(side.tree, b)
        path == Resolve[b.input.path]
    IN  [tree |-> applied.tree,
         touched |-> IF path = "" \/ Contains(side.touched, path) THEN side.touched
                     ELSE Append(side.touched, path),
         failed |-> side.failed \/ ~applied.ok]

\* applyFileEdits on a fresh worktree.
ApplyFileEdits(edits) ==
    LET side[n \in 0..Len(edits)] ==
            IF n = 0 THEN [tree |-> Commit, touched |-> <<>>, failed |-> FALSE]
            ELSE FileEdited(side[n - 1], edits[n])
    IN  side[Len(edits)]

Worktree(message) == ApplyFileEdits(FileEdits(message))

-----------------------------------------------------------------------------
(***************************************************************************)
(* How alike two texts are.                                                *)
(***************************************************************************)
Least(S) == CHOOSE x \in S : \A y \in S : x <= y

Substitution(x, y) == IF x = y THEN 0 ELSE 1

\* The row of word x, the i-th: it starts with its own number.
NextRow(prev, x, i, b) ==
    LET curr[j \in 0..Len(b)] ==
            IF j = 0 THEN i
            ELSE Least({prev[j] + 1, curr[j - 1] + 1, prev[j - 1] + Substitution(x, b[j])})
    IN  curr

\* Row by row of the table.
TokenLevenshtein(a, b) ==
    LET row[i \in 0..Len(a)] ==
            IF i = 0 THEN [j \in 0..Len(b) |-> j] ELSE NextRow(row[i - 1], a[i], i, b)
    IN  row[Len(a)][Len(b)]

TokenSimilarity(a, b) ==
    LET longer == IF Len(b) > Len(a) THEN Len(b) ELSE Len(a)
    IN  IF longer = 0 THEN <<1, 1>> ELSE <<longer - TokenLevenshtein(a, b), longer>>

\* difft where it answers: the share of lines it does not count as changed.
FileSimilarity(one, other) ==
    IF <<one, other>> \in DOMAIN Difft
    THEN LET d == Difft[<<one, other>>]
         IN  <<IF d.changed > d.total THEN 0 ELSE d.total - d.changed, d.total>>
    ELSE TokenSimilarity(one, other)

Plus(x, y) == <<x[1] * y[2] + y[1] * x[2], x[2] * y[2]>>

\* Of fractions, in any order.
Total(similarity) ==
    LET total[S \in SUBSET DOMAIN similarity] ==
            IF S = {} THEN <<0, 1>>
            ELSE LET p == CHOOSE p \in S : TRUE IN Plus(total[S \ {p}], similarity[p])
    IN  total[DOMAIN similarity]

\* The mean over the files of either side; a file of one side only counts as
\* nothing, and so does one that neither worktree has.
MeanSimilarity(frontier, local) ==
    LET both == ToSet(frontier.touched) \cap ToSet(local.touched)
                    \cap DOMAIN frontier.tree \cap DOMAIN local.tree
        files == Cardinality(ToSet(frontier.touched) \cup ToSet(local.touched))
        total == Total([p \in both |-> FileSimilarity(frontier.tree[p], local.tree[p])])
    IN  IF files = 0 THEN <<0, 1>> ELSE <<total[1], total[2] * files>>

-----------------------------------------------------------------------------
(***************************************************************************)
(* The decision.                                                           *)
(***************************************************************************)
\* Both defaults unset are 90 and 50.
ThresholdsFor(language, turnType) ==
    IF language # "" /\ <<language, turnType>> \in DOMAIN Thresholds.overrides
    THEN Thresholds.overrides[<<language, turnType>>]
    ELSE IF Thresholds.high = 0 /\ Thresholds.low = 0 THEN [high |-> 90, low |-> 50]
    ELSE [high |-> Thresholds.high, low |-> Thresholds.low]

Agree(similarity, thresholds) ==
    IF similarity[1] * 100 >= thresholds.high * similarity[2] THEN "yes"
    ELSE IF similarity[1] * 100 <= thresholds.low * similarity[2] THEN "no"
    ELSE "null"

\* The columns of a side that has failures, and of one that has none.
LintOutcomes(failed, touched) ==
    IF failed THEN {"failed"} ELSE IF touched \cap Linted = {} THEN {"null"} ELSE LintSeen

TestOutcomes(first) == IF first \in Tested THEN TestsSeen ELSE {"null"}

\* The rows an edit turn may come to.  Neither side's edits are looked at but
\* for the files they leave.
VerifyEditTurn(exchange) ==
    LET frontier == Worktree(exchange.frontier)
        local == Worktree(exchange.local)
        touched == frontier.touched \o local.touched
        first == IF touched = <<>> THEN "" ELSE touched[1]
        language == IF first = "" THEN "" ELSE Language[first]
    IN  [stage : {"ast"}, conflict : {FALSE},
         agree : {Agree(MeanSimilarity(frontier, local), ThresholdsFor(language, exchange.turnType))},
         lint : LintOutcomes(frontier.failed \/ local.failed, ToSet(touched)),
         tests : TestOutcomes(first)]

VerifyText(exchange, frontier, local) ==
    [stage |-> "ast", conflict |-> FALSE, lint |-> "null", tests |-> "null",
     agree |-> Agree(TokenSimilarity(frontier, local), ThresholdsFor("", exchange.turnType))]

ExactMatch == [stage |-> "exact", agree |-> "yes", conflict |-> FALSE, lint |-> "null", tests |-> "null"]

\* Verify: the rows one exchange may come to.
Verify(exchange) ==
    LET frontier == ConcatenatedContent(exchange.frontier)
        local == ConcatenatedContent(exchange.local)
    IN  IF frontier = local THEN {ExactMatch}
        ELSE IF /\ exchange.turnType \in EditTurnTypes /\ exchange.head
                /\ FileEdits(exchange.frontier) # <<>> \/ FileEdits(exchange.local) # <<>>
             THEN VerifyEditTurn(exchange)
             ELSE {VerifyText(exchange, frontier, local)}

-----------------------------------------------------------------------------
(***************************************************************************)
(* What the cascade promises, over the texts, answers and exchanges of an  *)
(* instance.                                                               *)
(***************************************************************************)
\* The ways to line two texts up, each word at most once and in order.
Alignments(a, b) ==
    {M \in SUBSET ((DOMAIN a) \X (DOMAIN b)) :
        \A x, y \in M : x = y \/ (x[1] < y[1] /\ x[2] < y[2]) \/ (y[1] < x[1] /\ y[2] < x[2])}

Cost(M, a, b) == Len(a) + Len(b) - Cardinality(M) - Cardinality({x \in M : a[x[1]] = b[x[2]]})

\* The distance is that of the best way to line the texts up.
DistanceIsLeast ==
    \A a, b \in Texts : TokenLevenshtein(a, b) = Least({Cost(M, a, b) : M \in Alignments(a, b)})

\* A call that failed leaves no trace in the files, those it might have begun
\* to edit included: "the first that does not aborts the whole call with no
\* partial write" (applyTextEdits).  Without it, the answer does the same.
FailuresLeaveNoTrace ==
    \A m \in Messages :
        LET edits == FileEdits(m)
            Before(i) == ApplyFileEdits(SubSeq(edits, 1, i - 1)).tree
            good == {i \in DOMAIN edits : ApplyEdit(Before(i), edits[i]).ok}
        IN  /\ ApplyFileEdits(Only(edits, good)).tree = ApplyFileEdits(edits).tree
            /\ ApplyFileEdits(edits).failed <=> good # DOMAIN edits

Swapped(e) ==
    [turnType |-> e.turnType, head |-> e.head, frontier |-> e.local, local |-> e.frontier]

\* difft counts two files the same way from either side.
DifftIsFair ==
    \A d \in DOMAIN Difft : <<d[2], d[1]>> \in DOMAIN Difft /\ Difft[<<d[2], d[1]>>] = Difft[d]

\* It does not matter which answer is the frontier's, unless difft makes a
\* difference or the two sides begin with files of different languages, whose
\* thresholds may differ.
SidesCountAlike ==
    DifftIsFair =>
        \A e \in Compared :
            LET frontier == Worktree(e.frontier).touched
                local == Worktree(e.local).touched
            IN  frontier = <<>> \/ local = <<>> \/ Language[frontier[1]] = Language[local[1]]
                    => {v.agree : v \in Verify(e)} = {v.agree : v \in Verify(Swapped(e))}

Measures == DistanceIsLeast /\ FailuresLeaveNoTrace /\ SidesCountAlike
=============================================================================
