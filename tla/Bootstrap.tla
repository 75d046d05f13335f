----------------------------- MODULE Bootstrap -----------------------------
(***************************************************************************)
(* `splitter bootstrap` (cmd/splitter/cmd_bootstrap.go): seed, rewrite the *)
(* briefs, evaluate each backend, one command after another in one         *)
(* process, next to the commands an operator runs by hand                  *)
(* (cmd_eval.go, cmd_eval_fixups.go) and to the service that answers.      *)
(***************************************************************************)
EXTENDS EvalScoring

CONSTANTS
    BootSubmitter, BootPoller,  \* those that are bootstrap's own, in its steps
    Backends     \* how many it evaluates

ASSUME BootstrapAssumption ==
    /\ BootSubmitter \in Submitters /\ BootPoller \in Pollers
    /\ Backends \in Nat \ {0}

VARIABLES
    boot,   \* where bootstrap is
    tried   \* backends it has evaluated

bootVars == <<boot, tried>>
vars == <<scoringVars, bootVars>>

BootSteps == {"off", "seed", "submit", "wait", "poll", "run", "evaluate"}

Init ==
    /\ ScoringInit
    /\ boot = "off"
    /\ tried = 0

BootAt(from, to) == boot = from /\ boot' = to /\ UNCHANGED tried

\* An error of any step is the error of bootstrap.
BootStops(from) == boot = from /\ boot' = "off" /\ tried' = 0

BootSeeds ==
    /\ BootAt("off", "seed")
    /\ SeedStart
    /\ UNCHANGED scoring

\* -skip-briefs goes on with the commit messages.
BootSeeded ==
    /\ \E next \in {"submit", "run"} : BootAt("seed", next)
    /\ SeedEnd
    /\ UNCHANGED scoring

BootSubmits ==
    /\ BootAt("submit", "submit")
    /\ SubmitStart(BootSubmitter)
    /\ UNCHANGED scoring

BootSubmitted ==
    /\ BootAt("submit", "wait")
    /\ SubmitEnd(BootSubmitter)
    /\ UNCHANGED scoring

BootNothingToSubmit ==
    /\ BootAt("submit", "run")
    /\ submitter[BootSubmitter].pc = Idle /\ Eligible = {}
    /\ UNCHANGED scoringVars

BootPolls ==
    /\ BootAt("wait", "poll")
    /\ PollStart(BootPoller)
    /\ UNCHANGED scoring

\* Every batch it checked has ended: the loop is left. One that is still
\* running is asked again in 30 seconds, until the deadline.
BootPolled ==
    /\ \/ BootAt("poll", "run")
       \/ poller[BootPoller].running /\ BootAt("poll", "wait")
    /\ PollEnd(BootPoller)
    /\ UNCHANGED scoring

\* Others have applied what it waited for.
BootNothingToPoll ==
    /\ BootAt("wait", "run")
    /\ Submitted = {}
    /\ UNCHANGED scoringVars

BootRuns ==
    /\ tried < Backends
    /\ BootAt("run", "evaluate")
    /\ RunStart

BootRan ==
    /\ boot = "evaluate" /\ boot' = "run" /\ tried' = tried + 1
    /\ RunFinish

BootEnds ==
    /\ tried = Backends
    /\ BootStops("run")
    /\ UNCHANGED scoringVars

\* A step of it fails, or the process is killed in it.
BootFails ==
    \/ BootStops("seed") /\ SeedFails /\ UNCHANGED scoring
    \/ BootStops("submit") /\ (SubmitFails(BootSubmitter) \/ SubmitAnswerLost(BootSubmitter)) /\ UNCHANGED scoring
    \/ BootStops("poll") /\ PollFails(BootPoller) /\ UNCHANGED scoring
    \/ BootStops("evaluate") /\ RunFails

BootNext ==
    \/ BootSeeds \/ BootSeeded
    \/ BootSubmits \/ BootSubmitted \/ BootNothingToSubmit
    \/ BootPolls \/ BootPolled \/ BootNothingToPoll
    \/ BootRuns \/ BootRan \/ BootEnds \/ BootFails

\* The commands by hand, and what bootstrap's own do between their ends.
ByHand ==
    /\ UNCHANGED bootVars
    /\ \/ /\ UNCHANGED scoring
          /\ \/ NewCommit \/ BatchEnds \/ RefreshNext
             \/ SeedCommitStep
             \/ boot # "seed" /\ (SeedStart \/ SeedEnd \/ SeedFails)
             \/ \E s \in Submitters : SubmitBatch(s) \/ SubmitMark(s)
             \/ \E s \in Submitters :
                   /\ s = BootSubmitter => boot # "submit"
                   /\ SubmitStart(s) \/ SubmitAnswerLost(s) \/ SubmitEnd(s) \/ SubmitFails(s)
             \/ \E p \in Pollers : PollGet(p) \/ PollApply(p) \/ PollNextBatch(p)
             \/ \E p \in Pollers \ {BootPoller} : PollStart(p) \/ PollEnd(p) \/ PollFails(p)
       \/ RunScore \/ RunSkip
       \/ boot # "evaluate" /\ (RunStart \/ RunFinish \/ RunFails)
       \/ \E g \in Graders : GradeNext(g)

Next == BootNext \/ ByHand

Spec == Init /\ [][Next]_vars

-----------------------------------------------------------------------------
(***************************************************************************)
(* Properties.                                                             *)
(***************************************************************************)
Sources == {"commit_subject", "reverse_engineered"}
BriefStatuses == {"none", "submitted", "done", "errored"}
Texts == 0..Len(batches)

\* Every task is of a commit the repository has, its brief and its request
\* have a text some batch or the commit gave it, and results are of tasks and
\* runs that exist.
TypeOK ==
    /\ head \in FirstHead..Len(History)
    /\ \A i \in TaskIds :
          /\ tasks[i].commit \in 1..head
          /\ {tasks[i].brief, tasks[i].request, tasks[i].batch} \subseteq Texts
          /\ tasks[i].source \in Sources /\ tasks[i].status \in BriefStatuses
    /\ \A b \in DOMAIN batches :
          batches[b].items \subseteq TaskIds /\ batches[b].answered \subseteq batches[b].items
    /\ \A k \in DOMAIN results : results[k].task \in TaskIds /\ results[k].run \in DOMAIN runs
    /\ boot \in BootSteps /\ tried \in 0..Backends
    /\ commands \in 0..MaxCommands /\ faults \in 0..MaxFaults

OneTaskPerCommit == \A i, j \in TaskIds : tasks[i].commit = tasks[j].commit => i = j

DocsShareHolds ==
    DocsShare > 0 =>
        100 * Cardinality({i \in TaskIds : tasks[i].nature = "docs"}) <= DocsShare * Len(tasks)

\* seed-history may be run again, stopped, or run after new commits: no commit
\* becomes two tasks (it reads what the library knows once, at its start), and
\* the library never holds more documentation than -max-docs-share allows. One
\* seeder at a time is assumed: a second one would read the library as the
\* first found it.
SeedingHolds == OneTaskPerCommit /\ DocsShareHolds

BriefFromOwnItem ==
    \A i \in TaskIds :
        /\ tasks[i].batch # NoBatch => i \in batches[tasks[i].batch].items
        /\ tasks[i].brief # NoBatch => i \in batches[tasks[i].brief].answered

SourceMatchesBrief ==
    \A i \in TaskIds :
        /\ tasks[i].source = "reverse_engineered" <=> tasks[i].status = "done"
        /\ tasks[i].status = "done" <=> tasks[i].brief # NoBatch

\* A text is only ever applied to the task it was written for, by the batch the
\* row was marked with, and a row says its brief was rewritten exactly when it
\* was, whichever command wrote its characteristics last.
BriefsHonest == BriefFromOwnItem /\ SourceMatchesBrief

\* What a finished run says it scored and passed is what its rows say, one row
\* per task it read, before a judge changed any of them.
ScoredRows(r) == {k \in DOMAIN results : results[k].run = r /\ results[k].scored}
SummaryOfRows ==
    \A r \in DOMAIN runs : runs[r].summary =>
        /\ {results[k].task : k \in {j \in DOMAIN results : results[j].run = r}} = 1..runs[r].tasks
        /\ Cardinality({k \in DOMAIN results : results[k].run = r}) = runs[r].tasks
        /\ runs[r].total = Cardinality(ScoredRows(r))
        /\ (\A k \in ScoredRows(r) : results[k].verdict = Unjudged) =>
              runs[r].passed = Cardinality({k \in ScoredRows(r) : results[k].passed})

Settled(row) == row.verdict # Unjudged \/ row.stage = "exact" \/ row.error

\* What the code takes for granted: one submission at a time, one grading at a
\* time. No lock, transaction or condition of an UPDATE enforces either.
OneSubmitter == \A s, t \in Submitters : s = t
OneGrader == \A g, h \in Graders : g = h

\* Where submissions do not overlap, a rewritten brief is never lost, to a stale
\* row of a poll, a refresh or a second rewrite; where gradings do not overlap, a
\* judged result, an identical answer and an error are never graded again. (Two
\* submissions that read the same rows send them twice, and the later one's mark
\* puts the commit's message back over the first one's rewrite; two gradings ask
\* twice, and the later verdict stands.)
WrittenOnce ==
    [][/\ OneSubmitter => \A i \in TaskIds : tasks[i].brief # NoBatch =>
            tasks'[i].brief = tasks[i].brief /\ tasks'[i].source = tasks[i].source
       /\ OneGrader => \A k \in DOMAIN results : Settled(results[k]) => results'[k] = results[k]]_vars
=============================================================================
