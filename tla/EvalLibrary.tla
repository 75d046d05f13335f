---------------------------- MODULE EvalLibrary ----------------------------
(***************************************************************************)
(* The library of evaluation tasks seeded from git history and the         *)
(* commands that write it (internal/evals: seed_history.go,                *)
(* reverse_briefs.go, refresh.go; store/eval_store.go). Every command is a *)
(* process of its own: it reads its rows once, then writes them one        *)
(* statement at a time while the others go on, and may be killed between   *)
(* any two. A rewritten brief comes from a batch of the judge's service.   *)
(*                                                                         *)
(* The text of a brief or of the brief a request was built with is the     *)
(* number of the batch that wrote it, 0 for the commit's own message.      *)
(***************************************************************************)
EXTENDS SeedCommit, Sequences, SequencesExt

CONSTANTS
    History,      \* commits of the repository, oldest first
    FirstHead,    \* how many of them exist at first
    SeedMax,      \* -max, 0 for no limit
    DocsShare,    \* -max-docs-share, in percent, 0 for no cap
    Submitters,   \* reverse-briefs, by hand and from bootstrap
    Pollers,      \* reverse-briefs -poll, the same
    MaxBatches,   \* bound: batches ever created
    MaxCommands,  \* bound: commands ever started and commits ever made
    MaxFaults     \* bound: statements, git and API calls that fail, and kills

ASSUME LibraryAssumption ==
    /\ Len(History) \in Nat /\ DOMAIN History = 1..Len(History)
    /\ FirstHead \in 0..Len(History)
    /\ {SeedMax, DocsShare, MaxBatches, MaxCommands, MaxFaults} \subseteq Nat

VARIABLES
    head,       \* commits of the repository so far
    tasks,      \* history rows of eval_tasks, by id
    batches,    \* of the service: items, those answered with a text, ended
    seeder, submitter, poller, refresher,
    commands, faults

library == <<head, tasks, batches>>
writers == <<seeder, submitter, poller, refresher>>
bounds == <<commands, faults>>
libraryVars == <<library, writers, bounds>>

TaskIds == DOMAIN tasks
Commits == DOMAIN History

\* What the commits come to, worked out once.
NatureOf == [c \in Commits |-> Nature(History[c])]
HoldoutOf == [c \in Commits |-> Holdout(History[c])]
TurnTypeOf == [c \in Commits |-> TurnType(History[c])]
OutcomeOf == [c \in Commits |-> [docs \in BOOLEAN |-> SeedOutcome(History[c], docs)]]
DifficultyOf ==
    [c \in Commits |-> [h \in c..Len(History) |->
        Difficulty(History[c], {History[d] : d \in (c + 1)..h})]]

NoBatch == 0

Idle == "idle"
SeederIdle == [pc |-> Idle, known |-> {}, left |-> <<>>, inserted |-> 0, docs |-> 0]
SubmitterIdle == [pc |-> Idle, rows |-> <<>>, left |-> {}, batch |-> NoBatch]
PollerIdle ==
    [pc |-> Idle, rows |-> <<>>, groups |-> {}, left |-> {}, batch |-> NoBatch, running |-> FALSE]
RefresherIdle == [pc |-> Idle, rows |-> <<>>, left |-> {}]

LibraryInit ==
    /\ head = FirstHead
    /\ tasks = <<>>
    /\ batches = <<>>
    /\ seeder = SeederIdle
    /\ submitter = [s \in Submitters |-> SubmitterIdle]
    /\ poller = [p \in Pollers |-> PollerIdle]
    /\ refresher = RefresherIdle
    /\ commands = 0
    /\ faults = 0

Started == commands < MaxCommands /\ commands' = commands + 1
Failed == faults < MaxFaults /\ faults' = faults + 1

\* The repository moves on.
NewCommit ==
    /\ head < Len(History)
    /\ Started
    /\ head' = head + 1
    /\ UNCHANGED <<tasks, batches, writers, faults>>

-----------------------------------------------------------------------------
(***************************************************************************)
(* eval seed-history.                                                      *)
(***************************************************************************)
\* loadExistingHistoryShas: what the rows say has been seeded.
Seeded == {tasks[i].commit : i \in TaskIds}

\* git log, newest first.
Listed == [k \in 1..head |-> head + 1 - k]

\* Mutant: what has been seeded is not read.
SeedStart_ReadsNothing ==
    /\ seeder.pc = Idle
    /\ Started
    /\ seeder' = [SeederIdle EXCEPT !.pc = "seed", !.left = Listed]
    /\ UNCHANGED <<library, submitter, poller, refresher, faults>>

SeedStart ==
    /\ seeder.pc = Idle
    /\ Started
    /\ seeder' = [SeederIdle EXCEPT !.pc = "seed", !.known = Seeded, !.left = Listed]
    /\ UNCHANGED <<library, submitter, poller, refresher, faults>>

AllowDocs ==
    DocsShare = 0 \/ 100 * (seeder.docs + 1) <= DocsShare * (seeder.inserted + 1)

SeedsMore == seeder.left # <<>> /\ ~(SeedMax > 0 /\ seeder.inserted >= SeedMax)

NewTask(c) ==
    [commit |-> c, brief |-> NoBatch, source |-> "commit_subject",
     status |-> "none", batch |-> NoBatch, request |-> NoBatch,
     turnType |-> TurnTypeOf[c], nature |-> NatureOf[c],
     difficulty |-> DifficultyOf[c][head], holdout |-> HoldoutOf[c]]

\* One candidate: known, refused, or inserted by one statement.
SeedCommitStep ==
    /\ seeder.pc = "seed" /\ SeedsMore
    /\ LET c == Head(seeder.left)
           inserts == c \notin seeder.known /\ OutcomeOf[c][AllowDocs] = "insert"
           docs == NatureOf[c] = "docs"
       IN  /\ tasks' = IF inserts THEN Append(tasks, NewTask(c)) ELSE tasks
           /\ seeder' = [seeder EXCEPT
                 !.left = Tail(@),
                 !.inserted = IF inserts THEN @ + 1 ELSE @,
                 !.docs = IF inserts /\ docs THEN @ + 1 ELSE @]
    /\ UNCHANGED <<head, batches, submitter, poller, refresher, bounds>>

SeedEnd ==
    /\ seeder.pc = "seed" /\ ~SeedsMore
    /\ seeder' = SeederIdle
    /\ UNCHANGED <<library, submitter, poller, refresher, bounds>>

\* A git command or a statement fails, or the process is killed.
SeedFails ==
    /\ seeder.pc # Idle
    /\ Failed
    /\ seeder' = SeederIdle
    /\ UNCHANGED <<library, submitter, poller, refresher, commands>>

-----------------------------------------------------------------------------
(***************************************************************************)
(* eval reverse-briefs: submit. The rows are marked after the batch exists *)
(* and keep what was read of them otherwise. Nothing keeps two of them     *)
(* apart.                                                                  *)
(***************************************************************************)
BriefsRead(ids) ==
    [i \in ids |-> [brief |-> tasks[i].brief, source |-> tasks[i].source, batch |-> tasks[i].batch]]

\* Mutant: rows already submitted are submitted again.
Eligible_Again == {i \in TaskIds : tasks[i].source = "commit_subject"}

\* The rows of a mechanical brief that were never submitted.
Eligible == {i \in TaskIds : tasks[i].source = "commit_subject" /\ tasks[i].status = "none"}

SubmitStart(s) ==
    /\ submitter[s].pc = Idle
    /\ Eligible # {} /\ Len(batches) < MaxBatches
    /\ Started
    /\ submitter' = [submitter EXCEPT ![s] = [SubmitterIdle EXCEPT
             !.pc = "submit", !.rows = BriefsRead(Eligible), !.left = Eligible]]
    /\ UNCHANGED <<library, seeder, poller, refresher, faults>>

NewBatch(s) == [items |-> submitter[s].left, answered |-> {}, ended |-> FALSE]

SubmitBatch(s) ==
    /\ submitter[s].pc = "submit"
    /\ batches' = Append(batches, NewBatch(s))
    /\ submitter' = [submitter EXCEPT ![s].pc = "mark", ![s].batch = Len(batches) + 1]
    /\ UNCHANGED <<head, tasks, seeder, poller, refresher, bounds>>

\* The service made the batch, its answer never came.
SubmitAnswerLost(s) ==
    /\ submitter[s].pc = "submit"
    /\ Failed
    /\ batches' = Append(batches, NewBatch(s))
    /\ submitter' = [submitter EXCEPT ![s] = SubmitterIdle]
    /\ UNCHANGED <<head, tasks, seeder, poller, refresher, commands>>

SubmitMark(s) ==
    /\ submitter[s].pc = "mark" /\ submitter[s].left # {}
    /\ LET i == Min(submitter[s].left)
           row == submitter[s].rows[i]
       IN  /\ tasks' = [tasks EXCEPT ![i].brief = row.brief, ![i].source = row.source,
                                     ![i].status = "submitted", ![i].batch = submitter[s].batch]
           /\ submitter' = [submitter EXCEPT ![s].left = @ \ {i}]
    /\ UNCHANGED <<head, batches, seeder, poller, refresher, bounds>>

SubmitEnd(s) ==
    /\ submitter[s].pc = "mark" /\ submitter[s].left = {}
    /\ submitter' = [submitter EXCEPT ![s] = SubmitterIdle]
    /\ UNCHANGED <<library, seeder, poller, refresher, bounds>>

SubmitFails(s) ==
    /\ submitter[s].pc # Idle
    /\ Failed
    /\ submitter' = [submitter EXCEPT ![s] = SubmitterIdle]
    /\ UNCHANGED <<library, seeder, poller, refresher, commands>>

\* The service ends a batch: some items carry a text, the rest an error,
\* nothing but quotes, or no line at all.
BatchEnds ==
    /\ \E b \in DOMAIN batches :
          /\ ~batches[b].ended
          /\ \E texts \in SUBSET batches[b].items :
                batches' = [batches EXCEPT ![b].ended = TRUE, ![b].answered = texts]
    /\ UNCHANGED <<head, tasks, writers, bounds>>

-----------------------------------------------------------------------------
(***************************************************************************)
(* eval reverse-briefs -poll: one GET per batch, in any order, and the     *)
(* texts of those that ended.                                              *)
(***************************************************************************)
Submitted == {i \in TaskIds : tasks[i].status = "submitted"}

PollStart(p) ==
    /\ poller[p].pc = Idle
    /\ Submitted # {}
    /\ Started
    /\ poller' = [poller EXCEPT ![p] = [PollerIdle EXCEPT
             !.pc = "get", !.rows = BriefsRead(Submitted), !.groups = {tasks[i].batch : i \in Submitted}]]
    /\ UNCHANGED <<library, seeder, submitter, refresher, faults>>

\* Mutant: every row the poll read.
OfGroup_All(p, b) == DOMAIN poller[p].rows

OfGroup(p, b) ==
    {i \in DOMAIN poller[p].rows : poller[p].rows[i].batch = b}

PollGet(p) ==
    /\ poller[p].pc = "get"
    /\ \E b \in poller[p].groups :
          poller' = [poller EXCEPT
              ![p].groups = @ \ {b},
              ![p].pc = IF batches[b].ended THEN "apply" ELSE @,
              ![p].batch = b,
              ![p].running = @ \/ ~batches[b].ended,
              ![p].left = IF batches[b].ended THEN OfGroup(p, b) ELSE {}]
    /\ UNCHANGED <<library, seeder, submitter, refresher, bounds>>

PollApply(p) ==
    /\ poller[p].pc = "apply" /\ poller[p].left # {}
    /\ LET i == Min(poller[p].left)
           b == poller[p].batch
           row == poller[p].rows[i]
           text == i \in batches[b].answered
       IN  /\ tasks' = [tasks EXCEPT
                 ![i].brief = IF text THEN b ELSE row.brief,
                 ![i].source = IF text THEN "reverse_engineered" ELSE row.source,
                 ![i].status = IF text THEN "done" ELSE "errored",
                 ![i].batch = b]
           /\ poller' = [poller EXCEPT ![p].left = @ \ {i}]
    /\ UNCHANGED <<head, batches, seeder, submitter, refresher, bounds>>

PollNextBatch(p) ==
    /\ poller[p].pc = "apply" /\ poller[p].left = {}
    /\ poller' = [poller EXCEPT ![p].pc = "get"]
    /\ UNCHANGED <<library, seeder, submitter, refresher, bounds>>

PollEnd(p) ==
    /\ poller[p].pc = "get" /\ poller[p].groups = {}
    /\ poller' = [poller EXCEPT ![p] = PollerIdle]
    /\ UNCHANGED <<library, seeder, submitter, refresher, bounds>>

\* A GET that fails ends the poll of every batch not yet checked.
PollFails(p) ==
    /\ poller[p].pc # Idle
    /\ Failed
    /\ poller' = [poller EXCEPT ![p] = PollerIdle]
    /\ UNCHANGED <<library, seeder, submitter, refresher, commands>>

-----------------------------------------------------------------------------
(***************************************************************************)
(* eval refresh-requests: a request of the brief as read, and in a second  *)
(* statement the held-out tests, where the commit has some.                *)
(***************************************************************************)
RefreshStart ==
    /\ refresher.pc = Idle
    /\ tasks # <<>>
    /\ Started
    /\ refresher' = [pc |-> "request", rows |-> BriefsRead(TaskIds), left |-> TaskIds]
    /\ UNCHANGED <<library, seeder, submitter, poller, faults>>

RefreshRequest ==
    /\ refresher.pc = "request" /\ refresher.left # {}
    /\ LET i == Min(refresher.left)
       IN  /\ tasks' = [tasks EXCEPT ![i].request = refresher.rows[i].brief]
           /\ refresher' = IF HoldoutOf[tasks[i].commit].files = {}
                           THEN [refresher EXCEPT !.left = @ \ {i}]
                           ELSE [refresher EXCEPT !.pc = "holdout"]
    /\ UNCHANGED <<head, batches, seeder, submitter, poller, bounds>>

RefreshHoldout ==
    /\ refresher.pc = "holdout"
    /\ LET i == Min(refresher.left)
       IN  /\ tasks' = [tasks EXCEPT ![i].holdout = HoldoutOf[tasks[i].commit]]
           /\ refresher' = [refresher EXCEPT !.pc = "request", !.left = @ \ {i}]
    /\ UNCHANGED <<head, batches, seeder, submitter, poller, bounds>>

\* The commit cannot be read: its task is passed over.
RefreshSkips ==
    /\ refresher.pc = "request" /\ refresher.left # {}
    /\ Failed
    /\ refresher' = [refresher EXCEPT !.left = @ \ {Min(refresher.left)}]
    /\ UNCHANGED <<library, seeder, submitter, poller, commands>>

RefreshEnd ==
    /\ refresher.pc = "request" /\ refresher.left = {}
    /\ refresher' = RefresherIdle
    /\ UNCHANGED <<library, seeder, submitter, poller, bounds>>

RefreshFails ==
    /\ refresher.pc # Idle
    /\ Failed
    /\ refresher' = RefresherIdle
    /\ UNCHANGED <<library, seeder, submitter, poller, commands>>

-----------------------------------------------------------------------------
SeedNext == SeedStart \/ SeedCommitStep \/ SeedEnd \/ SeedFails
SubmitNext(s) ==
    \/ SubmitStart(s) \/ SubmitBatch(s) \/ SubmitAnswerLost(s)
    \/ SubmitMark(s) \/ SubmitEnd(s) \/ SubmitFails(s)
PollNext(p) ==
    PollStart(p) \/ PollGet(p) \/ PollApply(p) \/ PollNextBatch(p) \/ PollEnd(p) \/ PollFails(p)
RefreshNext ==
    RefreshStart \/ RefreshRequest \/ RefreshHoldout \/ RefreshSkips \/ RefreshEnd \/ RefreshFails

LibraryNext ==
    \/ NewCommit \/ BatchEnds
    \/ SeedNext \/ RefreshNext
    \/ \E s \in Submitters : SubmitNext(s)
    \/ \E p \in Pollers : PollNext(p)
=============================================================================
