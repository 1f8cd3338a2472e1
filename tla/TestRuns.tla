------------------------------ MODULE TestRuns ------------------------------
(***************************************************************************)
(* The questions of one question set and the test runs over them           *)
(* (services/questions.py, services/test_runs.py,                          *)
(* services/test_run_worker.py).                                           *)
(*                                                                         *)
(* A question is a row; its lineage is that of the row it was forked from. *)
(* The manifest of a run is copied when it is enqueued, and from then on   *)
(* an edit of a question forks it.  Curators decide under the project lock *)
(* by what they have read under it: a request reads when it takes the lock *)
(* and writes when it gives it up.  The worker takes no lock while it asks.*)
(*                                                                         *)
(* The job of a run is reduced to its row and its worker; that the row     *)
(* behaves so among pods is shown in JobQueue, and both are jobs of        *)
(* JobLifecycle.  A worker whose row has been reconciled may be alive, and *)
(* goes on.                                                                *)
(***************************************************************************)
EXTENDS Naturals, FiniteSets

CONSTANTS
    Curators,      \* concurrent requests
    NoCurator,
    Texts,         \* what a question may say
    NoText,        \* what a question that does not exist says
    MaxLive,       \* MAX_QUESTIONS_PER_SET
    MaxQuestions,  \* bound: question rows
    MaxRuns,       \* bound: test runs
    MaxResults,    \* bound: result rows of all runs
    MaxUpsets      \* bound: cancellations, failures and reconciliations

ASSUME CuratorsAssumption == NoCurator \notin Curators
ASSUME TextsAssumption    == NoText \notin Texts
ASSUME RunsBounds         == {MaxLive, MaxQuestions, MaxRuns, MaxResults, MaxUpsets} \subseteq Nat

\* A question is named by the order in which its row was inserted.
Questions == 1..MaxQuestions
Runs      == 1..MaxRuns

VARIABLES
    question,    \* questions
    setArchived, \* question_sets.archived_at is set
    lockedBy,    \* who holds the project lock
    curator,     \* the requests
    run          \* test_runs with their jobs, results and workers

runsVars == <<question, setArchived, lockedBy, curator, run>>

Verdicts  == {"succeeded", "failed", "cancelled"}
UnderWay  == {"queued", "running"}
Concluded(r) == run[r].status \in Verdicts

NoQuestion == [lineage |-> 0, text |-> NoText, position |-> 0, archived |-> FALSE]

\* `position`, `forks` and `asked` are what a request decided under the lock.
IdleCurator == [op |-> "none", row |-> 0, text |-> NoText, position |-> 0,
                forks |-> FALSE, asked |-> <<>>]

\* `asked`: the placeholder rows, with the text of each; `worker`: where the
\* executor stands, with the result it has to report once it has one.
NoRun == [status |-> "absent", asked |-> <<>>, answered |-> {}, done |-> 0,
          flag |-> FALSE, worker |-> "none"]

Existing      == {q \in Questions : question[q].lineage # 0}
Live          == {q \in Existing : ~question[q].archived}
Manifest      == [q \in Live |-> question[q].text]
Enqueued      == {r \in Runs : run[r].status # "absent"}
Asked(r)      == DOMAIN run[r].asked
Unanswered(r) == Asked(r) \ run[r].answered

ResultRows == {p \in Runs \X Questions : p[2] \in Asked(p[1])}
Flagged    == {r \in Runs : run[r].flag}
Failed     == {r \in Runs : run[r].worker = "failed" \/ run[r].status = "failed"}
GivenUp    == {r \in Runs : run[r].status = "failed(interrupted)"}
Upsets     == Cardinality(Flagged) + Cardinality(Failed) + Cardinality(GivenUp)

RunsInit ==
    /\ question = [q \in Questions |-> NoQuestion]
    /\ setArchived = FALSE
    /\ lockedBy = NoCurator
    /\ curator = [c \in Curators |-> IdleCurator]
    /\ run = [r \in Runs |-> NoRun]

-----------------------------------------------------------------------------
(* A request takes the project lock and reads; a request that is refused    *)
(* changes nothing.  One that fails or is abandoned is rolled back.         *)

\* Mutant: the project is not locked.
LockedOrNot == TRUE
LockIsFree == lockedBy = NoCurator

TakeLock(c, request) ==
    /\ LockIsFree /\ curator[c] = IdleCurator
    /\ ~setArchived
    /\ lockedBy' = c
    /\ curator' = [curator EXCEPT ![c] = request]
    /\ UNCHANGED <<question, setArchived, run>>

GiveUpLock(c) ==
    /\ lockedBy' = NoCurator
    /\ curator' = [curator EXCEPT ![c] = IdleCurator]

\* Mutant: the next position is the number of live rows.
PositionAfterLive == Cardinality(Live)

\* One above the greatest of all rows, archived ones included.
NextPosition ==
    CHOOSE p \in 0..MaxQuestions :
        /\ \A q \in Existing : question[q].position < p
        /\ p = 0 \/ \E q \in Existing : question[q].position = p - 1

BeginAdd(c, t) ==
    /\ Existing # Questions
    /\ Cardinality(Live) < MaxLive
    /\ TakeLock(c, [IdleCurator EXCEPT !.op = "add", !.text = t, !.position = NextPosition])

\* Mutant: only the runs that are over are looked at.
ReferencedByAConclusion(q) == \E r \in Runs : q \in Asked(r) /\ run[r].status \notin UnderWay
Referenced(q) == \E r \in Runs : q \in Asked(r)

BeginEdit(c, q, t) ==
    /\ Existing # Questions
    /\ q \in Live
    /\ TakeLock(c, [IdleCurator EXCEPT !.op = "edit", !.row = q, !.text = t, !.forks = Referenced(q)])

BeginArchive(c, q) ==
    /\ q \in Live
    /\ TakeLock(c, [IdleCurator EXCEPT !.op = "archive", !.row = q])

BeginArchiveSet(c) == TakeLock(c, [IdleCurator EXCEPT !.op = "archive_set"])

\* Mutant: the manifest is read before the project is locked.
BeginRunUnlocked(c) ==
    /\ curator[c] = IdleCurator /\ ~setArchived
    /\ Live # {} /\ Enqueued # Runs /\ Cardinality(ResultRows) + Cardinality(Live) <= MaxResults
    /\ curator' = [curator EXCEPT ![c] = [IdleCurator EXCEPT !.op = "run", !.asked = Manifest]]
    /\ UNCHANGED <<question, setArchived, lockedBy, run>>

\* enqueue_run: an empty set is refused.
BeginRun(c) ==
    /\ Enqueued # Runs /\ Cardinality(ResultRows) + Cardinality(Live) <= MaxResults
    /\ Live # {}
    /\ TakeLock(c, [IdleCurator EXCEPT !.op = "run", !.asked = Manifest])

AbandonRequest(c) ==
    /\ curator[c] # IdleCurator
    /\ GiveUpLock(c)
    /\ UNCHANGED <<question, setArchived, run>>

-----------------------------------------------------------------------------
(* A request writes, commits and gives up the lock.                         *)

InsertedRow == Cardinality(Existing) + 1

CommitAdd(c) ==
    /\ curator[c].op = "add"
    /\ InsertedRow \in Questions
    /\ question' = [question EXCEPT ![InsertedRow] =
           [lineage |-> InsertedRow, text |-> curator[c].text,
            position |-> curator[c].position, archived |-> FALSE]]
    /\ GiveUpLock(c)
    /\ UNCHANGED <<setArchived, run>>

EditInPlace(c) ==
    /\ curator[c].op = "edit" /\ ~curator[c].forks
    /\ question' = [question EXCEPT ![curator[c].row].text = curator[c].text]
    /\ GiveUpLock(c)
    /\ UNCHANGED <<setArchived, run>>

\* A new row of the lineage in the place of the old one, which is archived.
Fork(c) ==
    LET q == curator[c].row IN
    /\ curator[c].op = "edit" /\ curator[c].forks
    /\ InsertedRow \in Questions
    /\ question' = [question EXCEPT
           ![q].archived = TRUE,
           ![InsertedRow] = [question[q] EXCEPT !.text = curator[c].text, !.archived = FALSE]]
    /\ GiveUpLock(c)
    /\ UNCHANGED <<setArchived, run>>

CommitArchive(c) ==
    /\ curator[c].op = "archive"
    /\ question' = [question EXCEPT ![curator[c].row].archived = TRUE]
    /\ GiveUpLock(c)
    /\ UNCHANGED <<setArchived, run>>

CommitArchiveSet(c) ==
    /\ curator[c].op = "archive_set"
    /\ setArchived' = TRUE
    /\ GiveUpLock(c)
    /\ UNCHANGED <<question, run>>

\* Job, run and placeholders are one transaction; the unique index on active
\* jobs refuses it while another run is under way.
CommitRun(c) ==
    LET r == Cardinality(Enqueued) + 1 IN
    /\ curator[c].op = "run" /\ r \in Runs
    /\ \A s \in Runs : run[s].status \notin UnderWay
    /\ run' = [run EXCEPT ![r] = [NoRun EXCEPT !.status = "queued", !.asked = curator[c].asked]]
    /\ GiveUpLock(c)
    /\ UNCHANGED <<question, setArchived>>

CuratorStep(c) ==
    \/ \E t \in Texts : BeginAdd(c, t) \/ \E q \in Questions : BeginEdit(c, q, t)
    \/ \E q \in Questions : BeginArchive(c, q)
    \/ BeginArchiveSet(c) \/ BeginRun(c) \/ AbandonRequest(c)
    \/ CommitAdd(c) \/ EditInPlace(c) \/ Fork(c)
    \/ CommitArchive(c) \/ CommitArchiveSet(c) \/ CommitRun(c)

-----------------------------------------------------------------------------
(* The job of a run and its worker.                                         *)

setVars == <<question, setArchived, lockedBy, curator>>

RunBecomes(r, state) ==
    /\ run' = [run EXCEPT ![r] = state]
    /\ UNCHANGED setVars

ClaimRun(r) ==
    /\ run[r].status = "queued"
    /\ RunBecomes(r, [run[r] EXCEPT !.status = "running", !.worker = "claimed"])

\* A queued run is cancelled on the spot, a running one is flagged.
CancelQueuedRun(r) ==
    /\ run[r].status = "queued"
    /\ RunBecomes(r, [run[r] EXCEPT !.status = "cancelled"])

\* Mutant: a running run is cancelled on the spot, too.
CancelRunningRunNow(r) ==
    /\ run[r].status = "running"
    /\ RunBecomes(r, [run[r] EXCEPT !.status = "cancelled", !.flag = TRUE])

CancelRunningRun(r) ==
    /\ run[r].status = "running" /\ ~run[r].flag /\ Upsets < MaxUpsets
    /\ RunBecomes(r, [run[r] EXCEPT !.flag = TRUE])

\* _execute, then the start of execute_test_run, which waits for the lock.
StartAsking(r) ==
    /\ run[r].worker = "claimed"
    /\ \/ /\ run[r].status # "running"
          /\ RunBecomes(r, [run[r] EXCEPT !.worker = "gone"])
       \/ /\ run[r].status = "running" /\ run[r].flag
          /\ RunBecomes(r, [run[r] EXCEPT !.worker = "cancelled"])
       \/ /\ run[r].status = "running" /\ ~run[r].flag /\ LockIsFree
          /\ RunBecomes(r, [run[r] EXCEPT !.worker = "asking"])

\* The placeholders are asked in the order of the positions at the enqueue.
NextAsked(r, q) ==
    q \in Unanswered(r) /\ \A p \in Unanswered(r) : question[q].position <= question[p].position

\* Mutant: a question that fails is counted and its row is not written.
AnswerUnlessItFails(r, q) ==
    /\ run[r].worker = "asking" /\ NextAsked(r, q)
    /\ \E written \in {{}, {q}} :
          RunBecomes(r, [run[r] EXCEPT !.answered = @ \cup written, !.done = @ + 1])

\* An answer or an error: the row and the progress are one commit.
AnswerQuestion(r, q) ==
    /\ run[r].worker = "asking" /\ NextAsked(r, q)
    /\ RunBecomes(r, [run[r] EXCEPT !.answered = @ \cup {q}, !.done = @ + 1])

\* The watcher has seen the flag, and there is a question left.
StopAsking(r) ==
    /\ run[r].worker = "asking" /\ Unanswered(r) # {} /\ run[r].flag
    /\ RunBecomes(r, [run[r] EXCEPT !.worker = "cancelled"])

AllAsked(r) ==
    /\ run[r].worker = "asking" /\ Unanswered(r) = {}
    /\ RunBecomes(r, [run[r] EXCEPT !.worker = "succeeded"])

\* The configuration does not load, or a commit fails.
WorkerFails(r) ==
    /\ run[r].worker \in {"claimed", "asking"} /\ Upsets < MaxUpsets
    /\ RunBecomes(r, [run[r] EXCEPT !.worker = "failed"])

\* finish: the result of a row that is no longer active is discarded.
FinishRun(r) ==
    /\ run[r].worker \in Verdicts
    /\ \/ /\ run[r].status \in UnderWay
          /\ RunBecomes(r, [run[r] EXCEPT !.status = run[r].worker, !.worker = "gone"])
       \/ /\ run[r].status \notin UnderWay
          /\ RunBecomes(r, [run[r] EXCEPT !.worker = "gone"])

\* A worker that has died is one that takes no step; one that is taken for dead
\* may take some.
ReconcileRun(r) ==
    /\ run[r].status = "running" /\ Upsets < MaxUpsets
    /\ RunBecomes(r, [run[r] EXCEPT !.status = "failed(interrupted)"])

\* run_matrix: the cell of a run in the row of a lineage.  The results of the run
\* are put into their cells in the order of their positions.
Cell(lineage, r) ==
    LET here == {q \in Asked(r) : question[q].lineage = lineage} IN
    CHOOSE q \in here : \A p \in here : question[p].position <= question[q].position

WorkerStep(r) ==
    \/ ClaimRun(r) \/ CancelQueuedRun(r) \/ CancelRunningRun(r)
    \/ StartAsking(r) \/ (\E q \in Questions : AnswerQuestion(r, q))
    \/ StopAsking(r) \/ AllAsked(r) \/ WorkerFails(r) \/ FinishRun(r) \/ ReconcileRun(r)

RunsNext == (\E c \in Curators : CuratorStep(c)) \/ (\E r \in Runs : WorkerStep(r))

RunsSpec == RunsInit /\ [][RunsNext]_runsVars

-----------------------------------------------------------------------------
\* The rows of the runs as job rows of their project, which move no baseline.
RunJobs == INSTANCE JobLifecycle WITH
    Projects  <- {"project"},
    NoProject <- "none",
    MaxJobs   <- MaxRuns,
    status    <- [r \in Runs |-> run[r].status],
    owner     <- [r \in Runs |-> IF run[r].status = "absent" THEN "none" ELSE "project"],
    baseline  <- [pr \in {"project"} |-> 0]

\* The job of a run is reduced here to a row that one worker claims and finishes; it
\* still goes the way of every job: one run of a project is under way at a time, a run
\* that never started can only be cancelled, and a conclusion is final.
RunsAreJobs == RunJobs!LifecycleSpec

\* The rows of questions, requests and runs hold what their columns can; a request
\* that has decided something holds the project lock.
RunsTypeOK ==
    /\ \A q \in Existing :
          question[q] \in [lineage : 1..q, text : Texts, position : 0..MaxQuestions, archived : BOOLEAN]
    /\ setArchived \in BOOLEAN /\ lockedBy \in Curators \cup {NoCurator}
    /\ \A c \in Curators : curator[c] # IdleCurator => lockedBy = c
    /\ \A r \in Runs :
          /\ run[r].status \in {"absent", "failed(interrupted)"} \cup UnderWay \cup Verdicts
          /\ run[r].answered \subseteq Questions /\ run[r].done \in 0..MaxQuestions
          /\ run[r].flag \in BOOLEAN
          /\ run[r].worker \in {"none", "claimed", "asking", "gone"} \cup Verdicts

\* "A historic run's test_results.question_text stays the question as asked",
\* and so does the question it refers to: a row that a run has asked keeps its
\* text, whatever edits raced the enqueue.
HistoryKeepsItsQuestions ==
    \A r \in Runs : \A q \in Asked(r) : question[q].text = run[r].asked[q]

\* "One live question per lineage per set manifest, so a lineage appears at
\* most once per run - never overwritten": the matrix of the runs shows every
\* result, and two edits of one question do not fork it twice.
MatrixShowsEveryResult ==
    \A r \in Enqueued : \A q \in Asked(r) : Cell(question[q].lineage, r) = q

\* "Two concurrent adds can neither both pass a full set nor share a position",
\* nor can an add and a fork, or an add after an archive.
AddsDoNotCollide ==
    /\ Cardinality(Live) <= MaxLive
    /\ \A p, q \in Live : question[p].position = question[q].position => p = q

\* The manifest of a run is the live set at its enqueue, and no run is enqueued
\* over a set that is archived.
ManifestIsTheLiveSet ==
    [][ \A r \in Runs :
          run[r].status = "absent" /\ run'[r].status # "absent"
              => ~setArchived /\ run'[r].asked = Manifest ]_runsVars

\* What is answered was asked, the progress counts the answers that are written -
\* also those of a worker whose run was given up - and a run that succeeded has one
\* for every question.
ResultsTellTheRun ==
    \A r \in Runs :
        /\ run[r].answered \subseteq Asked(r)
        /\ run[r].done = Cardinality(run[r].answered)
        /\ run[r].status = "succeeded" => Unanswered(r) = {}

\* Once a run has ended by itself or was cancelled, its result rows and its row
\* stay as they are; only a run that was given up may have a worker that writes.
ConcludedRunsAreFinal ==
    [][ \A r \in Runs :
          Concluded(r)
              => run'[r].answered = run[r].answered /\ run'[r].status = run[r].status ]_runsVars
=============================================================================
