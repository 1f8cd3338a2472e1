------------------------------ MODULE JobQueue ------------------------------
(***************************************************************************)
(* The job queue of graphrag-web-ui and the runner that executes it.       *)
(*                                                                         *)
(* Job rows live in PostgreSQL; every API pod runs a loop that reconciles  *)
(* stale rows, counts the running ones and claims the oldest queued one,   *)
(* and an executor task per claimed job: start snapshot, epoch bump, the   *)
(* graphrag subprocess (or the in-process test run), and one transaction   *)
(* that writes the terminal status and promotes the baseline.  Beside the  *)
(* executor a watcher beats the row's heartbeat and polls its cancel flag. *)
(*                                                                         *)
(* Each action is one transaction or one step between two awaits.  A pod   *)
(* may crash (its tasks and its subprocesses die with the container) and   *)
(* may lose the database for a while: every statement it then tries raises,*)
(* and the code around the statement decides what becomes of the job.      *)
(*                                                                         *)
(* Clocks are abstracted to one bit per row: `fresh` says that the last    *)
(* heartbeat is younger than _STALE_AFTER_S.  A watcher that reaches the   *)
(* database beats every 10 s, so the bit falls (Expire) only when nobody   *)
(* beats or the beats do not arrive.                                       *)
(***************************************************************************)
EXTENDS Naturals, FiniteSets

CONSTANTS
    Projects,    \* the projects of the installation
    NoProject,   \* the project of a job that has not been inserted
    Pods,        \* API pods (two during a rolling update, else one)
    NoPod,       \* the worker of a job nobody has claimed
    Types,       \* the job types enqueued, a subset of JobTypes
    MaxJobs,     \* bound: jobs inserted in a behaviour
    Cap,         \* settings.max_concurrent_jobs; a cap of 0 disables the loop
    MaxCrashes,  \* bound: pod crashes in a behaviour
    MaxOutages,  \* bound: intervals in which a pod cannot reach the database
    MaxFaults    \* bound: crashes and outages together

JobTypes      == {"index", "update", "test_run"}
FreezingTypes == {"index", "update"}

ASSUME ProjectsAssumption == NoProject \notin Projects
ASSUME PodsAssumption     == IsFiniteSet(Pods) /\ Pods # {} /\ NoPod \notin Pods
ASSUME TypesAssumption    == Types \subseteq JobTypes
ASSUME CapAssumption      == Cap \in Nat \ {0}
ASSUME BoundsAssumption   == {MaxJobs, MaxCrashes, MaxOutages, MaxFaults} \subseteq Nat

\* Job ids in the order of jobs.queued_at, which is the order of the queue.
Jobs  == 1..MaxJobs
NoJob == 0

ActiveStatuses   == {"queued", "running"}
TerminalStatuses == {"succeeded", "failed", "failed(interrupted)", "cancelled"}
Results          == {"succeeded", "failed", "cancelled"}

\* Where the executor task of a job stands; "gone" when it returned or died.
\* "claimed" is the claim committed and the task not yet created.
Stages == {"none", "claimed", "spawned", "watching", "captured", "bumped",
           "running", "ended", "gone"}

VARIABLES
    \* jobs rows
    status, type, owner,
    flag,       \* cancel_requested_at is set
    worker,     \* the pod that claimed the job
    fresh,      \* heartbeat_at is younger than the stale threshold
    runOpen,    \* the job owns a test run whose finished_at is null
    \* index_snapshots rows and the projects columns about them
    captured,   \* the job's start row exists
    snapEpoch,  \* artifact_epoch of the job's baseline row, 0 without one
    baseline,   \* the job whose baseline row the project points at
    epoch,      \* projects.artifact_epoch
    \* output/ of each workspace: the run that wrote it last, and whether
    \* that run had come to its successful end
    out,
    \* executors
    stage, res,
    seen,       \* the watcher has seen the cancel flag
    \* pods
    up, online, \* running; reaching the database
    loop,       \* where the runner loop stands
    pending,    \* stale jobs the loop has selected and not yet finished
    crashes, outages

rowVars  == <<status, type, owner, flag, worker, fresh, runOpen>>
snapVars == <<captured, snapEpoch, baseline, epoch>>
execVars == <<stage, res, seen>>
loopVars == <<loop, pending>>
envVars  == <<up, online, crashes, outages>>
vars     == <<rowVars, snapVars, out, execVars, loopVars, envVars>>

Active(j)    == status[j] \in ActiveStatuses
ActiveOn(pr) == {j \in Jobs : Active(j) /\ owner[j] = pr}
Running      == {j \in Jobs : status[j] = "running"}
Queued       == {j \in Jobs : status[j] = "queued"}

\* The cutoff of find_stale_running.
Stale == {j \in Running : ~fresh[j]}

Reaches(p) == up[p] /\ online[p]
Serving    == \E p \in Pods : Reaches(p)

\* The executor of j is a task of a live pod; its pod reaches the database.
Executing(j)      == stage[j] \notin {"none", "gone"}
CanWrite(j)       == Executing(j) /\ online[worker[j]]
CannotWrite(j)    == Executing(j) /\ ~online[worker[j]]

-----------------------------------------------------------------------------
RowTypes ==
    /\ status \in [Jobs -> {"absent"} \cup ActiveStatuses \cup TerminalStatuses]
    /\ type \in [Jobs -> {"none"} \cup JobTypes]
    /\ owner \in [Jobs -> Projects \cup {NoProject}]
    /\ flag \in [Jobs -> BOOLEAN]
    /\ worker \in [Jobs -> Pods \cup {NoPod}]
    /\ fresh \in [Jobs -> BOOLEAN]
    /\ runOpen \in [Jobs -> BOOLEAN]

SnapshotTypes ==
    /\ captured \in [Jobs -> BOOLEAN]
    /\ snapEpoch \in [Jobs -> Nat]
    /\ baseline \in [Projects -> Jobs \cup {NoJob}]
    /\ epoch \in [Projects -> Nat]

OutputTypes == out \in [Projects -> [job : Jobs \cup {NoJob}, complete : BOOLEAN]]

ExecutorTypes ==
    /\ stage \in [Jobs -> Stages]
    /\ res \in [Jobs -> {"none"} \cup Results]
    /\ seen \in [Jobs -> BOOLEAN]

LoopTypes ==
    /\ loop \in [Pods -> {"due", "ready", "reconciling", "claiming", "spawning"}]
    /\ pending \in [Pods -> SUBSET Jobs]

PodTypes ==
    /\ up \in [Pods -> BOOLEAN]
    /\ online \in [Pods -> BOOLEAN]
    /\ crashes \in Nat
    /\ outages \in Nat

TypeOK ==
    RowTypes /\ SnapshotTypes /\ OutputTypes /\ ExecutorTypes /\ LoopTypes /\ PodTypes

Init ==
    /\ status = [j \in Jobs |-> "absent"]
    /\ type = [j \in Jobs |-> "none"]
    /\ owner = [j \in Jobs |-> NoProject]
    /\ flag = [j \in Jobs |-> FALSE]
    /\ worker = [j \in Jobs |-> NoPod]
    /\ fresh = [j \in Jobs |-> FALSE]
    /\ runOpen = [j \in Jobs |-> FALSE]
    /\ captured = [j \in Jobs |-> FALSE]
    /\ snapEpoch = [j \in Jobs |-> 0]
    /\ baseline = [pr \in Projects |-> NoJob]
    /\ epoch = [pr \in Projects |-> 0]
    /\ out = [pr \in Projects |-> [job |-> NoJob, complete |-> FALSE]]
    /\ stage = [j \in Jobs |-> "none"]
    /\ res = [j \in Jobs |-> "none"]
    /\ seen = [j \in Jobs |-> FALSE]
    /\ up = [p \in Pods |-> TRUE]
    /\ online = [p \in Pods |-> TRUE]
    /\ loop = [p \in Pods |-> "due"]
    /\ pending = [p \in Pods |-> {}]
    /\ crashes = 0
    /\ outages = 0

-----------------------------------------------------------------------------
(* Requests.                                                               *)

\* jobs_one_active_per_project: the partial unique index refuses the insert.
\* The checks before it (settings, disk, quota) may refuse too and change
\* nothing.
UniqueIndexAdmits(pr) == ActiveOn(pr) = {}

Insert(pr, t) ==
    /\ Serving
    /\ UniqueIndexAdmits(pr)
    /\ \E j \in Jobs :
        /\ status[j] = "absent"
        /\ \A k \in Jobs : status[k] = "absent" => j <= k
        /\ status' = [status EXCEPT ![j] = "queued"]
        /\ type' = [type EXCEPT ![j] = t]
        /\ owner' = [owner EXCEPT ![j] = pr]
        /\ runOpen' = [runOpen EXCEPT ![j] = (t = "test_run")]
    /\ UNCHANGED <<flag, worker, fresh, snapVars, out, execVars, loopVars, envVars>>

Enqueue(pr, t) == t \in FreezingTypes /\ Insert(pr, t)

\* The run, its placeholder results and the job are one transaction.
EnqueueRun(pr, t) == t = "test_run" /\ Insert(pr, t)

\* The WHERE clause of the first update of request_cancel.
\* Mutant: it takes a running row for one that has not started.
NotFinished(j) == Active(j)
NotStarted(j) == status[j] = "queued"

\* request_cancel on a queued row: cancelled on the spot, the run closed.
CancelQueued(j) ==
    /\ Serving
    /\ NotStarted(j)
    /\ status' = [status EXCEPT ![j] = "cancelled"]
    /\ flag' = [flag EXCEPT ![j] = TRUE]
    /\ runOpen' = [runOpen EXCEPT ![j] = FALSE]
    /\ UNCHANGED <<type, owner, worker, fresh, snapVars, out, execVars, loopVars, envVars>>

\* request_cancel on a running row: only the flag its watcher polls.
CancelRunning(j) ==
    /\ Serving
    /\ status[j] = "running" /\ ~flag[j]
    /\ flag' = [flag EXCEPT ![j] = TRUE]
    /\ UNCHANGED <<status, type, owner, worker, fresh, runOpen, snapVars, out,
                   execVars, loopVars, envVars>>

-----------------------------------------------------------------------------
(* The terminal write.                                                     *)

\* Mutant: the test run is left to the worker's own stamp.
CloseRowAlone(j, s) ==
    /\ status' = [status EXCEPT ![j] = s]
    /\ UNCHANGED <<type, owner, flag, worker, fresh, runOpen>>

\* _terminal_update: the row closes with its test run, if it has one.
Close(j, s) ==
    /\ status' = [status EXCEPT ![j] = s]
    /\ runOpen' = [runOpen EXCEPT ![j] = FALSE]
    /\ UNCHANGED <<type, owner, flag, worker, fresh>>

\* The WHERE clause of the terminal write; when it matches no row the result
\* is discarded and the promotion hook skipped.
\* Mutant: the write is not guarded.
TerminalWriteUnguarded(j) == status[j] # "absent"
TerminalWriteMatches(j) == Active(j)

\* Mutant: the hook promotes whatever the run came to.
PromotableWhateverItsResult(j) == type[j] \in FreezingTypes /\ captured[j]

\* promote(): an update learns nothing without a previous baseline.
Promotable(j) ==
    /\ res[j] = "succeeded"
    /\ type[j] \in FreezingTypes
    /\ captured[j]
    /\ type[j] = "update" => baseline[owner[j]] # NoJob

Promote(j) ==
    /\ Promotable(j)
    /\ snapEpoch' = [snapEpoch EXCEPT ![j] = epoch[owner[j]]]
    /\ baseline' = [baseline EXCEPT ![owner[j]] = j]
    /\ UNCHANGED <<captured, epoch>>

-----------------------------------------------------------------------------
(* The runner loop of a pod.                                               *)

ScanDue(p) == loop[p] \in {"due", "ready"}

\* find_stale_running; due on the first iteration and every 60 s after.  An
\* iteration that fails leaves it due, so it is retried after one second.
ReconcileScan(p) ==
    /\ Reaches(p)
    /\ ScanDue(p)
    /\ pending' = [pending EXCEPT ![p] = Stale]
    /\ loop' = [loop EXCEPT ![p] = IF Stale = {} THEN "ready" ELSE "reconciling"]
    /\ UNCHANGED <<rowVars, snapVars, out, execVars, envVars>>

\* Each selected job is finished in a transaction of its own; the guard is
\* the terminal write's, the heartbeat is not looked at again.
ReconcileOne(p, j) ==
    /\ Reaches(p)
    /\ loop[p] = "reconciling" /\ j \in pending[p]
    /\ \/ TerminalWriteMatches(j) /\ Close(j, "failed(interrupted)")
       \/ ~TerminalWriteMatches(j) /\ UNCHANGED rowVars
    /\ pending' = [pending EXCEPT ![p] = @ \ {j}]
    /\ loop' = [loop EXCEPT ![p] = IF pending[p] = {j} THEN "ready" ELSE @]
    /\ UNCHANGED <<snapVars, out, execVars, envVars>>

\* Mutants: an off-by-one, and a count that includes the queue.
AtMostCap == Cardinality(Running) <= Cap
QueueBelowCap == Cardinality(Running \cup Queued) < Cap
BelowCap == Cardinality(Running) < Cap

\* count_running, in a statement of its own before the claim.
Count(p) ==
    /\ Reaches(p)
    /\ loop[p] = "ready"
    /\ BelowCap
    /\ loop' = [loop EXCEPT ![p] = "claiming"]
    /\ UNCHANGED <<rowVars, snapVars, out, execVars, pending, envVars>>

\* claim_next: the oldest queued row.  SKIP LOCKED passes over a row only
\* while another claim or a cancel holds it, and the two commits commute.
Claim(p) ==
    /\ Reaches(p)
    /\ loop[p] = "claiming"
    /\ \E j \in Queued :
        /\ \A k \in Queued : j <= k
        /\ status' = [status EXCEPT ![j] = "running"]
        /\ worker' = [worker EXCEPT ![j] = p]
        /\ fresh' = [fresh EXCEPT ![j] = TRUE]
        /\ stage' = [stage EXCEPT ![j] = "claimed"]
    /\ loop' = [loop EXCEPT ![p] = "spawning"]
    /\ UNCHANGED <<type, owner, flag, runOpen, snapVars, out, res, seen, pending, envVars>>

ClaimNothing(p) ==
    /\ Reaches(p)
    /\ loop[p] = "claiming"
    /\ Queued = {}
    /\ loop' = [loop EXCEPT ![p] = "ready"]
    /\ UNCHANGED <<rowVars, snapVars, out, execVars, pending, envVars>>

\* The claimed row is refreshed after the commit, then the task is created.
SpawnTask(p, j) ==
    /\ Reaches(p)
    /\ loop[p] = "spawning" /\ stage[j] = "claimed" /\ worker[j] = p
    /\ stage' = [stage EXCEPT ![j] = "spawned"]
    /\ loop' = [loop EXCEPT ![p] = "ready"]
    /\ UNCHANGED <<rowVars, snapVars, out, res, seen, pending, envVars>>

\* A statement of the iteration raises; the loop logs it and starts over.  A
\* job claimed in this iteration is left running without a task.
IterationFails(p) ==
    /\ up[p] /\ ~online[p]
    /\ loop[p] \in {"reconciling", "claiming", "spawning"}
    /\ loop' = [loop EXCEPT ![p] = IF @ = "reconciling" THEN "due" ELSE "ready"]
    /\ pending' = [pending EXCEPT ![p] = {}]
    /\ stage' = [j \in Jobs |->
                   IF stage[j] = "claimed" /\ worker[j] = p THEN "gone" ELSE stage[j]]
    /\ UNCHANGED <<rowVars, snapVars, out, res, seen, envVars>>

-----------------------------------------------------------------------------
(* The executor task of a job.                                             *)

\* _execute reads the row: already finished elsewhere, so nothing is done.
BeginFinished(j) ==
    /\ stage[j] = "spawned" /\ CanWrite(j)
    /\ status[j] # "running"
    /\ stage' = [stage EXCEPT ![j] = "gone"]
    /\ UNCHANGED <<rowVars, snapVars, out, res, seen, loopVars, envVars>>

\* Cancelled between the claim and here: no snapshot, no bump, no spawn.
BeginCancelled(j) ==
    /\ stage[j] = "spawned" /\ CanWrite(j)
    /\ status[j] = "running" /\ flag[j]
    /\ Close(j, "cancelled")
    /\ stage' = [stage EXCEPT ![j] = "gone"]
    /\ UNCHANGED <<snapVars, out, res, seen, loopVars, envVars>>

\* The watcher starts with the work.
Begin(j) ==
    /\ stage[j] = "spawned" /\ CanWrite(j)
    /\ status[j] = "running" /\ ~flag[j]
    /\ stage' = [stage EXCEPT ![j] = IF type[j] \in FreezingTypes THEN "watching" ELSE "running"]
    /\ UNCHANGED <<rowVars, snapVars, out, res, seen, loopVars, envVars>>

\* The first read raises outside the try block: the task dies, the row stays.
BeginFails(j) ==
    /\ stage[j] = "spawned" /\ CannotWrite(j)
    /\ stage' = [stage EXCEPT ![j] = "gone"]
    /\ UNCHANGED <<rowVars, snapVars, out, res, seen, loopVars, envVars>>

CaptureStart(j) ==
    /\ stage[j] = "watching" /\ CanWrite(j)
    /\ captured' = [captured EXCEPT ![j] = TRUE]
    /\ stage' = [stage EXCEPT ![j] = "captured"]
    /\ UNCHANGED <<rowVars, snapEpoch, baseline, epoch, out, res, seen, loopVars, envVars>>

\* Mutant: the bump is lost.
EpochUnmoved(pr) == epoch[pr]
NextEpoch(pr) == epoch[pr] + 1

BumpArtifactEpoch(j) ==
    /\ stage[j] = "captured" /\ CanWrite(j)
    /\ epoch' = [epoch EXCEPT ![owner[j]] = NextEpoch(owner[j])]
    /\ stage' = [stage EXCEPT ![j] = "bumped"]
    /\ UNCHANGED <<rowVars, captured, snapEpoch, baseline, out, res, seen, loopVars, envVars>>

Spawn(j) ==
    /\ stage[j] = "bumped"
    /\ stage' = [stage EXCEPT ![j] = "running"]
    /\ UNCHANGED <<rowVars, snapVars, out, res, seen, loopVars, envVars>>

\* Any step of the try block may raise (the database, an unreadable
\* settings.yaml or parquet file, no executable): the result is `failed`.
StepFails(j) ==
    /\ \/ stage[j] \in {"watching", "captured", "bumped"}
       \/ stage[j] = "running" /\ type[j] = "test_run"
    /\ res' = [res EXCEPT ![j] = "failed"]
    /\ stage' = [stage EXCEPT ![j] = "ended"]
    /\ UNCHANGED <<rowVars, snapVars, out, seen, loopVars, envVars>>

\* The subprocess rewrites output/ in place.
CliWrites(j) ==
    /\ stage[j] = "running" /\ type[j] \in FreezingTypes
    /\ out' = [out EXCEPT ![owner[j]] = [job |-> j, complete |-> FALSE]]
    /\ UNCHANGED <<rowVars, snapVars, execVars, loopVars, envVars>>

\* The subprocess exits.  A signalled one may still exit 0 (succeeded), and
\* one that fails by itself before the poller looks is `failed`.
CliExits(j) ==
    /\ stage[j] = "running" /\ type[j] \in FreezingTypes
    /\ \/ /\ res' = [res EXCEPT ![j] = "succeeded"]
          /\ out' = [out EXCEPT ![owner[j]] = [job |-> j, complete |-> TRUE]]
       \/ res' = [res EXCEPT ![j] = "failed"] /\ UNCHANGED out
       \/ seen[j] /\ res' = [res EXCEPT ![j] = "cancelled"] /\ UNCHANGED out
    /\ stage' = [stage EXCEPT ![j] = "ended"]
    /\ UNCHANGED <<rowVars, snapVars, seen, loopVars, envVars>>

\* execute_test_run stamps finished_at itself, whatever became of the row.
TestRunEnds(j) ==
    /\ stage[j] = "running" /\ type[j] = "test_run" /\ CanWrite(j)
    /\ \/ res' = [res EXCEPT ![j] = "succeeded"]
       \/ seen[j] /\ res' = [res EXCEPT ![j] = "cancelled"]
    /\ runOpen' = [runOpen EXCEPT ![j] = FALSE]
    /\ stage' = [stage EXCEPT ![j] = "ended"]
    /\ UNCHANGED <<status, type, owner, flag, worker, fresh, snapVars, out, seen,
                   loopVars, envVars>>

\* finish(): terminal status and promotion in one transaction.  A hook that
\* raises is rolled back and the status written alone.
Finish(j) ==
    /\ stage[j] = "ended" /\ CanWrite(j)
    /\ TerminalWriteMatches(j)
    /\ Close(j, res[j])
    /\ Promote(j) \/ UNCHANGED snapVars
    /\ stage' = [stage EXCEPT ![j] = "gone"]
    /\ UNCHANGED <<out, res, seen, loopVars, envVars>>

FinishDiscarded(j) ==
    /\ stage[j] = "ended" /\ CanWrite(j)
    /\ ~TerminalWriteMatches(j)
    /\ stage' = [stage EXCEPT ![j] = "gone"]
    /\ UNCHANGED <<rowVars, snapVars, out, res, seen, loopVars, envVars>>

\* The terminal write is outside the try block and is not retried.
FinishFails(j) ==
    /\ stage[j] = "ended" /\ CannotWrite(j)
    /\ stage' = [stage EXCEPT ![j] = "gone"]
    /\ UNCHANGED <<rowVars, snapVars, out, res, seen, loopVars, envVars>>

-----------------------------------------------------------------------------
(* The watcher of an executor.                                             *)

Watching(j) == stage[j] \in {"watching", "captured", "bumped", "running"} /\ CanWrite(j)

\* Mutant: the watcher beats and polls but drops what it read.
FlagDropped(j) == seen[j]
FlagRead(j) == seen[j] \/ flag[j]

\* heartbeat(): not guarded by the status; its RETURNING carries the flag.
Beat(j) ==
    /\ Watching(j)
    /\ fresh' = [fresh EXCEPT ![j] = TRUE]
    /\ seen' = [seen EXCEPT ![j] = FlagRead(j)]
    /\ UNCHANGED <<status, type, owner, flag, worker, runOpen, snapVars, out, stage,
                   res, loopVars, envVars>>

PollCancel(j) ==
    /\ Watching(j)
    /\ seen' = [seen EXCEPT ![j] = FlagRead(j)]
    /\ UNCHANGED <<rowVars, snapVars, out, stage, res, loopVars, envVars>>

\* A minute passes without a beat: nobody beats, or the beats do not arrive.
\* An executor that reaches the database needs far less than a minute for
\* the few statements it runs while no watcher beats for it.
Expire(j) ==
    /\ status[j] = "running" /\ fresh[j]
    /\ ~CanWrite(j)
    /\ fresh' = [fresh EXCEPT ![j] = FALSE]
    /\ UNCHANGED <<status, type, owner, flag, worker, runOpen, snapVars, out, execVars,
                   loopVars, envVars>>

-----------------------------------------------------------------------------
(* Pods.                                                                   *)

Crash(p) ==
    /\ up[p] /\ crashes < MaxCrashes /\ crashes + outages < MaxFaults
    /\ crashes' = crashes + 1
    /\ up' = [up EXCEPT ![p] = FALSE]
    /\ stage' = [j \in Jobs |-> IF Executing(j) /\ worker[j] = p THEN "gone" ELSE stage[j]]
    /\ loop' = [loop EXCEPT ![p] = "due"]
    /\ pending' = [pending EXCEPT ![p] = {}]
    /\ UNCHANGED <<rowVars, snapVars, out, res, seen, online, outages>>

Restart(p) ==
    /\ ~up[p]
    /\ up' = [up EXCEPT ![p] = TRUE]
    /\ UNCHANGED <<rowVars, snapVars, out, execVars, loopVars, online, crashes, outages>>

LoseDatabase(p) ==
    /\ online[p] /\ outages < MaxOutages /\ crashes + outages < MaxFaults
    /\ outages' = outages + 1
    /\ online' = [online EXCEPT ![p] = FALSE]
    /\ UNCHANGED <<rowVars, snapVars, out, execVars, loopVars, up, crashes>>

RegainDatabase(p) ==
    /\ ~online[p]
    /\ online' = [online EXCEPT ![p] = TRUE]
    /\ UNCHANGED <<rowVars, snapVars, out, execVars, loopVars, up, crashes, outages>>

-----------------------------------------------------------------------------
Request ==
    \/ \E pr \in Projects, t \in Types : Enqueue(pr, t) \/ EnqueueRun(pr, t)
    \/ \E j \in Jobs : CancelQueued(j) \/ CancelRunning(j)

LoopStep(p) ==
    \/ \E j \in Jobs : ReconcileOne(p, j) \/ SpawnTask(p, j)
    \/ Claim(p)
    \/ ClaimNothing(p)
    \/ IterationFails(p)

ExecutorStep(j) ==
    \/ BeginFinished(j) \/ BeginCancelled(j) \/ Begin(j) \/ BeginFails(j)
    \/ CaptureStart(j) \/ BumpArtifactEpoch(j) \/ Spawn(j) \/ StepFails(j)
    \/ Finish(j) \/ FinishDiscarded(j) \/ FinishFails(j)

RunStep(j) == CliWrites(j) \/ CliExits(j) \/ TestRunEnds(j)

Environment(p) == Crash(p) \/ Restart(p) \/ LoseDatabase(p) \/ RegainDatabase(p)

Next ==
    \/ Request
    \/ \E p \in Pods : ReconcileScan(p) \/ Count(p) \/ LoopStep(p) \/ Environment(p)
    \/ \E j \in Jobs : ExecutorStep(j) \/ RunStep(j) \/ Beat(j) \/ PollCancel(j) \/ Expire(j)

Spec == Init /\ [][Next]_vars

\* The loop and the tasks are scheduled by the event loop, the reconciliation
\* by its timer (hence strong: other iterations come between), the watcher by
\* its own timer; a pod that died is restarted and an outage ends.  A signalled
\* subprocess exits, by SIGKILL after the grace if need be.  Nobody is obliged
\* to cancel, and a subprocess nobody signals may run for ever.
Fairness ==
    /\ \A p \in Pods :
        /\ SF_vars(ReconcileScan(p)) /\ WF_vars(LoopStep(p))
        /\ WF_vars(Restart(p)) /\ WF_vars(RegainDatabase(p))
    /\ \A j \in Jobs :
        /\ WF_vars(ExecutorStep(j)) /\ WF_vars(Beat(j)) /\ WF_vars(Expire(j))
        /\ WF_vars(seen[j] /\ CliExits(j)) /\ WF_vars(TestRunEnds(j))

FairSpec == Spec /\ Fairness

\* Every subprocess exits in the end, and every iteration counts.
RunsEnd ==
    /\ \A j \in Jobs : WF_vars(CliExits(j))
    /\ \A p \in Pods : SF_vars(Count(p))

-----------------------------------------------------------------------------
(* Properties.                                                             *)

\* A project never has two active jobs, however many pods and requests race
\* (the promise of the partial unique index jobs_one_active_per_project).
OneActiveJobPerProject ==
    \A j, k \in Jobs : Active(j) /\ Active(k) /\ owner[j] = owner[k] => j = k

\* count-then-claim: the cap is exceeded by at most one job per further pod
\* (the comment in run_loop), whatever crashes between the two statements.
OverCapAtMostPodsMinusOne ==
    Cardinality(Running) <= Cap + Cardinality(Pods) - 1

\* A baseline is evidence: it belongs to a job of the project that succeeded,
\* had its input captured before it ran, and carries an epoch the project
\* reached, even when workers are reconciled while they still run (finish and
\* promotion are one guarded transaction).
BaselineIsEvidence ==
    \A pr \in Projects :
        LET b == baseline[pr] IN
        b # NoJob =>
            /\ owner[b] = pr /\ status[b] = "succeeded"
            /\ type[b] \in FreezingTypes /\ captured[b]
            /\ 0 < snapEpoch[b] /\ snapEpoch[b] <= epoch[pr]

\* The fourth condition of the citation guard: a baseline of the current epoch
\* stands for the artifacts on disk, until a pod has lost the database.  A run
\* that failed, was cancelled or died has moved the epoch before it could write.
OutputIsOfTheBaseline ==
    \A pr \in Projects :
        LET b == baseline[pr] IN
        b # NoJob /\ snapEpoch[b] = epoch[pr] => out[pr] = [job |-> b, complete |-> TRUE]

CurrentBaselineMatchesOutput == outages = 0 => OutputIsOfTheBaseline

\* A job cancelled before it started leaves no trace: no snapshot, no epoch
\* bump, no spawn (R2-09).  Its status says cancelled, no run result does.
CancelledBeforeStartLeavesNoTrace ==
    \A j \in Jobs :
        status[j] = "cancelled" /\ res[j] # "cancelled" =>
            ~captured[j] /\ stage[j] \in {"none", "gone"}

\* A test run closes with its job, however the job ended (R2-12): the
\* workbench polls as long as finished_at is null.
TestRunClosesWithItsJob ==
    \A j \in Jobs : status[j] \in TerminalStatuses => ~runOpen[j]

\* A baseline moves only in the step that turns its job from running into
\* succeeded: a result that arrives after the row was reconciled is discarded
\* with its promotion (R1-77).
PromotionIsASuccess ==
    [][\A pr \in Projects :
         baseline'[pr] # baseline[pr] =>
             /\ status[baseline'[pr]] = "running"
             /\ status'[baseline'[pr]] = "succeeded"]_vars

\* reconcile_stale: "Running jobs whose heartbeat stopped ~1 minute ago are
\* dead workers" - until a pod has lost the database.
OnlyDeadWorkersAreReconciled ==
    [][\A j \in Jobs :
         outages = 0 /\ status[j] = "running" /\ status'[j] = "failed(interrupted)"
             => stage[j] = "gone"]_vars

\* A running row that should end does: when it is cancelled its watcher sees the
\* flag and the subprocess is ended, and when its executor is gone, whether or not
\* it was cancelled, it is reconciled, so that the project can queue another job.
StuckRowsEnd ==
    \A j \in Jobs :
        status[j] = "running" /\ (flag[j] \/ stage[j] = "gone") ~> status[j] \in TerminalStatuses

\* No queued job waits for ever, if the runs before it end.
QueueDrains ==
    RunsEnd => \A j \in Jobs : status[j] = "queued" ~> status[j] # "queued"

-----------------------------------------------------------------------------
\* The rows implement the lifecycle the queue promises, through every crash,
\* outage and late result.
Lifecycle == INSTANCE JobLifecycle
             WITH Projects <- Projects, NoProject <- NoProject, MaxJobs <- MaxJobs,
                  status <- status, owner <- owner, baseline <- baseline

ImplementsLifecycle == Lifecycle!LifecycleSpec
=============================================================================
