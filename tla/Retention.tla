----------------------------- MODULE Retention -----------------------------
(***************************************************************************)
(* What the daily sweep and the runner reclaim (services/retention.py, the *)
(* loop of main.py): logs and start snapshots of jobs past their window,   *)
(* and all but the newest update_output directories.  The jobs go on being *)
(* those of JobLifecycle while a sweep is under way, and a worker may go on*)
(* for a job that has been reconciled.                                     *)
(***************************************************************************)
EXTENDS JobLifecycle, SequencesExt

CONSTANTS
    SucceededDays,  \* job_log_retention_days
    FailedDays,     \* job_log_failed_retention_days
    KeepLatest      \* update_output_keep_latest

ASSUME RetentionAssumption == SucceededDays \in Nat /\ FailedDays \in Nat /\ KeepLatest \in Nat

VARIABLES
    ran,        \* what each job was claimed as: "none", "index", "update" or "test_run"
    worker,     \* how far the executor of each job is
    age,        \* days since each job finished, up to one past the longest window
    startRow,   \* the job has its `start` snapshot
    logFile,    \* the job has its log
    updates,    \* the update_output directories of each project, oldest first
    sweep       \* the sweep [ph, doomed]

retentionVars == <<ran, worker, age, startRow, logFile, updates, sweep>>

MaxAge == (IF SucceededDays > FailedDays THEN SucceededDays ELSE FailedDays) + 1
NoSweep == [ph |-> "idle", doomed |-> {}]
Ingests == {"index", "update"}
Working == {"claimed", "captured", "spawned", "merging"}

RetentionInit ==
    /\ LifecycleInit
    /\ ran = [j \in Jobs |-> "none"] /\ worker = [j \in Jobs |-> "none"]
    /\ age = [j \in Jobs |-> 0]
    /\ startRow = [j \in Jobs |-> FALSE]
    /\ logFile = [j \in Jobs |-> FALSE]
    /\ updates = [pr \in Projects |-> <<>>]
    /\ sweep = NoSweep

-----------------------------------------------------------------------------
(* The jobs.  Past the claim the executor does not look at the row again    *)
(* until it finishes.                                                       *)

Reaches(j, stage) == worker' = [worker EXCEPT ![j] = stage]

ClaimRun(j, type) ==
    /\ Start(j) /\ Reaches(j, "claimed")
    /\ ran' = [ran EXCEPT ![j] = type]
    /\ UNCHANGED <<age, startRow, logFile, updates, sweep>>

\* capture_start, in a transaction of its own.
CaptureRun(j) ==
    /\ worker[j] = "claimed" /\ ran[j] \in Ingests /\ Reaches(j, "captured")
    /\ startRow' = [startRow EXCEPT ![j] = TRUE]
    /\ UNCHANGED <<ran, age, logFile, updates, sweep, lifecycleVars>>

\* IndexRunner opens the log ...
SpawnRun(j) ==
    /\ worker[j] = "captured" /\ Reaches(j, "spawned")
    /\ logFile' = [logFile EXCEPT ![j] = TRUE]
    /\ UNCHANGED <<ran, age, startRow, updates, sweep, lifecycleVars>>

\* ... and graphrag makes the timestamp directory of an update.
MakeDirectory(j) ==
    /\ worker[j] = "spawned" /\ ran[j] = "update" /\ Reaches(j, "merging")
    /\ updates' = [updates EXCEPT ![owner[j]] = Append(@, j)]
    /\ UNCHANGED <<ran, age, startRow, logFile, sweep, lifecycleVars>>

\* A run fails or is cancelled wherever it is, and succeeds at the end.
Complete(j) == worker[j] = [index |-> "spawned", update |-> "merging", test_run |-> "claimed"][ran[j]]

Reports(j, s) ==
    /\ worker[j] \in Working /\ (s = "succeeded" => Complete(j))
    /\ Reaches(j, IF ran[j] = "update" /\ s = "succeeded" THEN "pruning" ELSE "over")
    /\ UNCHANGED <<ran, age, startRow, logFile, updates, sweep>>

\* A promotion copies the start snapshot, and there is none without it.
EndRun(j, s) ==
    /\ Reports(j, s) /\ Conclude(j, s)
    /\ baseline' # baseline => startRow[j] /\ ran[j] \in Ingests

\* The result for a job that has been reconciled is discarded.
DiscardResult(j, s) ==
    Reports(j, s) /\ status[j] \in TerminalStatuses /\ UNCHANGED lifecycleVars

WorkerDies(j) ==
    /\ worker[j] \in Working \cup {"pruning"} /\ Reaches(j, "over")
    /\ UNCHANGED <<ran, age, startRow, logFile, updates, sweep, lifecycleVars>>

\* reconcile_stale ends a job without heartbeats, whether its worker has died or not.
Reconcile(j) ==
    Conclude(j, "failed(interrupted)") /\ UNCHANGED <<baseline, retentionVars>>

\* Jobs are numbered as they are queued.
QueueRun ==
    \E j \in Jobs, pr \in Projects :
        /\ \A i \in 1..(j - 1) : status[i] # "absent"
        /\ Submit(j, pr) /\ UNCHANGED retentionVars

CancelQueuedRun == \E j \in Jobs : Withdraw(j) /\ UNCHANGED retentionVars

\* A sweep takes less than a day.
PassDay ==
    /\ sweep = NoSweep
    /\ age' = [j \in Jobs |-> IF status[j] \in TerminalStatuses /\ age[j] < MaxAge THEN age[j] + 1 ELSE age[j]]
    /\ UNCHANGED <<ran, worker, startRow, logFile, updates, sweep, lifecycleVars>>

-----------------------------------------------------------------------------
(* The sweep *)

WindowOf(s) == IF s = "succeeded" THEN SucceededDays ELSE FailedDays

Expired(j) == status[j] \in TerminalStatuses /\ age[j] > WindowOf(status[j])

\* sweep_job_logs: the jobs are selected, a thread unlinks their logs.
BeginSweep ==
    /\ sweep = NoSweep
    /\ sweep' = [ph |-> "logs", doomed |-> {j \in Jobs : Expired(j)}]
    /\ UNCHANGED <<ran, worker, age, startRow, logFile, updates, lifecycleVars>>

UnlinkLogs ==
    /\ sweep.ph = "logs"
    /\ logFile' = [j \in Jobs |-> logFile[j] /\ j \notin sweep.doomed]
    /\ sweep' = [ph |-> "rows", doomed |-> {}]
    /\ UNCHANGED <<ran, worker, age, startRow, updates, lifecycleVars>>

\* Mutant: the jobs behind the baselines are swept like any other.
Unprotected == {}

\* The jobs behind every current baseline.
Protected == {baseline[pr] : pr \in Projects}

\* sweep_index_snapshots: ids first, then the deletion, committed for both status
\* groups at once.
SelectRows ==
    /\ sweep.ph = "rows"
    /\ sweep' = [ph |-> "delete", doomed |-> {j \in Jobs : startRow[j] /\ Expired(j)} \ Protected]
    /\ UNCHANGED <<ran, worker, age, startRow, logFile, updates, lifecycleVars>>

DeleteRows ==
    /\ sweep.ph = "delete"
    /\ startRow' = [j \in Jobs |-> startRow[j] /\ j \notin sweep.doomed]
    /\ sweep' = [ph |-> "prune", doomed |-> {}]
    /\ UNCHANGED <<ran, worker, age, logFile, updates, lifecycleVars>>

\* prune_update_output: timestamps sort as the runs began.
Newest(dirs) == SubSeq(dirs, IF Len(dirs) > KeepLatest THEN Len(dirs) - KeepLatest + 1 ELSE 1, Len(dirs))

PruneAll ==
    /\ sweep.ph = "prune"
    /\ updates' = [pr \in Projects |-> Newest(updates[pr])]
    /\ sweep' = NoSweep
    /\ UNCHANGED <<ran, worker, age, startRow, logFile, lifecycleVars>>

\* A sweep that fails or is cancelled at shutdown leaves the rest to the next one.
SweepStops ==
    /\ sweep # NoSweep
    /\ sweep' = NoSweep
    /\ UNCHANGED <<ran, worker, age, startRow, logFile, updates, lifecycleVars>>

\* The runner prunes after an update that succeeded, recorded or not.
PruneAfterUpdate(j) ==
    /\ worker[j] = "pruning" /\ Reaches(j, "over")
    /\ updates' = [updates EXCEPT ![owner[j]] = Newest(@)]
    /\ UNCHANGED <<ran, age, startRow, logFile, sweep, lifecycleVars>>

RetentionNext ==
    \/ QueueRun \/ CancelQueuedRun \/ PassDay
    \/ \E j \in Jobs :
        \/ \E type \in Ingests \cup {"test_run"} : ClaimRun(j, type)
        \/ CaptureRun(j) \/ SpawnRun(j) \/ MakeDirectory(j)
        \/ \E s \in {"succeeded", "failed", "cancelled"} : EndRun(j, s) \/ DiscardResult(j, s)
        \/ WorkerDies(j) \/ Reconcile(j)
        \/ PruneAfterUpdate(j)
    \/ BeginSweep \/ UnlinkLogs \/ SelectRows \/ DeleteRows \/ PruneAll \/ SweepStops

RetentionSpec == RetentionInit /\ [][RetentionNext]_<<retentionVars, lifecycleVars>>

RetentionTypeOK ==
    /\ ran \in [Jobs -> Ingests \cup {"none", "test_run"}]
    /\ worker \in [Jobs -> Working \cup {"none", "pruning", "over"}]
    /\ age \in [Jobs -> 0..MaxAge]
    /\ startRow \in [Jobs -> BOOLEAN] /\ logFile \in [Jobs -> BOOLEAN]
    /\ \A pr \in Projects : updates[pr] \in Seq(Jobs)
    /\ sweep.ph \in {"idle", "logs", "rows", "delete", "prune"} /\ sweep.doomed \subseteq Jobs

\* The worker of a job that has ended made its directory after j.
Overtaken(j) ==
    \E i, k \in DOMAIN updates[owner[j]] :
        i < k /\ updates[owner[j]][i] = j /\ status[updates[owner[j]][k]] \in TerminalStatuses

BaselinesHaveEvidence == \A pr \in Projects : baseline[pr] # NoJob => startRow[baseline[pr]]

EvidenceRemains ==
    \A j \in Jobs : ~Expired(j) =>
        /\ startRow[j] => startRow'[j]
        /\ logFile[j] => logFile'[j]
        /\ KeepLatest > 0 /\ status[j] = "running" /\ Contains(updates[owner[j]], j) =>
              Contains(updates'[owner[j]], j) \/ Overtaken(j)

\* Wherever a sweep is when jobs start, end and are promoted: the start snapshot behind
\* a current baseline stays for good, and no step removes the start snapshot or the log
\* of a job that has not ended or is within its window, nor - if directories are kept at
\* all - the directory of an update that is running.  Only a worker that outlives its row
\* costs its successor the directory.
EvidenceIsKept ==
    [][BaselinesHaveEvidence' /\ EvidenceRemains]_<<retentionVars, lifecycleVars>>
=============================================================================
