--------------------------- MODULE JobQueueProofs ---------------------------
(***************************************************************************)
(* Theorems about the job queue, for every number of projects, pods, jobs, *)
(* crashes and outages.                                                    *)
(***************************************************************************)
EXTENDS JobQueue, FiniteSetTheorems, TLAPS

-----------------------------------------------------------------------------
(* Types.  TypeOK is not inductive: an executor that has ended must have a  *)
(* result to write, and a job that has been inserted must have a project.   *)

RowsOK ==
    \A j \in Jobs :
        /\ status[j] # "absent" => owner[j] \in Projects
        /\ status[j] \in {"absent", "queued"} => stage[j] = "none"
        /\ stage[j] # "none" => worker[j] \in Pods
        /\ stage[j] = "ended" => res[j] \in Results

TypeInv == TypeOK /\ RowsOK

LEMMA InitTypeInv == Init => TypeInv
BY DEF Init, TypeInv, TypeOK, RowTypes, SnapshotTypes, OutputTypes, ExecutorTypes,
       LoopTypes, PodTypes, RowsOK, Stages

\* A group of variables that does not change keeps its types.
LEMMA TypeFrame ==
    ASSUME TypeOK
    PROVE  /\ UNCHANGED rowVars => RowTypes'
           /\ UNCHANGED snapVars => SnapshotTypes'
           /\ UNCHANGED out => OutputTypes'
           /\ UNCHANGED execVars => ExecutorTypes'
           /\ UNCHANGED loopVars => LoopTypes'
           /\ UNCHANGED envVars => PodTypes'
           /\ UNCHANGED <<rowVars, execVars>> /\ RowsOK => RowsOK'
BY DEF TypeOK, RowTypes, SnapshotTypes, OutputTypes, ExecutorTypes, LoopTypes, PodTypes,
       RowsOK, rowVars, snapVars, execVars, loopVars, envVars

\* The terminal write keeps the types of the rows.
LEMMA CloseTypes ==
    ASSUME RowTypes, NEW j \in Jobs, NEW s \in TerminalStatuses, Close(j, s)
    PROVE  RowTypes'
BY DEF Close, RowTypes

LEMMA TypeStep ==
    ASSUME TypeInv, [Next]_vars
    PROVE  TypeInv'
<1> USE TypeFrame DEF TypeInv, TypeOK
<1>1. ASSUME NEW pr \in Projects, NEW t \in Types, Insert(pr, t)
      PROVE  TypeInv'
  <2>1. RowTypes'
    BY <1>1, TypesAssumption DEF Insert, RowTypes, ActiveStatuses
  <2>2. RowsOK'
    BY <1>1 DEF Insert, RowsOK, RowTypes, execVars
  <2> QED BY <1>1, <2>1, <2>2 DEF Insert
<1>2. ASSUME NEW j \in Jobs, CancelQueued(j)
      PROVE  TypeInv'
  <2>1. RowTypes'
    BY <1>2 DEF CancelQueued, RowTypes, TerminalStatuses
  <2>2. RowsOK'
    BY <1>2 DEF CancelQueued, NotStarted, RowsOK, RowTypes, execVars
  <2> QED BY <1>2, <2>1, <2>2 DEF CancelQueued
<1>3. ASSUME NEW j \in Jobs, CancelRunning(j)
      PROVE  TypeInv'
  <2>1. RowTypes'
    BY <1>3 DEF CancelRunning, RowTypes
  <2>2. RowsOK'
    BY <1>3 DEF CancelRunning, RowsOK, execVars
  <2> QED BY <1>3, <2>1, <2>2 DEF CancelRunning
<1>4. ASSUME NEW p \in Pods, ReconcileScan(p)
      PROVE  TypeInv'
  <2>1. LoopTypes'
    BY <1>4 DEF ReconcileScan, LoopTypes, Stale, Running
  <2> QED BY <1>4, <2>1 DEF ReconcileScan
<1>5. ASSUME NEW p \in Pods, NEW j \in Jobs, ReconcileOne(p, j)
      PROVE  TypeInv'
  <2>1. RowTypes' /\ RowsOK'
    <3>1. CASE Close(j, "failed(interrupted)") /\ TerminalWriteMatches(j)
      <4>1. RowTypes'
        BY <3>1, CloseTypes DEF TerminalStatuses
      <4>2. RowsOK'
        BY <1>5, <3>1 DEF ReconcileOne, Close, TerminalWriteMatches, Active, ActiveStatuses,
           RowsOK, RowTypes, execVars
      <4> QED BY <4>1, <4>2
    <3>2. CASE UNCHANGED rowVars
      BY <1>5, <3>2 DEF ReconcileOne
    <3> QED BY <1>5, <3>1, <3>2 DEF ReconcileOne
  <2>2. LoopTypes'
    BY <1>5 DEF ReconcileOne, LoopTypes
  <2> QED BY <1>5, <2>1, <2>2 DEF ReconcileOne
<1>6. ASSUME NEW p \in Pods, Count(p) \/ ClaimNothing(p)
      PROVE  TypeInv'
  <2>1. LoopTypes'
    BY <1>6 DEF Count, ClaimNothing, LoopTypes
  <2> QED BY <1>6, <2>1 DEF Count, ClaimNothing
<1>7. ASSUME NEW p \in Pods, Claim(p)
      PROVE  TypeInv'
  <2>1. PICK j \in Queued :
          /\ status' = [status EXCEPT ![j] = "running"]
          /\ worker' = [worker EXCEPT ![j] = p]
          /\ fresh' = [fresh EXCEPT ![j] = TRUE]
          /\ stage' = [stage EXCEPT ![j] = "claimed"]
    BY <1>7 DEF Claim
  <2>2. RowTypes'
    BY <1>7, <2>1 DEF Claim, RowTypes, ActiveStatuses
  <2>3. ExecutorTypes'
    BY <1>7, <2>1 DEF Claim, ExecutorTypes, Stages
  <2>4. RowsOK'
    BY <1>7, <2>1 DEF Claim, Queued, RowsOK, RowTypes, ExecutorTypes
  <2>5. LoopTypes'
    BY <1>7 DEF Claim, LoopTypes
  <2> QED BY <1>7, <2>2, <2>3, <2>4, <2>5 DEF Claim
<1>8. ASSUME NEW p \in Pods, NEW j \in Jobs, SpawnTask(p, j)
      PROVE  TypeInv'
  <2>1. ExecutorTypes' /\ LoopTypes' /\ RowsOK'
    BY <1>8 DEF SpawnTask, ExecutorTypes, LoopTypes, RowsOK, Stages, rowVars
  <2> QED BY <1>8, <2>1 DEF SpawnTask
<1>9. ASSUME NEW p \in Pods, IterationFails(p)
      PROVE  TypeInv'
  <2>1. ExecutorTypes' /\ RowsOK'
    BY <1>9 DEF IterationFails, ExecutorTypes, RowsOK, Stages, rowVars
  <2>2. LoopTypes'
    BY <1>9 DEF IterationFails, LoopTypes
  <2> QED BY <1>9, <2>1, <2>2 DEF IterationFails
<1>10. ASSUME NEW j \in Jobs, BeginFinished(j) \/ Begin(j) \/ BeginFails(j) \/ Spawn(j)
               \/ FinishDiscarded(j) \/ FinishFails(j)
       PROVE  TypeInv'
  <2>1. ExecutorTypes'
    BY <1>10 DEF BeginFinished, Begin, BeginFails, Spawn, FinishDiscarded, FinishFails,
       ExecutorTypes, Stages
  <2>2. RowsOK'
    BY <1>10 DEF BeginFinished, Begin, BeginFails, Spawn, FinishDiscarded, FinishFails,
       ExecutorTypes, RowsOK, rowVars
  <2> QED BY <1>10, <2>1, <2>2
          DEF BeginFinished, Begin, BeginFails, Spawn, FinishDiscarded, FinishFails
<1>11. ASSUME NEW j \in Jobs, BeginCancelled(j)
       PROVE  TypeInv'
  <2>1. RowTypes'
    BY <1>11, CloseTypes DEF BeginCancelled, TerminalStatuses
  <2>2. ExecutorTypes'
    BY <1>11 DEF BeginCancelled, ExecutorTypes, Stages
  <2>3. RowsOK'
    BY <1>11 DEF BeginCancelled, Close, ExecutorTypes, RowTypes, RowsOK
  <2> QED BY <1>11, <2>1, <2>2, <2>3 DEF BeginCancelled
<1>12. ASSUME NEW j \in Jobs, CaptureStart(j)
       PROVE  TypeInv'
  <2>1. SnapshotTypes' /\ ExecutorTypes' /\ RowsOK'
    BY <1>12 DEF CaptureStart, SnapshotTypes, ExecutorTypes, Stages, RowsOK, rowVars
  <2> QED BY <1>12, <2>1 DEF CaptureStart
<1>13. ASSUME NEW j \in Jobs, BumpArtifactEpoch(j)
       PROVE  TypeInv'
  <2>1. owner[j] \in Projects
    BY <1>13 DEF BumpArtifactEpoch, RowsOK
  <2>2. SnapshotTypes' /\ ExecutorTypes' /\ RowsOK'
    BY <1>13, <2>1 DEF BumpArtifactEpoch, NextEpoch, SnapshotTypes, ExecutorTypes, Stages,
       RowsOK, rowVars
  <2> QED BY <1>13, <2>2 DEF BumpArtifactEpoch
<1>14. ASSUME NEW j \in Jobs, StepFails(j)
       PROVE  TypeInv'
  <2>1. ExecutorTypes' /\ RowsOK'
    BY <1>14 DEF StepFails, ExecutorTypes, Stages, Results, RowsOK, rowVars
  <2> QED BY <1>14, <2>1 DEF StepFails
<1>15. ASSUME NEW j \in Jobs, CliWrites(j)
       PROVE  TypeInv'
  <2>1. OutputTypes'
    BY <1>15 DEF CliWrites, OutputTypes
  <2> QED BY <1>15, <2>1 DEF CliWrites
<1>16. ASSUME NEW j \in Jobs, CliExits(j)
       PROVE  TypeInv'
  <2>1. OutputTypes'
    <3>1. CASE out' = [out EXCEPT ![owner[j]] = [job |-> j, complete |-> TRUE]]
      BY <3>1 DEF OutputTypes
    <3> QED BY <1>16, <3>1 DEF CliExits
  <2>2. ExecutorTypes'
    BY <1>16 DEF CliExits, ExecutorTypes, Stages, Results
  <2>3. RowsOK'
    BY <1>16 DEF CliExits, ExecutorTypes, RowsOK, Results, rowVars
  <2> QED BY <1>16, <2>1, <2>2, <2>3 DEF CliExits
<1>17. ASSUME NEW j \in Jobs, TestRunEnds(j)
       PROVE  TypeInv'
  <2>1. RowTypes'
    BY <1>17 DEF TestRunEnds, RowTypes
  <2>2. ExecutorTypes'
    BY <1>17 DEF TestRunEnds, ExecutorTypes, Stages, Results
  <2>3. RowsOK'
    BY <1>17 DEF TestRunEnds, ExecutorTypes, RowsOK, Results
  <2> QED BY <1>17, <2>1, <2>2, <2>3 DEF TestRunEnds
<1>18. ASSUME NEW j \in Jobs, Finish(j)
       PROVE  TypeInv'
  <2>1. owner[j] \in Projects /\ res[j] \in Results
    BY <1>18 DEF Finish, RowsOK
  <2>2. RowTypes'
    BY <1>18, <2>1, CloseTypes DEF Finish, Results, TerminalStatuses
  <2>3. SnapshotTypes'
    BY <1>18, <2>1 DEF Finish, Promote, SnapshotTypes
  <2>4. ExecutorTypes'
    BY <1>18 DEF Finish, ExecutorTypes, Stages
  <2>5. RowsOK'
    BY <1>18, <2>1 DEF Finish, Close, ExecutorTypes, RowTypes, RowsOK, Results
  <2> QED BY <1>18, <2>2, <2>3, <2>4, <2>5 DEF Finish
<1>19. ASSUME NEW j \in Jobs, Beat(j) \/ PollCancel(j) \/ Expire(j)
       PROVE  TypeInv'
  <2>1. RowTypes' /\ ExecutorTypes'
    BY <1>19 DEF Beat, PollCancel, Expire, FlagRead, RowTypes, ExecutorTypes, rowVars, execVars
  <2>2. RowsOK'
    BY <1>19 DEF Beat, PollCancel, Expire, RowsOK, rowVars, execVars
  <2> QED BY <1>19, <2>1, <2>2 DEF Beat, PollCancel, Expire
<1>20. ASSUME NEW p \in Pods, Crash(p)
       PROVE  TypeInv'
  <2>1. ExecutorTypes' /\ RowsOK'
    BY <1>20 DEF Crash, Executing, ExecutorTypes, Stages, RowsOK, rowVars
  <2>2. LoopTypes' /\ PodTypes'
    BY <1>20 DEF Crash, LoopTypes, PodTypes
  <2> QED BY <1>20, <2>1, <2>2 DEF Crash
<1>21. ASSUME NEW p \in Pods, Restart(p) \/ LoseDatabase(p) \/ RegainDatabase(p)
       PROVE  TypeInv'
  <2>1. PodTypes'
    <3>1. CASE Restart(p)
      BY <3>1 DEF Restart, PodTypes
    <3>2. CASE LoseDatabase(p)
      BY <3>2 DEF LoseDatabase, PodTypes
    <3>3. CASE RegainDatabase(p)
      BY <3>3 DEF RegainDatabase, PodTypes
    <3> QED BY <1>21, <3>1, <3>2, <3>3
  <2> QED BY <1>21, <2>1 DEF Restart, LoseDatabase, RegainDatabase
<1>22. CASE UNCHANGED vars
  BY <1>22 DEF vars
<1> QED
  BY <1>1, <1>2, <1>3, <1>4, <1>5, <1>6, <1>7, <1>8, <1>9, <1>10, <1>11, <1>12, <1>13,
     <1>14, <1>15, <1>16, <1>17, <1>18, <1>19, <1>20, <1>21, <1>22
  DEF Next, Request, Enqueue, EnqueueRun, LoopStep, ExecutorStep, RunStep, Environment

LEMMA TypeInvariant == Spec => []TypeInv
BY InitTypeInv, TypeStep, PTL DEF Spec

\* Every variable of the queue keeps its type, whatever crashes.
THEOREM TypeCorrect == Spec => []TypeOK
BY TypeInvariant, PTL DEF TypeInv

-----------------------------------------------------------------------------
(* What a step does to the rows.                                            *)

\* The statuses, the owners and the baselines stay; reconciliation selects
\* running jobs only.
Quiet ==
    /\ UNCHANGED <<status, type, owner, baseline, snapEpoch>>
    /\ \A p \in Pods : pending'[p] \subseteq pending[p] \cup Running

\* Only these steps write a status or move a baseline.
LEMMA RowSteps ==
    ASSUME TypeInv, [Next]_vars
    PROVE  \/ \E pr \in Projects, t \in Types : Insert(pr, t)
           \/ \E j \in Jobs : CancelQueued(j) \/ BeginCancelled(j) \/ Finish(j)
           \/ \E p \in Pods : Claim(p)
           \/ \E p \in Pods, j \in Jobs : ReconcileOne(p, j) /\ TerminalWriteMatches(j)
           \/ Quiet
<1> USE DEF rowVars, snapVars, loopVars, Quiet
<1>1. ASSUME NEW j \in Jobs, CancelRunning(j)
      PROVE  Quiet
  BY <1>1 DEF CancelRunning
<1>2. ASSUME NEW p \in Pods,
             ReconcileScan(p) \/ IterationFails(p) \/ Crash(p)
      PROVE  Quiet
  BY <1>2 DEF ReconcileScan, IterationFails, Crash, TypeInv, TypeOK, LoopTypes, Stale
<1>3. ASSUME NEW p \in Pods, NEW j \in Jobs, ReconcileOne(p, j), ~TerminalWriteMatches(j)
      PROVE  Quiet
  BY <1>3 DEF ReconcileOne, TypeInv, TypeOK, LoopTypes
<1>4. ASSUME NEW p \in Pods, Count(p) \/ ClaimNothing(p) \/ Restart(p)
             \/ LoseDatabase(p) \/ RegainDatabase(p)
      PROVE  Quiet
  BY <1>4 DEF Count, ClaimNothing, Restart, LoseDatabase, RegainDatabase
<1>5. ASSUME NEW p \in Pods, NEW j \in Jobs, SpawnTask(p, j)
      PROVE  Quiet
  BY <1>5 DEF SpawnTask
<1>6. ASSUME NEW j \in Jobs,
             BeginFinished(j) \/ Begin(j) \/ BeginFails(j) \/ Spawn(j) \/ StepFails(j)
             \/ FinishDiscarded(j) \/ FinishFails(j)
      PROVE  Quiet
  BY <1>6 DEF BeginFinished, Begin, BeginFails, Spawn, StepFails, FinishDiscarded, FinishFails
<1>7. ASSUME NEW j \in Jobs, CaptureStart(j) \/ BumpArtifactEpoch(j)
      PROVE  Quiet
  BY <1>7 DEF CaptureStart, BumpArtifactEpoch
<1>8. ASSUME NEW j \in Jobs, CliWrites(j) \/ CliExits(j) \/ TestRunEnds(j)
      PROVE  Quiet
  BY <1>8 DEF CliWrites, CliExits, TestRunEnds
<1>9. ASSUME NEW j \in Jobs, Beat(j) \/ PollCancel(j) \/ Expire(j)
      PROVE  Quiet
  BY <1>9 DEF Beat, PollCancel, Expire
<1>10. CASE UNCHANGED vars
  BY <1>10 DEF vars
<1> QED
  BY <1>1, <1>2, <1>3, <1>4, <1>5, <1>6, <1>7, <1>8, <1>9, <1>10
  DEF Next, Request, Enqueue, EnqueueRun, LoopStep, ExecutorStep, RunStep, Environment

\* A job that reconciliation has selected has been started.
PendingStarted ==
    \A p \in Pods : \A j \in pending[p] : status[j] \notin {"absent", "queued"}

LEMMA PendingStep ==
    ASSUME TypeInv, PendingStarted, [Next]_vars
    PROVE  PendingStarted'
<1> USE DEF PendingStarted, TypeInv, TypeOK, RowTypes, LoopTypes
<1>1. ASSUME NEW pr \in Projects, NEW t \in Types, Insert(pr, t)
      PROVE  PendingStarted'
  BY <1>1 DEF Insert, loopVars
<1>2. ASSUME NEW j \in Jobs, CancelQueued(j)
      PROVE  PendingStarted'
  BY <1>2 DEF CancelQueued, loopVars
<1>3. ASSUME NEW j \in Jobs, BeginCancelled(j)
      PROVE  PendingStarted'
  BY <1>3 DEF BeginCancelled, Close, loopVars
<1>4. ASSUME NEW j \in Jobs, Finish(j)
      PROVE  PendingStarted'
  BY <1>4 DEF Finish, Close, loopVars, RowsOK, Results
<1>5. ASSUME NEW p \in Pods, Claim(p)
      PROVE  PendingStarted'
  BY <1>5 DEF Claim
<1>6. ASSUME NEW p \in Pods, NEW j \in Jobs, ReconcileOne(p, j), TerminalWriteMatches(j)
      PROVE  PendingStarted'
  BY <1>6 DEF ReconcileOne, Close
<1>7. CASE Quiet
  BY <1>7 DEF Quiet, Running
<1> QED BY RowSteps, <1>1, <1>2, <1>3, <1>4, <1>5, <1>6, <1>7

LEMMA PendingInvariant == Spec => [](TypeInv /\ PendingStarted)
<1>1. Init => PendingStarted
  BY DEF Init, PendingStarted
<1>2. TypeInv /\ PendingStarted /\ [Next]_vars => PendingStarted'
  BY PendingStep
<1> QED BY <1>1, <1>2, TypeInvariant, PTL DEF Spec

-----------------------------------------------------------------------------
(* The queue implements the lifecycle.                                      *)

\* Jobs, NoJob and the statuses mean the same in both modules.
LEMMA SameWords ==
    /\ Lifecycle!Jobs = Jobs /\ Lifecycle!NoJob = NoJob
    /\ Lifecycle!ActiveStatuses = ActiveStatuses
    /\ Lifecycle!TerminalStatuses = TerminalStatuses
BY DEF Lifecycle!Jobs, Jobs, Lifecycle!NoJob, NoJob, Lifecycle!ActiveStatuses, ActiveStatuses,
       Lifecycle!TerminalStatuses, TerminalStatuses

LEMMA LifecycleStep ==
    ASSUME TypeInv, PendingStarted, [Next]_vars
    PROVE  [Lifecycle!LifecycleNext]_(Lifecycle!lifecycleVars)
<1> USE SameWords DEF Lifecycle!LifecycleNext
<1>1. ASSUME NEW pr \in Projects, NEW t \in Types, Insert(pr, t)
      PROVE  Lifecycle!LifecycleNext
  <2>1. PICK j \in Jobs :
          /\ status[j] = "absent"
          /\ status' = [status EXCEPT ![j] = "queued"]
          /\ owner' = [owner EXCEPT ![j] = pr]
    BY <1>1 DEF Insert
  <2>2. Lifecycle!Submit(j, pr)
    BY <1>1, <2>1 DEF Insert, Lifecycle!Submit, Lifecycle!InFlight, UniqueIndexAdmits,
       ActiveOn, Active, snapVars
  <2> QED BY <2>2
<1>2. ASSUME NEW j \in Jobs, CancelQueued(j)
      PROVE  Lifecycle!LifecycleNext
  BY <1>2 DEF CancelQueued, NotStarted, Lifecycle!Withdraw, snapVars
<1>3. ASSUME NEW j \in Jobs, BeginCancelled(j)
      PROVE  Lifecycle!LifecycleNext
  <2>1. Lifecycle!Conclude(j, "cancelled")
    BY <1>3 DEF BeginCancelled, Close, Lifecycle!Conclude, snapVars
  <2> QED BY <2>1 DEF TerminalStatuses
<1>4. ASSUME NEW j \in Jobs, Finish(j)
      PROVE  Lifecycle!LifecycleNext
  <2>1. res[j] \in TerminalStatuses
    BY <1>4 DEF Finish, TypeInv, RowsOK, Results, TerminalStatuses
  <2>2. status[j] = "running"
    BY <1>4 DEF Finish, TerminalWriteMatches, Active, ActiveStatuses, TypeInv, RowsOK
  <2>3. Lifecycle!Conclude(j, res[j])
    BY <1>4, <2>2 DEF Finish, Close, Promote, Promotable, Lifecycle!Conclude, snapVars
  <2> QED BY <2>1, <2>3
<1>5. ASSUME NEW p \in Pods, Claim(p)
      PROVE  Lifecycle!LifecycleNext
  BY <1>5 DEF Claim, Queued, Lifecycle!Start, snapVars
<1>6. ASSUME NEW p \in Pods, NEW j \in Jobs, ReconcileOne(p, j), TerminalWriteMatches(j)
      PROVE  Lifecycle!LifecycleNext
  <2>1. status[j] = "running"
    BY <1>6 DEF ReconcileOne, TerminalWriteMatches, Active, ActiveStatuses, PendingStarted
  <2>2. Lifecycle!Conclude(j, "failed(interrupted)")
    BY <1>6, <2>1 DEF ReconcileOne, Close, Lifecycle!Conclude, snapVars
  <2> QED BY <2>2 DEF TerminalStatuses
<1>7. CASE Quiet
  BY <1>7 DEF Quiet, Lifecycle!lifecycleVars
<1> QED BY RowSteps, <1>1, <1>2, <1>3, <1>4, <1>5, <1>6, <1>7

\* The queue of any number of pods implements the lifecycle: crashes, outages,
\* late results and concurrent reconciliations are invisible in it.
THEOREM Refinement == Spec => ImplementsLifecycle
<1>1. Init => Lifecycle!LifecycleInit
  BY SameWords DEF Init, Lifecycle!LifecycleInit
<1> QED BY <1>1, PendingInvariant, LifecycleStep, PTL DEF Spec, ImplementsLifecycle, Lifecycle!LifecycleSpec

-----------------------------------------------------------------------------
(* Safety of the rows.                                                      *)

\* At any time at most one job of a project is queued or running.
THEOREM OneActiveJob == Spec => []OneActiveJobPerProject
<1> USE DEF OneActiveJobPerProject, Active, ActiveStatuses
<1>1. Init => OneActiveJobPerProject
  BY DEF Init
<1>2. ASSUME TypeInv, PendingStarted, OneActiveJobPerProject, [Next]_vars
      PROVE  OneActiveJobPerProject'
  <2> USE <1>2 DEF TypeInv, TypeOK, RowTypes
  <2>1. ASSUME NEW pr \in Projects, NEW t \in Types, Insert(pr, t)
        PROVE  OneActiveJobPerProject'
    BY <2>1 DEF Insert, UniqueIndexAdmits, ActiveOn
  <2>2. ASSUME NEW j \in Jobs, CancelQueued(j)
        PROVE  OneActiveJobPerProject'
    BY <2>2 DEF CancelQueued
  <2>3. ASSUME NEW j \in Jobs, BeginCancelled(j)
        PROVE  OneActiveJobPerProject'
    BY <2>3 DEF BeginCancelled, Close
  <2>4. ASSUME NEW j \in Jobs, Finish(j)
        PROVE  OneActiveJobPerProject'
    BY <2>4 DEF Finish, Close, TerminalWriteMatches
  <2>5. ASSUME NEW p \in Pods, Claim(p)
        PROVE  OneActiveJobPerProject'
    BY <2>5 DEF Claim, Queued
  <2>6. ASSUME NEW p \in Pods, NEW j \in Jobs, ReconcileOne(p, j), TerminalWriteMatches(j)
        PROVE  OneActiveJobPerProject'
    BY <2>6 DEF ReconcileOne, Close, TerminalWriteMatches
  <2>7. CASE Quiet
    BY <2>7 DEF Quiet
  <2> QED BY RowSteps, <2>1, <2>2, <2>3, <2>4, <2>5, <2>6, <2>7
<1> QED BY <1>1, <1>2, PendingInvariant, PTL DEF Spec

LEMMA PromotionStep ==
    ASSUME TypeInv, [Next]_vars, NEW pr \in Projects, baseline'[pr] # baseline[pr]
    PROVE  /\ baseline'[pr] \in Jobs
           /\ status[baseline'[pr]] = "running" /\ status'[baseline'[pr]] = "succeeded"
<1>1. PICK j \in Jobs : Finish(j)
  BY RowSteps DEF Insert, CancelQueued, BeginCancelled, Claim, ReconcileOne, Quiet, snapVars
<1>2. Promote(j)
  BY <1>1 DEF Finish, snapVars
<1>3. baseline'[pr] = j
  BY <1>2 DEF Promote, TypeInv, TypeOK, SnapshotTypes
<1>4. status[j] = "running"
  BY <1>1 DEF Finish, TerminalWriteMatches, Active, ActiveStatuses, TypeInv, RowsOK
<1>5. status'[j] = "succeeded"
  BY <1>1, <1>2 DEF Finish, Close, Promote, Promotable, TypeInv, TypeOK, RowTypes
<1> QED BY <1>3, <1>4, <1>5

\* A baseline moves only with the success of its job, never with a result
\* that comes after the row was reconciled.
THEOREM LateResultsAreDiscarded == Spec => PromotionIsASuccess
<1>1. TypeInv /\ [Next]_vars =>
        [\A pr \in Projects :
           baseline'[pr] # baseline[pr] =>
               /\ status[baseline'[pr]] = "running"
               /\ status'[baseline'[pr]] = "succeeded"]_vars
  BY PromotionStep
<1> QED BY <1>1, TypeInvariant, PTL DEF Spec, PromotionIsASuccess

-----------------------------------------------------------------------------
(* Evidence.  That a promoted baseline carries a positive epoch and a        *)
(* captured input, and that a job cancelled before its start has neither, is *)
(* decided by the order of the executor's steps.                             *)

StageOrder ==
    \A j \in Jobs :
        /\ res[j] # "none" => stage[j] \in {"ended", "gone"}
        /\ captured[j] => stage[j] \in {"captured", "bumped", "running", "ended", "gone"}
        /\ type[j] \in FreezingTypes /\ (stage[j] \in {"bumped", "running"} \/ res[j] = "succeeded")
             => 0 < epoch[owner[j]]
        /\ status[j] = "cancelled" =>
             /\ stage[j] \in {"none", "gone"}
             /\ res[j] = "cancelled" \/ ~captured[j]

LEMMA StageOrderStep ==
    ASSUME TypeInv, PendingStarted, StageOrder, [Next]_vars
    PROVE  StageOrder'
<1> USE DEF StageOrder, TypeInv, TypeOK, RowTypes, SnapshotTypes, ExecutorTypes
<1>1. ASSUME NEW pr \in Projects, NEW t \in Types, Insert(pr, t)
      PROVE  StageOrder'
  BY <1>1 DEF Insert, RowsOK, snapVars, execVars
<1>2. ASSUME NEW j \in Jobs, CancelQueued(j)
      PROVE  StageOrder'
  BY <1>2 DEF CancelQueued, NotStarted, RowsOK, snapVars, execVars
<1>3. ASSUME NEW j \in Jobs, BeginCancelled(j)
      PROVE  StageOrder'
  BY <1>3 DEF BeginCancelled, Close, snapVars
<1>4. ASSUME NEW j \in Jobs, Finish(j)
      PROVE  StageOrder'
  <2>1. UNCHANGED <<captured, epoch, type, owner, res>>
    BY <1>4 DEF Finish, Close, Promote, snapVars
  <2> QED BY <1>4, <2>1 DEF Finish, Close
<1>5. ASSUME NEW p \in Pods, Claim(p)
      PROVE  StageOrder'
  BY <1>5 DEF Claim, Queued, RowsOK, snapVars
<1>6. ASSUME NEW p \in Pods, NEW j \in Jobs, ReconcileOne(p, j)
      PROVE  StageOrder'
  BY <1>6 DEF ReconcileOne, Close, rowVars, snapVars, execVars
<1>7. ASSUME NEW j \in Jobs, CancelRunning(j) \/ CliWrites(j) \/ Beat(j) \/ PollCancel(j) \/ Expire(j)
      PROVE  StageOrder'
  BY <1>7 DEF CancelRunning, CliWrites, Beat, PollCancel, Expire, rowVars, snapVars, execVars
<1>8. ASSUME NEW p \in Pods,
             ReconcileScan(p) \/ Count(p) \/ ClaimNothing(p) \/ Restart(p)
             \/ LoseDatabase(p) \/ RegainDatabase(p)
      PROVE  StageOrder'
  BY <1>8 DEF ReconcileScan, Count, ClaimNothing, Restart, LoseDatabase, RegainDatabase,
     rowVars, snapVars, execVars
<1>9. ASSUME NEW p \in Pods, NEW j \in Jobs, SpawnTask(p, j)
      PROVE  StageOrder'
  BY <1>9 DEF SpawnTask, rowVars, snapVars
<1>10. ASSUME NEW p \in Pods, IterationFails(p) \/ Crash(p)
       PROVE  StageOrder'
  BY <1>10 DEF IterationFails, Crash, Executing, rowVars, snapVars
<1>11. ASSUME NEW j \in Jobs,
              BeginFinished(j) \/ Begin(j) \/ BeginFails(j) \/ FinishDiscarded(j) \/ FinishFails(j)
       PROVE  StageOrder'
  BY <1>11 DEF BeginFinished, Begin, BeginFails, FinishDiscarded, FinishFails, rowVars, snapVars
<1>12. ASSUME NEW j \in Jobs, Spawn(j) \/ StepFails(j)
       PROVE  StageOrder'
  BY <1>12 DEF Spawn, StepFails, rowVars, snapVars
<1>13. ASSUME NEW j \in Jobs, CaptureStart(j)
       PROVE  StageOrder'
  BY <1>13 DEF CaptureStart, rowVars
<1>14. ASSUME NEW j \in Jobs, BumpArtifactEpoch(j)
       PROVE  StageOrder'
  <2>1. owner[j] \in Projects
    BY <1>14 DEF BumpArtifactEpoch, RowsOK
  <2> QED BY <1>14, <2>1 DEF BumpArtifactEpoch, NextEpoch, rowVars
<1>15. ASSUME NEW j \in Jobs, CliExits(j)
       PROVE  StageOrder'
  BY <1>15 DEF CliExits, rowVars, snapVars
<1>16. ASSUME NEW j \in Jobs, TestRunEnds(j)
       PROVE  StageOrder'
  BY <1>16 DEF TestRunEnds, FreezingTypes, snapVars
<1>17. CASE UNCHANGED vars
  BY <1>17 DEF vars, rowVars, snapVars, execVars
<1> QED
  BY <1>1, <1>2, <1>3, <1>4, <1>5, <1>6, <1>7, <1>8, <1>9, <1>10, <1>11, <1>12, <1>13,
     <1>14, <1>15, <1>16, <1>17
  DEF Next, Request, Enqueue, EnqueueRun, LoopStep, ExecutorStep, RunStep, Environment

LEMMA StageInvariant == Spec => [](TypeInv /\ PendingStarted /\ StageOrder)
<1>1. Init => StageOrder
  BY DEF Init, StageOrder
<1> QED BY <1>1, StageOrderStep, PendingInvariant, PTL DEF Spec

\* A job cancelled before it started has no snapshot and no executor.
THEOREM CancelledBeforeStart == Spec => []CancelledBeforeStartLeavesNoTrace
<1>1. StageOrder => CancelledBeforeStartLeavesNoTrace
  BY DEF StageOrder, CancelledBeforeStartLeavesNoTrace
<1> QED BY <1>1, StageInvariant, PTL

\* Captured inputs stay captured and epochs never go back.
LEMMA SnapshotsGrow ==
    ASSUME TypeInv, [Next]_vars
    PROVE  /\ \A j \in Jobs : captured[j] => captured'[j]
           /\ \A pr \in Projects : epoch[pr] <= epoch'[pr]
<1> USE DEF TypeInv, TypeOK, SnapshotTypes
<1>1. ASSUME NEW j \in Jobs, CaptureStart(j)
      PROVE  (\A k \in Jobs : captured[k] => captured'[k]) /\ UNCHANGED epoch
  BY <1>1 DEF CaptureStart
<1>2. ASSUME NEW j \in Jobs, BumpArtifactEpoch(j)
      PROVE  UNCHANGED captured /\ \A pr \in Projects : epoch[pr] <= epoch'[pr]
  BY <1>2 DEF BumpArtifactEpoch, NextEpoch
<1>3. ASSUME NEW j \in Jobs, Finish(j)
      PROVE  UNCHANGED <<captured, epoch>>
  BY <1>3 DEF Finish, Promote, snapVars
<1>4. CASE UNCHANGED snapVars
  BY <1>4 DEF snapVars
<1>5. \/ \E j \in Jobs : CaptureStart(j) \/ BumpArtifactEpoch(j) \/ Finish(j)
      \/ UNCHANGED snapVars
  BY DEF Next, Request, Enqueue, EnqueueRun, LoopStep, ExecutorStep, RunStep, Environment, vars,
     Insert, CancelQueued, CancelRunning, ReconcileScan, ReconcileOne, Count, Claim, ClaimNothing,
     SpawnTask, IterationFails, BeginFinished, BeginCancelled, Begin, BeginFails, Spawn, StepFails,
     CliWrites, CliExits, TestRunEnds, FinishDiscarded, FinishFails, Beat, PollCancel, Expire,
     Crash, Restart, LoseDatabase, RegainDatabase
<1> QED BY <1>1, <1>2, <1>3, <1>4, <1>5

LEMMA EvidenceStep ==
    ASSUME TypeInv, StageOrder, BaselineIsEvidence, [Next]_vars
    PROVE  BaselineIsEvidence'
<1> USE DEF BaselineIsEvidence, TypeInv, TypeOK, RowTypes, SnapshotTypes
<1>1. /\ \A j \in Jobs : captured[j] => captured'[j]
      /\ \A pr \in Projects : epoch[pr] <= epoch'[pr] /\ epoch'[pr] \in Nat
  BY SnapshotsGrow, TypeStep
<1>2. ASSUME UNCHANGED <<baseline, snapEpoch>>,
             \A j \in Jobs : status[j] = "succeeded" =>
                 status'[j] = "succeeded" /\ type'[j] = type[j] /\ owner'[j] = owner[j]
      PROVE  BaselineIsEvidence'
  <2> SUFFICES ASSUME NEW pr \in Projects, baseline[pr] # NoJob
               PROVE  LET b == baseline[pr] IN
                        /\ owner'[b] = pr /\ status'[b] = "succeeded"
                        /\ type'[b] \in FreezingTypes /\ captured'[b]
                        /\ 0 < snapEpoch[b] /\ snapEpoch[b] <= epoch'[pr]
    BY <1>2
  <2>1. baseline[pr] \in Jobs
    OBVIOUS
  <2> QED BY <1>1, <1>2, <2>1
<1>3. ASSUME NEW pr \in Projects, NEW t \in Types, Insert(pr, t)
      PROVE  BaselineIsEvidence'
  BY <1>2, <1>3 DEF Insert, snapVars
<1>4. ASSUME NEW j \in Jobs, CancelQueued(j) \/ BeginCancelled(j)
      PROVE  BaselineIsEvidence'
  BY <1>2, <1>4 DEF CancelQueued, NotStarted, BeginCancelled, Close, snapVars
<1>5. ASSUME NEW j \in Jobs, Finish(j)
      PROVE  BaselineIsEvidence'
  <2>1. status[j] # "succeeded" /\ owner[j] \in Projects
    BY <1>5 DEF Finish, TerminalWriteMatches, Active, ActiveStatuses, RowsOK
  <2>2. CASE UNCHANGED snapVars
    BY <1>2, <1>5, <2>1, <2>2 DEF Finish, Close, snapVars
  <2>3. CASE Promote(j)
    <3> SUFFICES ASSUME NEW pr \in Projects, baseline'[pr] # NoJob
                 PROVE  LET b == baseline'[pr] IN
                          /\ owner'[b] = pr /\ status'[b] = "succeeded"
                          /\ type'[b] \in FreezingTypes /\ captured'[b]
                          /\ 0 < snapEpoch'[b] /\ snapEpoch'[b] <= epoch'[pr]
      OBVIOUS
    <3>1. /\ UNCHANGED <<type, owner, captured, epoch>>
          /\ status' = [status EXCEPT ![j] = "succeeded"]
      BY <1>5, <2>3 DEF Finish, Close, Promote, Promotable
    <3>2. CASE pr = owner[j]
      <4>1. baseline'[pr] = j /\ snapEpoch'[j] = epoch[pr]
        BY <2>1, <2>3, <3>2 DEF Promote
      <4>2. type[j] \in FreezingTypes /\ captured[j] /\ 0 < epoch[pr]
        BY <2>3, <3>2 DEF Promote, Promotable, StageOrder
      <4> QED BY <3>1, <3>2, <4>1, <4>2
    <3>3. CASE pr # owner[j]
      <4>1. baseline'[pr] = baseline[pr] /\ baseline[pr] \in Jobs
        BY <2>1, <2>3, <3>3 DEF Promote
      <4>2. snapEpoch'[baseline[pr]] = snapEpoch[baseline[pr]] /\ baseline[pr] # j
        BY <2>1, <2>3, <4>1 DEF Promote
      <4> QED BY <3>1, <4>1, <4>2
    <3> QED BY <3>2, <3>3
  <2> QED BY <1>5, <2>2, <2>3 DEF Finish
<1>6. ASSUME NEW p \in Pods, Claim(p)
      PROVE  BaselineIsEvidence'
  BY <1>2, <1>6 DEF Claim, Queued, snapVars
<1>7. ASSUME NEW p \in Pods, NEW j \in Jobs, ReconcileOne(p, j), TerminalWriteMatches(j)
      PROVE  BaselineIsEvidence'
  BY <1>2, <1>7 DEF ReconcileOne, Close, TerminalWriteMatches, Active, ActiveStatuses, snapVars
<1>8. CASE Quiet
  BY <1>2, <1>8 DEF Quiet
<1> QED BY RowSteps, <1>3, <1>4, <1>5, <1>6, <1>7, <1>8

\* Whatever a project's baseline is at any time, it is the record of a run of
\* that project that succeeded and had its input captured before it ran.
THEOREM EvidenceIsSound == Spec => []BaselineIsEvidence
<1>1. Init => BaselineIsEvidence
  BY DEF Init, BaselineIsEvidence
<1> QED BY <1>1, EvidenceStep, StageInvariant, PTL DEF Spec

-----------------------------------------------------------------------------
(* The cap.  A pod that has counted and not yet claimed holds a promise of   *)
(* one more running job; every pod but one can hold such a promise when the  *)
(* last one counts.                                                          *)

Claiming == {p \in Pods : loop[p] = "claiming"}

CapInv == Cardinality(Running) + Cardinality(Claiming) <= Cap + Cardinality(Pods) - 1

\* Only a count adds a promise and only a claim redeems one.
LEMMA CapSteps ==
    ASSUME TypeInv, [Next]_vars
    PROVE  \/ \E p \in Pods : Count(p) \/ Claim(p)
           \/ Running' \subseteq Running /\ Claiming' \subseteq Claiming
<1> DEFINE Shrinks == Running' \subseteq Running /\ Claiming' \subseteq Claiming
<1> USE DEF Running, Claiming, TypeInv, TypeOK, RowTypes, LoopTypes, rowVars, loopVars
<1>1. ASSUME NEW pr \in Projects, NEW t \in Types, Insert(pr, t)
      PROVE  Shrinks
  BY <1>1 DEF Insert
<1>2. ASSUME NEW j \in Jobs, CancelQueued(j) \/ CancelRunning(j)
      PROVE  Shrinks
  BY <1>2 DEF CancelQueued, CancelRunning
<1>3. ASSUME NEW p \in Pods,
             ReconcileScan(p) \/ ClaimNothing(p) \/ IterationFails(p)
             \/ \E j \in Jobs : SpawnTask(p, j)
      PROVE  Shrinks
  BY <1>3 DEF ReconcileScan, ClaimNothing, IterationFails, SpawnTask
<1>4. ASSUME NEW p \in Pods, NEW j \in Jobs, ReconcileOne(p, j)
      PROVE  Shrinks
  BY <1>4 DEF ReconcileOne, Close
<1>5. ASSUME NEW j \in Jobs,
             BeginFinished(j) \/ Begin(j) \/ BeginFails(j) \/ Spawn(j) \/ StepFails(j)
             \/ FinishDiscarded(j) \/ FinishFails(j) \/ CaptureStart(j) \/ BumpArtifactEpoch(j)
      PROVE  Shrinks
  BY <1>5 DEF BeginFinished, Begin, BeginFails, Spawn, StepFails, FinishDiscarded, FinishFails,
     CaptureStart, BumpArtifactEpoch
<1>6. ASSUME NEW j \in Jobs, BeginCancelled(j) \/ Finish(j)
      PROVE  Shrinks
  BY <1>6 DEF BeginCancelled, Finish, Close, RowsOK, Results
<1>7. ASSUME NEW j \in Jobs, RunStep(j) \/ Beat(j) \/ PollCancel(j) \/ Expire(j)
      PROVE  Shrinks
  BY <1>7 DEF RunStep, CliWrites, CliExits, TestRunEnds, Beat, PollCancel, Expire
<1>8. ASSUME NEW p \in Pods, Environment(p)
      PROVE  Shrinks
  BY <1>8 DEF Environment, Crash, Restart, LoseDatabase, RegainDatabase
<1>9. CASE UNCHANGED vars
  BY <1>9 DEF vars
<1> QED
  BY <1>1, <1>2, <1>3, <1>4, <1>5, <1>6, <1>7, <1>8, <1>9
  DEF Next, Request, Enqueue, EnqueueRun, LoopStep, ExecutorStep

LEMMA CapStep ==
    ASSUME TypeInv, CapInv, [Next]_vars
    PROVE  CapInv'
<1>1. IsFiniteSet(Running) /\ IsFiniteSet(Claiming) /\ Cardinality(Pods) \in Nat
  <2>1. IsFiniteSet(Jobs)
    BY FS_Interval, BoundsAssumption DEF Jobs
  <2>2. Running \subseteq Jobs /\ Claiming \subseteq Pods
    BY DEF Running, Claiming
  <2> QED BY <2>1, <2>2, FS_Subset, FS_CardinalityType, PodsAssumption
<1>2. Cardinality(Running) \in Nat /\ Cardinality(Claiming) \in Nat /\ Cap \in Nat \ {0}
  BY <1>1, FS_CardinalityType, CapAssumption
<1>3. ASSUME NEW p \in Pods, Count(p)
      PROVE  CapInv'
  <2>1. Running' = Running /\ Cardinality(Running) < Cap
    BY <1>3 DEF Count, BelowCap, Running, rowVars
  <2>2. Claiming' \subseteq Pods
    BY DEF Claiming
  <2>3. Cardinality(Claiming') <= Cardinality(Pods) /\ Cardinality(Claiming') \in Nat
    BY <2>2, FS_Subset, FS_CardinalityType, PodsAssumption
  <2> QED BY <1>1, <1>2, <2>1, <2>3 DEF CapInv
<1>4. ASSUME NEW p \in Pods, Claim(p)
      PROVE  CapInv'
  <2>1. PICK j \in Queued : status' = [status EXCEPT ![j] = "running"]
    BY <1>4 DEF Claim
  <2>2. Running' = Running \cup {j} /\ j \notin Running
    BY <2>1 DEF Running, Queued, TypeInv, TypeOK, RowTypes
  <2>3. Claiming' = Claiming \ {p} /\ p \in Claiming
    BY <1>4 DEF Claim, Claiming, TypeInv, TypeOK, LoopTypes
  <2>4. /\ Cardinality(Running') = Cardinality(Running) + 1
        /\ Cardinality(Claiming') = Cardinality(Claiming) - 1
    BY <1>1, <2>2, <2>3, FS_AddElement, FS_RemoveElement
  <2> QED BY <1>1, <1>2, <2>4 DEF CapInv
<1>5. ASSUME Running' \subseteq Running, Claiming' \subseteq Claiming
      PROVE  CapInv'
  <2>1. /\ Cardinality(Running') <= Cardinality(Running) /\ Cardinality(Running') \in Nat
        /\ Cardinality(Claiming') <= Cardinality(Claiming) /\ Cardinality(Claiming') \in Nat
    BY <1>1, <1>5, FS_Subset, FS_CardinalityType
  <2> QED BY <1>1, <1>2, <2>1 DEF CapInv
<1> QED BY CapSteps, <1>3, <1>4, <1>5

\* However many pods count and claim at once, at most one job per further pod
\* runs above the cap, and crashes, outages and reconciliation add none.
THEOREM CapExceededByPodsMinusOne == Spec => []OverCapAtMostPodsMinusOne
<1>1. Init => CapInv
  <2> SUFFICES ASSUME Init PROVE CapInv
    OBVIOUS
  <2>1. Running = {} /\ Claiming = {}
    BY DEF Init, Running, Claiming
  <2>2. Cardinality(Pods) \in Nat /\ Cardinality(Pods) # 0
    BY PodsAssumption, FS_CardinalityType, FS_EmptySet
  <2> QED BY <2>1, <2>2, FS_EmptySet, CapAssumption DEF CapInv
<1>2. ASSUME CapInv
      PROVE  OverCapAtMostPodsMinusOne
  <2>1. IsFiniteSet(Running) /\ IsFiniteSet(Claiming) /\ Cardinality(Pods) \in Nat
    <3>1. IsFiniteSet(Jobs) /\ Running \subseteq Jobs /\ Claiming \subseteq Pods
      BY FS_Interval, BoundsAssumption DEF Jobs, Running, Claiming
    <3> QED BY <3>1, FS_Subset, FS_CardinalityType, PodsAssumption
  <2>2. Cardinality(Running) \in Nat /\ Cardinality(Claiming) \in Nat
    BY <2>1, FS_CardinalityType
  <2> QED BY <1>2, <2>1, <2>2, CapAssumption DEF CapInv, OverCapAtMostPodsMinusOne
<1> QED BY <1>1, <1>2, CapStep, TypeInvariant, PTL DEF Spec

-----------------------------------------------------------------------------
(* Test runs.                                                               *)

LEMMA RunStepCloses ==
    ASSUME TypeInv, TestRunClosesWithItsJob, [Next]_vars
    PROVE  TestRunClosesWithItsJob'
<1> USE DEF TestRunClosesWithItsJob, TerminalStatuses, TypeInv, TypeOK, RowTypes
<1>1. ASSUME NEW pr \in Projects, NEW t \in Types, Insert(pr, t)
      PROVE  TestRunClosesWithItsJob'
  BY <1>1 DEF Insert
<1>2. ASSUME NEW j \in Jobs, CancelQueued(j) \/ BeginCancelled(j) \/ Finish(j)
      PROVE  TestRunClosesWithItsJob'
  BY <1>2 DEF CancelQueued, BeginCancelled, Finish, Close
<1>3. ASSUME NEW p \in Pods, Claim(p)
      PROVE  TestRunClosesWithItsJob'
  BY <1>3 DEF Claim
<1>4. ASSUME NEW p \in Pods, NEW j \in Jobs, ReconcileOne(p, j)
      PROVE  TestRunClosesWithItsJob'
  BY <1>4 DEF ReconcileOne, Close, rowVars
<1>5. ASSUME NEW j \in Jobs, TestRunEnds(j)
      PROVE  TestRunClosesWithItsJob'
  BY <1>5 DEF TestRunEnds
<1>6. CASE UNCHANGED <<status, runOpen>>
  BY <1>6
<1>7. \/ \E pr \in Projects, t \in Types : Insert(pr, t)
      \/ \E j \in Jobs : CancelQueued(j) \/ BeginCancelled(j) \/ Finish(j) \/ TestRunEnds(j)
      \/ \E p \in Pods : Claim(p) \/ \E j \in Jobs : ReconcileOne(p, j)
      \/ UNCHANGED <<status, runOpen>>
  BY ZenonT(60) DEF Next, Request, Enqueue, EnqueueRun, LoopStep, ExecutorStep, RunStep, Environment, vars,
     rowVars, CancelRunning, ReconcileScan, Count, ClaimNothing, SpawnTask, IterationFails,
     BeginFinished, Begin, BeginFails, CaptureStart, BumpArtifactEpoch, Spawn, StepFails,
     CliWrites, CliExits, FinishDiscarded, FinishFails, Beat, PollCancel, Expire,
     Crash, Restart, LoseDatabase, RegainDatabase
<1> QED BY <1>1, <1>2, <1>3, <1>4, <1>5, <1>6, <1>7

\* No test run stays open behind a job that has ended, however it ended.
THEOREM TestRunsClose == Spec => []TestRunClosesWithItsJob
<1>1. Init => TestRunClosesWithItsJob
  BY DEF Init, TestRunClosesWithItsJob, TerminalStatuses
<1> QED BY <1>1, RunStepCloses, TypeInvariant, PTL DEF Spec

-----------------------------------------------------------------------------
(* Before an outage.  A pod that always reaches the database beats for what  *)
(* it executes: a row goes stale only when its executor is gone, which is    *)
(* final.  So an executor's row is running, and by the unique index a        *)
(* project has one executor at a time.                                       *)

NoZombie ==
    /\ \A p \in Pods : online[p]
    /\ \A j \in Jobs : Executing(j) => status[j] = "running"
    /\ \A j \in Jobs : status[j] = "running" => stage[j] # "none" /\ (fresh[j] \/ stage[j] = "gone")
    /\ \A p \in Pods : \A j \in pending[p] : stage[j] = "gone"

\* Outages are counted and never forgotten.
LEMMA OutagesCounted ==
    ASSUME [Next]_vars
    PROVE  UNCHANGED outages \/ \E p \in Pods : LoseDatabase(p)
BY ZenonT(60) DEF Next, Request, Enqueue, EnqueueRun, LoopStep, ExecutorStep, RunStep, Environment,
   Insert, CancelQueued, CancelRunning, ReconcileScan, ReconcileOne, Count, ClaimNothing, Claim,
   SpawnTask, IterationFails, BeginFinished, BeginFails, FinishDiscarded, FinishFails,
   BeginCancelled, Finish, Begin, Spawn, StepFails, CaptureStart, BumpArtifactEpoch, CliWrites,
   CliExits, TestRunEnds, Beat, PollCancel, Expire, Crash, Restart, RegainDatabase, vars, envVars

LEMMA OutagesOnlyGrow ==
    ASSUME TypeInv, [Next]_vars, outages' = 0
    PROVE  outages = 0 /\ \A p \in Pods : ~LoseDatabase(p)
<1>1. \A p \in Pods : ~LoseDatabase(p)
  BY DEF LoseDatabase, TypeInv, TypeOK, PodTypes
<1> QED BY <1>1, OutagesCounted

LEMMA NoOutage ==
    ASSUME MaxOutages = 0
    PROVE  Spec => [](outages = 0)
<1>1. Init => outages = 0
  BY DEF Init
<1>2. outages = 0 /\ [Next]_vars => (outages = 0)'
  BY OutagesCounted DEF LoseDatabase
<1> QED BY <1>1, <1>2, PTL DEF Spec

LEMMA NoZombieStep ==
    ASSUME outages' = 0, TypeInv, NoZombie, [Next]_vars
    PROVE  NoZombie'
<1> USE DEF NoZombie, Executing, TypeInv, TypeOK, RowTypes, ExecutorTypes, LoopTypes, PodTypes,
        rowVars, execVars, loopVars, envVars
<1>1. ASSUME NEW pr \in Projects, NEW t \in Types, Insert(pr, t)
      PROVE  NoZombie'
  BY <1>1 DEF Insert, RowsOK
<1>2. ASSUME NEW j \in Jobs, CancelQueued(j)
      PROVE  NoZombie'
  BY <1>2 DEF CancelQueued, NotStarted, RowsOK
<1>3. ASSUME NEW j \in Jobs, CancelRunning(j)
      PROVE  NoZombie'
  BY <1>3 DEF CancelRunning
<1>4. ASSUME NEW p \in Pods, ReconcileScan(p)
      PROVE  NoZombie'
  BY <1>4 DEF ReconcileScan, Stale, Running
<1>5. ASSUME NEW p \in Pods, NEW j \in Jobs, ReconcileOne(p, j)
      PROVE  NoZombie'
  BY <1>5 DEF ReconcileOne, Close
<1>6. ASSUME NEW p \in Pods, Count(p) \/ ClaimNothing(p)
      PROVE  NoZombie'
  BY <1>6 DEF Count, ClaimNothing
<1>7. ASSUME NEW p \in Pods, Claim(p)
      PROVE  NoZombie'
  BY <1>7 DEF Claim, Queued, RowsOK
<1>8. ASSUME NEW p \in Pods, NEW j \in Jobs, SpawnTask(p, j)
      PROVE  NoZombie'
  BY <1>8 DEF SpawnTask
<1>9. ASSUME NEW p \in Pods, IterationFails(p)
      PROVE  NoZombie'
  BY <1>9 DEF IterationFails
<1>10. ASSUME NEW j \in Jobs, BeginFinished(j) \/ BeginFails(j) \/ FinishDiscarded(j) \/ FinishFails(j)
       PROVE  NoZombie'
  BY <1>10 DEF BeginFinished, BeginFails, FinishDiscarded, FinishFails
<1>11. ASSUME NEW j \in Jobs, BeginCancelled(j) \/ Finish(j)
       PROVE  NoZombie'
  BY <1>11, SMTT(40) DEF BeginCancelled, Finish, Close, RowsOK, Results
<1>12. ASSUME NEW j \in Jobs, Begin(j) \/ Spawn(j) \/ StepFails(j) \/ CaptureStart(j) \/ BumpArtifactEpoch(j)
       PROVE  NoZombie'
  BY <1>12 DEF Begin, Spawn, StepFails, CaptureStart, BumpArtifactEpoch
<1>13. ASSUME NEW j \in Jobs, CliWrites(j) \/ CliExits(j) \/ TestRunEnds(j)
       PROVE  NoZombie'
  BY <1>13 DEF CliWrites, CliExits, TestRunEnds
<1>14. ASSUME NEW j \in Jobs, Beat(j) \/ PollCancel(j)
       PROVE  NoZombie'
  BY <1>14 DEF Beat, PollCancel
<1>15. ASSUME NEW j \in Jobs, Expire(j)
       PROVE  NoZombie'
  BY <1>15 DEF Expire, CanWrite, RowsOK
<1>16. ASSUME NEW p \in Pods, Crash(p)
       PROVE  NoZombie'
  BY <1>16 DEF Crash
<1>17. ASSUME NEW p \in Pods, Restart(p) \/ RegainDatabase(p)
       PROVE  NoZombie'
  BY <1>17 DEF Restart, RegainDatabase
<1>18. ASSUME NEW p \in Pods, LoseDatabase(p)
       PROVE  NoZombie'
  BY <1>18, OutagesOnlyGrow
<1>19. CASE UNCHANGED vars
  BY <1>19 DEF vars
<1> QED
  BY <1>1, <1>2, <1>3, <1>4, <1>5, <1>6, <1>7, <1>8, <1>9, <1>10, <1>11, <1>12, <1>13,
     <1>14, <1>15, <1>16, <1>17, <1>18, <1>19
  DEF Next, Request, Enqueue, EnqueueRun, LoopStep, ExecutorStep, RunStep, Environment

NoZombieYet == outages = 0 => NoZombie

LEMMA NoZombieInvariant == Spec => [](TypeInv /\ NoZombieYet)
<1>1. Init => NoZombieYet
  BY DEF Init, NoZombieYet, NoZombie, Executing
<1>2. TypeInv /\ NoZombieYet /\ [Next]_vars => NoZombieYet'
  BY NoZombieStep, OutagesOnlyGrow DEF NoZombieYet
<1> QED BY <1>1, <1>2, TypeInvariant, PTL DEF Spec

\* Reconciliation ends dead workers only, as long as the database is within
\* reach: the docstring of reconcile_stale holds under this assumption.
THEOREM DeadWorkersOnly == Spec => OnlyDeadWorkersAreReconciled
<1>1. ASSUME TypeInv, NoZombieYet, [Next]_vars
      PROVE  [\A j \in Jobs :
                outages = 0 /\ status[j] = "running" /\ status'[j] = "failed(interrupted)"
                    => stage[j] = "gone"]_vars
  <2> SUFFICES ASSUME NEW j \in Jobs, outages = 0,
                      status[j] = "running", status'[j] = "failed(interrupted)"
               PROVE  stage[j] = "gone"
    OBVIOUS
  <2> USE <1>1 DEF TypeInv, TypeOK, RowTypes
  <2>1. \A k \in Jobs : ~Finish(k) \/ k # j
    BY DEF Finish, Close, RowsOK, Results
  <2>2. \E p \in Pods : ReconcileOne(p, j)
    BY <2>1, RowSteps DEF Insert, CancelQueued, BeginCancelled, Finish, Close, Claim, ReconcileOne, Quiet
  <2> QED BY <1>1, <2>2 DEF ReconcileOne, NoZombie, NoZombieYet
<1> QED BY <1>1, NoZombieInvariant, PTL DEF Spec, OnlyDeadWorkersAreReconciled

\* A run that may still write, or that has ended with a success to record, has
\* moved the epoch past the baseline; one that has ended well is the last to
\* have written.
Recordable(j) == stage[j] = "ended" /\ res[j] = "succeeded" /\ type[j] \in FreezingTypes

OutputInv ==
    \A j \in Jobs :
        /\ \/ stage[j] \in {"bumped", "running"} /\ type[j] \in FreezingTypes
           \/ Recordable(j)
           => LET b == baseline[owner[j]] IN b # NoJob => snapEpoch[b] < epoch[owner[j]]
        /\ Recordable(j) => out[owner[j]] = [job |-> j, complete |-> TRUE]

OutputSafe == OutputInv /\ OutputIsOfTheBaseline

\* Steps that leave epochs, baselines and output alone.
LEMMA OutputFrame ==
    ASSUME TypeInv, OutputSafe, UNCHANGED <<baseline, snapEpoch, epoch, out, res>>,
           \A j \in Jobs :
               stage'[j] \in {"bumped", "running", "ended"} =>
                   /\ type'[j] = type[j] /\ owner'[j] = owner[j]
                   /\ \/ stage[j] = stage'[j]
                      \/ stage[j] = "bumped" /\ stage'[j] = "running"
                      \/ type[j] = "test_run"
    PROVE  OutputSafe'
BY DEF OutputSafe, OutputInv, Recordable, OutputIsOfTheBaseline, TypeInv, TypeOK,
       ExecutorTypes, FreezingTypes

LEMMA OutputStep ==
    ASSUME TypeInv, StageOrder, BaselineIsEvidence, OneActiveJobPerProject,
           NoZombie, OutputSafe, [Next]_vars
    PROVE  OutputSafe'
<1> USE DEF TypeInv, TypeOK, RowTypes, SnapshotTypes, ExecutorTypes
<1>1. \A j, k \in Jobs : Executing(j) /\ Executing(k) /\ owner[j] = owner[k] => j = k
  BY DEF NoZombie, OneActiveJobPerProject, Active, ActiveStatuses
<1>2. ASSUME NEW j \in Jobs, BumpArtifactEpoch(j)
      PROVE  OutputSafe'
  <2> DEFINE pr == owner[j]
  <2>1. pr \in Projects /\ epoch' = [epoch EXCEPT ![pr] = epoch[pr] + 1]
    BY <1>2 DEF BumpArtifactEpoch, NextEpoch, RowsOK
  <2>2. /\ UNCHANGED <<type, owner, baseline, snapEpoch, out, res>>
        /\ stage' = [stage EXCEPT ![j] = "bumped"] /\ stage[j] = "captured"
    BY <1>2 DEF BumpArtifactEpoch, rowVars
  <2>3. baseline[pr] # NoJob => snapEpoch[baseline[pr]] <= epoch[pr] /\ snapEpoch[baseline[pr]] \in Nat
    BY <2>1 DEF BaselineIsEvidence
  <2>4. OutputInv'
    <3> SUFFICES ASSUME NEW k \in Jobs PROVE
           /\ \/ stage'[k] \in {"bumped", "running"} /\ type'[k] \in FreezingTypes
              \/ Recordable(k)'
              => LET b == baseline'[owner'[k]] IN b # NoJob => snapEpoch'[b] < epoch'[owner'[k]]
           /\ Recordable(k)' => out'[owner'[k]] = [job |-> k, complete |-> TRUE]
      BY DEF OutputInv
    <3>1. CASE owner[k] = pr
      BY <2>1, <2>2, <2>3, <3>1 DEF OutputSafe, OutputInv, Recordable
    <3>2. CASE owner[k] # pr
      BY <2>1, <2>2, <3>2 DEF OutputSafe, OutputInv, Recordable
    <3> QED BY <3>1, <3>2
  <2>5. OutputIsOfTheBaseline'
    BY <2>1, <2>2, <2>3 DEF OutputSafe, OutputIsOfTheBaseline
  <2> QED BY <2>4, <2>5 DEF OutputSafe
<1>3. ASSUME NEW j \in Jobs, CliWrites(j) \/ CliExits(j)
      PROVE  OutputSafe'
  <2> DEFINE pr == owner[j]
  <2>1. /\ UNCHANGED <<type, owner, baseline, snapEpoch, epoch>>
        /\ stage[j] = "running" /\ type[j] \in FreezingTypes
        /\ \A k \in Jobs : k # j => stage'[k] = stage[k] /\ res'[k] = res[k]
        /\ \A q \in Projects : q # pr => out'[q] = out[q]
    BY <1>3 DEF CliWrites, CliExits, rowVars, snapVars, execVars, OutputTypes
  <2>2. Executing(j) /\ pr \in Projects
    BY <2>1 DEF Executing, RowsOK
  <2>3. baseline[pr] # NoJob => snapEpoch[baseline[pr]] < epoch[pr]
    BY <2>1 DEF OutputSafe, OutputInv
  <2>4. OutputIsOfTheBaseline'
    BY <2>1, <2>3, SMTT(40) DEF OutputSafe, OutputIsOfTheBaseline
  <2>5. ASSUME NEW k \in Jobs, k # j, Recordable(k)'
        PROVE  out'[owner[k]] = [job |-> k, complete |-> TRUE]
    <3>1. Recordable(k) /\ Executing(k)
      BY <2>1, <2>5 DEF Recordable, Executing
    <3>2. owner[k] # pr /\ owner[k] \in Projects
      BY <1>1, <2>2, <2>5, <3>1 DEF RowsOK, Recordable
    <3> QED BY <2>1, <3>1, <3>2 DEF OutputSafe, OutputInv
  <2>6. Recordable(j)' => out'[pr] = [job |-> j, complete |-> TRUE]
    BY <1>3, <2>1, <2>2 DEF CliWrites, CliExits, Recordable, OutputTypes, execVars
  <2>7. OutputInv'
    BY <2>1, <2>3, <2>5, <2>6 DEF OutputSafe, OutputInv, Recordable
  <2> QED BY <2>4, <2>7 DEF OutputSafe
<1>4. ASSUME NEW j \in Jobs, Finish(j)
      PROVE  OutputSafe'
  <2> DEFINE pr == owner[j]
  <2>1. /\ UNCHANGED <<type, owner, epoch, out, res>>
        /\ stage' = [stage EXCEPT ![j] = "gone"] /\ stage[j] = "ended"
        /\ pr \in Projects
    BY <1>4 DEF Finish, Close, Promote, snapVars, RowsOK
  <2>2. CASE UNCHANGED snapVars
    BY <2>1, <2>2, OutputFrame DEF snapVars
  <2>3. CASE Promote(j)
    <3>1. /\ baseline' = [baseline EXCEPT ![pr] = j]
          /\ snapEpoch' = [snapEpoch EXCEPT ![j] = epoch[pr]]
          /\ Recordable(j)
      BY <2>1, <2>3 DEF Promote, Promotable, Recordable
    <3>2. \A q \in Projects : q # pr => baseline[q] # j
      <4>1. j # NoJob
        BY BoundsAssumption DEF Jobs, NoJob
      <4> QED BY <1>4, <4>1 DEF BaselineIsEvidence, Finish, TerminalWriteMatches, Active, ActiveStatuses
    <3>3. OutputIsOfTheBaseline'
      BY <2>1, <3>1, <3>2 DEF OutputSafe, OutputInv, OutputIsOfTheBaseline
    <3>4. OutputInv'
      <4> SUFFICES ASSUME NEW k \in Jobs,
                          \/ stage'[k] \in {"bumped", "running"} /\ type[k] \in FreezingTypes
                          \/ Recordable(k)'
                   PROVE /\ baseline'[owner[k]] # NoJob =>
                              snapEpoch'[baseline'[owner[k]]] < epoch[owner[k]]
                         /\ Recordable(k)' => out[owner[k]] = [job |-> k, complete |-> TRUE]
        BY <2>1 DEF OutputInv, Recordable
      <4>1. k # j /\ stage'[k] = stage[k] /\ stage[k] \in {"bumped", "running", "ended"}
        BY <2>1 DEF Recordable
      <4>2. owner[k] # pr /\ owner[k] \in Projects
        BY <1>1, <2>1, <4>1 DEF Executing, RowsOK
      <4>3. baseline'[owner[k]] = baseline[owner[k]] /\ baseline[owner[k]] # j
        BY <3>1, <3>2, <4>2
      <4>4. Recordable(k)' <=> Recordable(k)
        BY <2>1, <4>1 DEF Recordable
      <4>5. baseline[owner[k]] # NoJob => snapEpoch'[baseline[owner[k]]] = snapEpoch[baseline[owner[k]]]
        BY <3>1, <4>2, <4>3
      <4> QED BY <4>1, <4>3, <4>4, <4>5 DEF OutputSafe, OutputInv
    <3> QED BY <3>3, <3>4 DEF OutputSafe
  <2> QED BY <1>4, <2>2, <2>3 DEF Finish
<1>5. ASSUME NEW j \in Jobs, StepFails(j)
      PROVE  OutputSafe'
  BY <1>5 DEF StepFails, rowVars, snapVars, OutputSafe, OutputInv, Recordable,
     OutputIsOfTheBaseline
<1>6. ASSUME NEW j \in Jobs, TestRunEnds(j)
      PROVE  OutputSafe'
  BY <1>6 DEF TestRunEnds, snapVars, OutputSafe, OutputInv, Recordable, FreezingTypes,
     OutputIsOfTheBaseline
<1>7. ASSUME NEW pr \in Projects, NEW t \in Types, Insert(pr, t)
      PROVE  OutputSafe'
  BY <1>7, OutputFrame DEF Insert, snapVars, execVars, RowsOK
<1>8. ASSUME NEW j \in Jobs,
             CancelQueued(j) \/ CancelRunning(j) \/ Beat(j) \/ PollCancel(j) \/ Expire(j)
      PROVE  OutputSafe'
  BY <1>8, OutputFrame DEF CancelQueued, CancelRunning, Beat, PollCancel, Expire, rowVars, snapVars, execVars
<1>9. ASSUME NEW p \in Pods, NEW j \in Jobs, ReconcileOne(p, j)
      PROVE  OutputSafe'
  BY <1>9, OutputFrame DEF ReconcileOne, Close, rowVars, snapVars, execVars
<1>10. ASSUME NEW p \in Pods,
              ReconcileScan(p) \/ Count(p) \/ ClaimNothing(p) \/ Restart(p)
              \/ LoseDatabase(p) \/ RegainDatabase(p)
       PROVE  OutputSafe'
  BY <1>10, OutputFrame DEF ReconcileScan, Count, ClaimNothing, Restart, LoseDatabase, RegainDatabase,
     rowVars, snapVars, execVars
<1>11. ASSUME NEW p \in Pods, Claim(p) \/ IterationFails(p) \/ Crash(p)
       PROVE  OutputSafe'
  BY <1>11, OutputFrame DEF Claim, IterationFails, Crash, rowVars, snapVars
<1>12. ASSUME NEW p \in Pods, NEW j \in Jobs, SpawnTask(p, j)
       PROVE  OutputSafe'
  BY <1>12, OutputFrame DEF SpawnTask, rowVars, snapVars
<1>13. ASSUME NEW j \in Jobs,
              BeginFinished(j) \/ BeginCancelled(j) \/ BeginFails(j) \/ FinishDiscarded(j)
              \/ FinishFails(j) \/ Spawn(j) \/ CaptureStart(j)
       PROVE  OutputSafe'
  BY <1>13, OutputFrame DEF BeginFinished, BeginCancelled, BeginFails, FinishDiscarded, FinishFails,
     Spawn, CaptureStart, Close, rowVars, snapVars
<1>14. ASSUME NEW j \in Jobs, Begin(j)
       PROVE  OutputSafe'
  BY <1>14, OutputFrame DEF Begin, rowVars, snapVars, OutputSafe, OutputInv, Recordable,
     OutputIsOfTheBaseline
<1>15. CASE UNCHANGED vars
  BY <1>15, OutputFrame DEF vars, rowVars, snapVars, execVars
<1> QED
  BY <1>2, <1>3, <1>4, <1>5, <1>6, <1>7, <1>8, <1>9, <1>10, <1>11, <1>12, <1>13, <1>14, <1>15
  DEF Next, Request, Enqueue, EnqueueRun, LoopStep, ExecutorStep, RunStep, Environment

OutputSafeYet == outages = 0 => OutputSafe

\* As long as the database is within reach, a baseline of the current epoch is
\* the record of exactly what output/ holds, through every crash, cancel and
\* failure between two steps: the premise of the citation guard.
THEOREM BaselineIsCurrent == Spec => []CurrentBaselineMatchesOutput
<1>1. Init => OutputSafeYet
  BY DEF Init, OutputSafeYet, OutputSafe, OutputInv, Recordable, OutputIsOfTheBaseline
<1>2. TypeInv /\ StageOrder /\ BaselineIsEvidence /\ OneActiveJobPerProject /\ NoZombieYet
        /\ OutputSafeYet /\ [Next]_vars => OutputSafeYet'
  BY OutputStep, OutagesOnlyGrow DEF OutputSafeYet, NoZombieYet
<1>3. OutputSafeYet => CurrentBaselineMatchesOutput
  BY DEF OutputSafeYet, OutputSafe, CurrentBaselineMatchesOutput
<1> QED BY <1>1, <1>2, <1>3, StageInvariant, EvidenceIsSound, OneActiveJob, NoZombieInvariant, PTL
        DEF Spec
=============================================================================
