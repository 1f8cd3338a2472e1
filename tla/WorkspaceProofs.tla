-------------------------- MODULE WorkspaceProofs --------------------------
(***************************************************************************)
(* Theorems about a project's workspace: what the sweep leaves of the jobs *)
(* (Retention), input/ and its rows (InputFiles), and the states that the  *)
(* snapshots give the documents (IndexSnapshots).  Each part is for itself;*)
(* at the end they stand side by side, with the configuration              *)
(* (MCWorkspace).                                                          *)
(***************************************************************************)
EXTENDS MCWorkspace, WorkspaceConfigProofs, SequenceTheorems, FiniteSetTheorems, WellFoundedInduction, TLAPS

-----------------------------------------------------------------------------
(* The sweep (Retention).                                                  *)

\* A job that has been claimed, and its project.
Claimed(j) == status[j] \notin {"absent", "queued"} /\ owner[j] \in Projects

\* A job that is in flight belongs to a project and is the only one there, and one
\* that has a worker has been claimed.
FlightOK(j) ==
    /\ status[j] \in ActiveStatuses =>
          /\ owner[j] \in Projects
          /\ \A k \in Jobs : status[k] \in ActiveStatuses /\ owner[k] = owner[j] => k = j
    /\ worker[j] # "none" => Claimed(j)

\* The directories of a project are those of its jobs.
DirsOK(pr) ==
    \A i \in 1..Len(updates[pr]) : Claimed(updates[pr][i]) /\ owner[updates[pr][i]] = pr

\* A baseline is a success with its start snapshot.
BaselineOK(pr) ==
    baseline[pr] # NoJob => status[baseline[pr]] = "succeeded" /\ startRow[baseline[pr]]

\* The jobs a sweep has selected are past their window, and no baseline among
\* those whose snapshots are to be deleted.
SweepOK ==
    /\ sweep.ph \in {"logs", "delete"} => \A j \in sweep.doomed : Expired(j)
    /\ sweep.ph = "delete" => sweep.doomed \cap Protected = {}

SweepPhases == {"idle", "logs", "rows", "delete", "prune"}

SweepTypes ==
    /\ LifecycleTypeOK /\ RetentionTypeOK
    /\ updates \in [Projects -> Seq(Jobs)]
    /\ sweep \in [ph : SweepPhases, doomed : SUBSET Jobs]

RetentionInv ==
    /\ SweepTypes
    /\ \A j \in Jobs : FlightOK(j)
    /\ \A pr \in Projects : DirsOK(pr) /\ BaselineOK(pr)
    /\ SweepOK

\* Pruning leaves directories that were there, and the newest unless it leaves none.
LEMMA NewestKeepsTheLast ==
    ASSUME NEW dirs \in Seq(Jobs)
    PROVE  /\ Newest(dirs) \in Seq(Jobs)
           /\ \A i \in 1..Len(Newest(dirs)) : \E k \in 1..Len(dirs) : Newest(dirs)[i] = dirs[k]
           /\ KeepLatest > 0 /\ Len(dirs) > 0 =>
                 \E i \in 1..Len(Newest(dirs)) : Newest(dirs)[i] = dirs[Len(dirs)]
<1> DEFINE first == IF Len(dirs) > KeepLatest THEN Len(dirs) - KeepLatest + 1 ELSE 1
<1>1. Len(dirs) \in Nat /\ KeepLatest \in Nat
  BY RetentionAssumption, LenProperties
<1>2. first \in 1..Len(dirs)+1 /\ (KeepLatest > 0 /\ Len(dirs) > 0 => first <= Len(dirs))
  BY <1>1
<1> HIDE DEF first
<1>3. /\ SubSeq(dirs, first, Len(dirs)) \in Seq(Jobs)
      /\ Len(SubSeq(dirs, first, Len(dirs))) = IF first <= Len(dirs) THEN Len(dirs) - first + 1 ELSE 0
      /\ \A i \in 1..(Len(dirs) - first + 1) : SubSeq(dirs, first, Len(dirs))[i] = dirs[first + i - 1]
  BY <1>1, <1>2, SubSeqProperties
<1> DEFINE kept == SubSeq(dirs, first, Len(dirs))
<1> HIDE DEF kept
<1>4. /\ kept \in Seq(Jobs) /\ Len(kept) = Len(dirs) - first + 1
      /\ \A i \in 1..Len(kept) : kept[i] = dirs[first + i - 1] /\ first + i - 1 \in 1..Len(dirs)
  BY <1>1, <1>2, <1>3 DEF kept
<1>5. KeepLatest > 0 /\ Len(dirs) > 0 => Len(kept) \in 1..Len(kept) /\ kept[Len(kept)] = dirs[Len(dirs)]
  <2>1. CASE first <= Len(dirs)
    <3>1. Len(kept) \in 1..Len(kept) /\ first + Len(kept) - 1 = Len(dirs)
      BY <1>1, <1>2, <1>4, <2>1
    <3> QED BY <1>4, <3>1
  <2> QED BY <1>2, <2>1
<1>6. Newest(dirs) = kept
  BY DEF Newest, first, kept
<1> QED BY <1>4, <1>5, <1>6

\* The invariant holds at the start.
LEMMA SweepStart == RetentionInit => RetentionInv
<1> SUFFICES ASSUME RetentionInit PROVE RetentionInv
  OBVIOUS
<1> USE DEF RetentionInit, LifecycleInit
<1>1. 0 \in 0..MaxAge
  BY RetentionAssumption DEF MaxAge
<1>2. SweepTypes
  BY <1>1, EmptySeq DEF SweepTypes, LifecycleTypeOK, RetentionTypeOK, Statuses, NoSweep, SweepPhases, Ingests
<1>3. \A j \in Jobs : FlightOK(j)
  BY DEF FlightOK, ActiveStatuses
<1>4. \A pr \in Projects : DirsOK(pr) /\ BaselineOK(pr)
  <2>1. \A pr \in Projects : updates[pr] = <<>> /\ Len(<<>>) = 0
    BY EmptySeq
  <2> QED BY <2>1 DEF DirsOK, BaselineOK
<1>5. SweepOK
  BY DEF SweepOK, NoSweep
<1> QED BY <1>2, <1>3, <1>4, <1>5 DEF RetentionInv

\* The directories stay those of jobs that have been claimed.
LEMMA DirsKeep ==
    ASSUME RetentionInv, UNCHANGED updates,
           \A k \in Jobs : Claimed(k) => Claimed(k)' /\ owner'[k] = owner[k]
    PROVE  \A pr \in Projects : DirsOK(pr)'
<1> SUFFICES ASSUME NEW pr \in Projects, NEW i \in 1..Len(updates[pr])
             PROVE  Claimed(updates[pr][i])' /\ owner'[updates[pr][i]] = pr
  BY DEF DirsOK
<1>1. updates[pr][i] \in Jobs
  BY ElementOfSeq DEF RetentionInv, SweepTypes
<1>2. Claimed(updates[pr][i]) /\ owner[updates[pr][i]] = pr
  BY DEF RetentionInv, DirsOK
<1> DEFINE k == updates[pr][i]
<1>3. k' = k
  OBVIOUS
<1> HIDE DEF k
<1>4. k \in Jobs /\ Claimed(k) /\ owner[k] = pr
  BY <1>1, <1>2 DEF k
<1>5. Claimed(k)' /\ owner'[k] = pr
  BY <1>3, <1>4
<1> QED BY <1>3, <1>5 DEF k

\* A job is queued.
LEMMA QueueKeeps ==
    ASSUME RetentionInv, QueueRun
    PROVE  RetentionInv'
<1> PICK j \in Jobs, pr \in Projects : Submit(j, pr) /\ UNCHANGED retentionVars
  BY DEF QueueRun
<1> USE DEF RetentionInv, retentionVars
<1>1. /\ status[j] = "absent" /\ status' = [status EXCEPT ![j] = "queued"]
      /\ owner' = [owner EXCEPT ![j] = pr] /\ baseline' = baseline
      /\ \A k \in Jobs : ~(status[k] \in ActiveStatuses /\ owner[k] = pr)
  BY DEF Submit, InFlight
<1>2. SweepTypes'
  <2>1. LifecycleTypeOK'
    BY <1>1 DEF SweepTypes, LifecycleTypeOK, Statuses, ActiveStatuses
  <2> QED BY <2>1 DEF SweepTypes, RetentionTypeOK
<1>3. \A k \in Jobs : /\ status'[k] = IF k = j THEN "queued" ELSE status[k]
                      /\ owner'[k] = IF k = j THEN pr ELSE owner[k]
  BY <1>1 DEF SweepTypes, LifecycleTypeOK
<1>4. \A k \in Jobs : Expired(k)' <=> Expired(k)
  BY <1>1, <1>3 DEF Expired, TerminalStatuses
<1>5. \A k \in Jobs : FlightOK(k)'
  BY <1>1, <1>3 DEF FlightOK, Claimed, ActiveStatuses
<1>6. \A q \in Projects : DirsOK(q)'
  BY <1>1, <1>3, DirsKeep DEF Claimed
<1>7. \A q \in Projects : BaselineOK(q)'
  BY <1>1, <1>3 DEF BaselineOK, SweepTypes, LifecycleTypeOK
<1>8. SweepOK'
  BY <1>1, <1>4 DEF SweepOK, Protected, SweepTypes
<1> QED BY <1>2, <1>5, <1>6, <1>7, <1>8

\* A queued job is cancelled, or claimed.
LEMMA CancelKeeps ==
    ASSUME RetentionInv, CancelQueuedRun
    PROVE  RetentionInv'
<1> PICK j \in Jobs : Withdraw(j) /\ UNCHANGED retentionVars
  BY DEF CancelQueuedRun
<1> USE DEF RetentionInv, retentionVars
<1>1. /\ status[j] = "queued" /\ status' = [status EXCEPT ![j] = "cancelled"]
      /\ owner' = owner /\ baseline' = baseline
  BY DEF Withdraw
<1>2. SweepTypes'
  <2>1. LifecycleTypeOK'
    BY <1>1 DEF SweepTypes, LifecycleTypeOK, Statuses, TerminalStatuses
  <2> QED BY <2>1 DEF SweepTypes, RetentionTypeOK
<1>3. \A k \in Jobs : status'[k] = IF k = j THEN "cancelled" ELSE status[k]
  BY <1>1 DEF SweepTypes, LifecycleTypeOK
<1>4. \A k \in Jobs : Expired(k) => Expired(k)'
  BY <1>1, <1>3 DEF Expired, TerminalStatuses
<1>5. \A k \in Jobs : FlightOK(k)'
  BY <1>1, <1>3 DEF FlightOK, Claimed, ActiveStatuses
<1>6. \A q \in Projects : DirsOK(q)'
  BY <1>1, <1>3, DirsKeep DEF Claimed
<1>7. \A q \in Projects : BaselineOK(q)'
  BY <1>1, <1>3 DEF BaselineOK, SweepTypes, LifecycleTypeOK
<1>8. SweepOK'
  BY <1>1, <1>4 DEF SweepOK, Protected, SweepTypes
<1> QED BY <1>2, <1>5, <1>6, <1>7, <1>8

\* A job is claimed.
LEMMA ClaimKeeps ==
    ASSUME RetentionInv, NEW j \in Jobs, NEW type \in Ingests \cup {"test_run"}, ClaimRun(j, type)
    PROVE  RetentionInv'
<1> USE DEF RetentionInv
<1>1. /\ status[j] = "queued" /\ status' = [status EXCEPT ![j] = "running"]
      /\ owner' = owner /\ baseline' = baseline
      /\ ran' = [ran EXCEPT ![j] = type] /\ worker' = [worker EXCEPT ![j] = "claimed"]
      /\ UNCHANGED <<age, startRow, logFile, updates, sweep>>
  BY DEF Start, ClaimRun, Reaches
<1>2. SweepTypes'
  <2>1. LifecycleTypeOK'
    BY <1>1 DEF SweepTypes, LifecycleTypeOK, Statuses, ActiveStatuses
  <2> QED BY <1>1, <2>1 DEF SweepTypes, RetentionTypeOK, Working
<1>3. \A k \in Jobs : /\ status'[k] = IF k = j THEN "running" ELSE status[k]
                      /\ worker'[k] = IF k = j THEN "claimed" ELSE worker[k]
  BY <1>1 DEF SweepTypes, LifecycleTypeOK, RetentionTypeOK
<1>4. \A k \in Jobs : Expired(k)' <=> Expired(k)
  BY <1>1, <1>3 DEF Expired, TerminalStatuses
<1>5. \A k \in Jobs : FlightOK(k)'
  BY <1>1, <1>3 DEF FlightOK, Claimed, ActiveStatuses
<1>6. \A q \in Projects : DirsOK(q)'
  BY <1>1, <1>3, DirsKeep DEF Claimed
<1>7. \A q \in Projects : BaselineOK(q)'
  BY <1>1, <1>3 DEF BaselineOK, SweepTypes, LifecycleTypeOK
<1>8. SweepOK'
  BY <1>1, <1>4 DEF SweepOK, Protected, SweepTypes
<1> QED BY <1>2, <1>5, <1>6, <1>7, <1>8

\* A worker goes on or ends, whatever has become of its row.
LEMMA WorkerKeeps ==
    ASSUME RetentionInv, NEW j \in Jobs,
           \/ CaptureRun(j) \/ SpawnRun(j) \/ MakeDirectory(j) \/ WorkerDies(j)
           \/ \E s \in {"succeeded", "failed", "cancelled"} : DiscardResult(j, s)
    PROVE  RetentionInv'
<1> USE DEF RetentionInv, lifecycleVars
<1>1. PICK stage \in Working \cup {"pruning", "over"} :
          worker[j] # "none" /\ worker' = [worker EXCEPT ![j] = stage]
  BY DEF CaptureRun, SpawnRun, MakeDirectory, WorkerDies, DiscardResult, Reports, Reaches, Working
<1>2. /\ UNCHANGED <<status, owner, baseline, ran, age, sweep>>
      /\ startRow' \in {startRow, [startRow EXCEPT ![j] = TRUE]}
      /\ logFile' \in {logFile, [logFile EXCEPT ![j] = TRUE]}
      /\ updates' \in {updates, [updates EXCEPT ![owner[j]] = Append(@, j)]}
  BY DEF CaptureRun, SpawnRun, MakeDirectory, WorkerDies, DiscardResult, Reports
<1>3. Claimed(j) /\ owner[j] \in Projects
  BY <1>1 DEF FlightOK, Claimed
<1> DEFINE old == updates[owner[j]]
<1>4. /\ old \in Seq(Jobs) /\ Append(old, j) \in Seq(Jobs) /\ Len(old) \in Nat
      /\ Len(Append(old, j)) = Len(old) + 1 /\ Append(old, j)[Len(old) + 1] = j
      /\ \A i \in 1..Len(old) : Append(old, j)[i] = old[i]
  BY <1>3, AppendProperties, LenProperties DEF SweepTypes
<1>5. /\ updates' \in [Projects -> Seq(Jobs)]
      /\ \A pr \in Projects : updates'[pr] = updates[pr] \/ (pr = owner[j] /\ updates'[pr] = Append(old, j))
  <2>1. CASE updates' = updates
    BY <2>1 DEF SweepTypes
  <2>2. CASE updates' = [updates EXCEPT ![owner[j]] = Append(@, j)]
    <3>1. updates' = [updates EXCEPT ![owner[j]] = Append(old, j)]
      BY <2>2
    <3> HIDE DEF old
    <3> QED BY <1>3, <1>4, <3>1 DEF SweepTypes
  <2> QED BY <1>2, <2>1, <2>2
<1>6. SweepTypes'
  <2>1. /\ worker' \in [Jobs -> Working \cup {"none", "pruning", "over"}]
        /\ startRow' \in [Jobs -> BOOLEAN] /\ logFile' \in [Jobs -> BOOLEAN]
    BY <1>1, <1>2 DEF SweepTypes, RetentionTypeOK
  <2> QED BY <1>2, <1>5, <2>1 DEF SweepTypes, RetentionTypeOK, LifecycleTypeOK
<1>7. \A k \in Jobs : Expired(k)' <=> Expired(k)
  BY <1>2 DEF Expired
<1>8. \A k \in Jobs : FlightOK(k)'
  <2>1. \A k \in Jobs : worker'[k] # "none" => worker[k] # "none"
    BY <1>1 DEF SweepTypes, RetentionTypeOK
  <2> QED BY <1>2, <2>1 DEF FlightOK, Claimed
<1>9. ASSUME NEW pr \in Projects PROVE DirsOK(pr)'
  <2>1. ASSUME NEW i \in 1..Len(updates'[pr])
        PROVE  \/ updates'[pr][i] = j /\ pr = owner[j]
               \/ i \in 1..Len(updates[pr]) /\ updates'[pr][i] = updates[pr][i]
    <3>1. CASE updates'[pr] = updates[pr]
      BY <3>1
    <3>2. CASE pr = owner[j] /\ updates'[pr] = Append(old, j)
      <4>1. i \in 1..(Len(old) + 1) /\ old = updates[pr]
        BY <1>4, <3>2
      <4> HIDE DEF old
      <4> QED BY <1>4, <3>2, <4>1
    <3> QED BY <1>5, <3>1, <3>2
  <2>2. \A i \in 1..Len(updates[pr]) : Claimed(updates[pr][i]) /\ owner[updates[pr][i]] = pr
    BY DEF DirsOK
  <2>3. \A i \in 1..Len(updates'[pr]) : Claimed(updates'[pr][i]) /\ owner[updates'[pr][i]] = pr
    BY <1>3, <2>1, <2>2
  <2> QED BY <1>2, <2>3 DEF DirsOK, Claimed
<1>10. \A q \in Projects : BaselineOK(q)'
  <2>1. \A k \in Jobs : startRow[k] => startRow'[k]
    BY <1>2 DEF SweepTypes, RetentionTypeOK
  <2> QED BY <1>2, <2>1 DEF BaselineOK, SweepTypes, LifecycleTypeOK
<1>11. SweepOK'
  BY <1>2, <1>7 DEF SweepOK, Protected, SweepTypes
<1> QED BY <1>6, <1>8, <1>9, <1>10, <1>11

\* A job ends, and may be promoted, or is reconciled.
LEMMA EndKeeps ==
    ASSUME RetentionInv, NEW j \in Jobs,
           Reconcile(j) \/ \E s \in {"succeeded", "failed", "cancelled"} : EndRun(j, s)
    PROVE  RetentionInv'
<1> USE DEF RetentionInv
<1>1. PICK s \in TerminalStatuses, w \in [Jobs -> Working \cup {"none", "pruning", "over"}] :
          /\ status[j] = "running" /\ status' = [status EXCEPT ![j] = s]
          /\ owner' = owner /\ UNCHANGED <<ran, age, startRow, logFile, updates, sweep>>
          /\ worker' = w /\ \A k \in Jobs : w[k] # "none" => worker[k] # "none"
          /\ \/ baseline' = baseline
             \/ /\ s = "succeeded" /\ baseline' = [baseline EXCEPT ![owner[j]] = j]
                /\ baseline' # baseline => startRow[j]
  <2>1. CASE Reconcile(j)
    <3>1. "failed(interrupted)" \in TerminalStatuses
      BY DEF TerminalStatuses
    <3>2. worker \in [Jobs -> Working \cup {"none", "pruning", "over"}]
      BY DEF SweepTypes, RetentionTypeOK
    <3> QED BY <2>1, <3>1, <3>2 DEF Reconcile, Conclude, retentionVars
  <2>2. ASSUME NEW s \in {"succeeded", "failed", "cancelled"}, EndRun(j, s)
        PROVE  /\ s \in TerminalStatuses
               /\ status[j] = "running" /\ status' = [status EXCEPT ![j] = s]
               /\ owner' = owner /\ UNCHANGED <<ran, age, startRow, logFile, updates, sweep>>
               /\ worker' \in [Jobs -> Working \cup {"none", "pruning", "over"}]
               /\ \A k \in Jobs : worker'[k] # "none" => worker[k] # "none"
               /\ \/ baseline' = baseline
                  \/ /\ s = "succeeded" /\ baseline' = [baseline EXCEPT ![owner[j]] = j]
                     /\ baseline' # baseline => startRow[j]
    <3>1. s \in TerminalStatuses
      BY DEF TerminalStatuses
    <3>2. /\ worker' \in [Jobs -> Working \cup {"none", "pruning", "over"}]
          /\ \A k \in Jobs : worker'[k] # "none" => worker[k] # "none"
      BY <2>2 DEF EndRun, Reports, Reaches, SweepTypes, RetentionTypeOK, Working
    <3> QED BY <2>2, <3>1, <3>2 DEF EndRun, Reports, Conclude
  <2> QED BY <2>1, <2>2
<1>2. SweepTypes'
  <2>1. LifecycleTypeOK'
    BY <1>1 DEF SweepTypes, LifecycleTypeOK, Statuses, TerminalStatuses
  <2> QED BY <1>1, <2>1 DEF SweepTypes, RetentionTypeOK
<1>3. \A k \in Jobs : status'[k] = IF k = j THEN s ELSE status[k]
  BY <1>1 DEF SweepTypes, LifecycleTypeOK
<1>4. ~Expired(j) /\ \A k \in Jobs : Expired(k) => Expired(k)'
  BY <1>1, <1>3 DEF Expired, TerminalStatuses
<1>5. \A k \in Jobs : Claimed(k) => Claimed(k)'
  BY <1>1, <1>3 DEF Claimed, TerminalStatuses
<1>6. \A k \in Jobs : FlightOK(k)'
  <2>1. \A k \in Jobs : worker'[k] # "none" => Claimed(k)'
    BY <1>1, <1>5 DEF FlightOK
  <2> QED BY <1>1, <1>3, <2>1 DEF FlightOK, ActiveStatuses, TerminalStatuses
<1>7. \A q \in Projects : DirsOK(q)'
  BY <1>1, <1>5, DirsKeep
<1>8. \A q \in Projects : baseline'[q] = baseline[q] \/ (baseline'[q] = j /\ s = "succeeded" /\ startRow[j])
  BY <1>1 DEF SweepTypes, LifecycleTypeOK
<1>9. \A q \in Projects : BaselineOK(q)'
  <2>1. \A q \in Projects : baseline[q] # NoJob => baseline[q] \in Jobs /\ baseline[q] # j
    BY <1>1 DEF BaselineOK, SweepTypes, LifecycleTypeOK
  <2> QED BY <1>1, <1>3, <1>8, <2>1 DEF BaselineOK
<1>10. SweepOK'
  <2>1. \A k \in sweep.doomed : k \in Jobs
    BY DEF SweepTypes
  <2>2. sweep.ph = "delete" => j \notin sweep.doomed
    BY <1>4 DEF SweepOK
  <2>3. \A k \in sweep.doomed : sweep.ph = "delete" => \A q \in Projects : baseline[q] # k
    BY DEF SweepOK, Protected
  <2>4. sweep.ph = "delete" => sweep.doomed \cap Protected' = {}
    BY <1>8, <2>2, <2>3 DEF Protected
  <2> QED BY <1>1, <1>4, <2>1, <2>4 DEF SweepOK
<1> QED BY <1>2, <1>6, <1>7, <1>9, <1>10

\* A day passes.
LEMMA DayKeeps ==
    ASSUME RetentionInv, PassDay
    PROVE  RetentionInv'
<1> USE DEF RetentionInv
<1>1. /\ sweep = NoSweep /\ UNCHANGED <<ran, worker, startRow, logFile, updates, sweep, lifecycleVars>>
      /\ \A k \in Jobs : age'[k] = IF status[k] \in TerminalStatuses /\ age[k] < MaxAge THEN age[k] + 1 ELSE age[k]
  BY DEF PassDay
<1>2. MaxAge \in Nat /\ SucceededDays < MaxAge /\ FailedDays < MaxAge /\ SucceededDays \in Nat /\ FailedDays \in Nat
  BY RetentionAssumption DEF MaxAge
<1>3. \A k \in Jobs : age[k] \in 0..MaxAge /\ age'[k] \in 0..MaxAge /\ age[k] <= age'[k]
  BY <1>1, <1>2 DEF SweepTypes, RetentionTypeOK
<1>4. \A k \in Jobs : Expired(k) => Expired(k)'
  <2>1. \A k \in Jobs : WindowOf(status[k]) \in Nat
    BY <1>2 DEF WindowOf
  <2> QED BY <1>1, <1>2, <1>3, <2>1 DEF Expired, WindowOf, lifecycleVars
<1>5. SweepTypes'
  <2>1. age' \in [Jobs -> 0..MaxAge]
    BY <1>3 DEF PassDay
  <2> QED BY <1>1, <2>1 DEF SweepTypes, RetentionTypeOK, LifecycleTypeOK, lifecycleVars
<1>6. \A k \in Jobs : FlightOK(k)'
  BY <1>1 DEF FlightOK, Claimed, lifecycleVars
<1>7. \A q \in Projects : DirsOK(q)' /\ BaselineOK(q)'
  BY <1>1 DEF DirsOK, Claimed, BaselineOK, lifecycleVars
<1>8. SweepOK'
  BY <1>1 DEF SweepOK, NoSweep
<1> QED BY <1>5, <1>6, <1>7, <1>8

\* No step of the sweep, and no pruning after an update, takes the start snapshot behind
\* a baseline, or a directory's job.
LEMMA SweepStepKeeps ==
    ASSUME RetentionInv,
           BeginSweep \/ UnlinkLogs \/ SelectRows \/ DeleteRows \/ PruneAll \/ SweepStops
              \/ \E j \in Jobs : PruneAfterUpdate(j)
    PROVE  RetentionInv'
<1> USE DEF RetentionInv, lifecycleVars
<1>1. /\ UNCHANGED <<ran, age, status, owner, baseline>>
      /\ worker' = worker \/ \E j \in Jobs : worker[j] # "none" /\ worker' = [worker EXCEPT ![j] = "over"]
  BY DEF BeginSweep, UnlinkLogs, SelectRows, DeleteRows, PruneAll, SweepStops, PruneAfterUpdate, Reaches
<1>2. \A k \in Jobs : Expired(k)' <=> Expired(k)
  BY <1>1 DEF Expired
<1>3. /\ worker' \in [Jobs -> Working \cup {"none", "pruning", "over"}]
      /\ \A k \in Jobs : worker'[k] # "none" => worker[k] # "none"
  BY <1>1 DEF SweepTypes, RetentionTypeOK
<1>4. \A k \in Jobs : FlightOK(k)'
  BY <1>1, <1>3 DEF FlightOK, Claimed
<1>5. CASE BeginSweep \/ SelectRows
  <2>1. /\ UNCHANGED <<startRow, logFile, updates>>
        /\ sweep' \in [ph : SweepPhases, doomed : SUBSET Jobs]
    BY <1>5 DEF BeginSweep, SelectRows, SweepPhases
  <2>2. SweepTypes'
    BY <1>1, <1>3, <2>1 DEF SweepTypes, RetentionTypeOK, LifecycleTypeOK, SweepPhases
  <2>3. SweepOK'
    BY <1>1, <1>2, <1>5 DEF SweepOK, BeginSweep, SelectRows, Protected
  <2> QED BY <1>1, <1>4, <2>1, <2>2, <2>3 DEF DirsOK, Claimed, BaselineOK
<1>6. CASE SweepStops
  <2>1. UNCHANGED <<startRow, logFile, updates>> /\ sweep' = NoSweep
    BY <1>6 DEF SweepStops
  <2>2. SweepTypes' /\ SweepOK'
    BY <1>1, <1>3, <2>1 DEF SweepTypes, RetentionTypeOK, LifecycleTypeOK, SweepPhases, NoSweep, SweepOK
  <2> QED BY <1>1, <1>4, <2>1, <2>2 DEF DirsOK, Claimed, BaselineOK
<1>7. CASE UnlinkLogs
  <2>1. /\ UNCHANGED <<startRow, updates>> /\ sweep' = [ph |-> "rows", doomed |-> {}]
        /\ logFile' \in [Jobs -> BOOLEAN]
    BY <1>7 DEF UnlinkLogs, SweepTypes, RetentionTypeOK
  <2>2. SweepTypes' /\ SweepOK'
    BY <1>1, <1>3, <2>1 DEF SweepTypes, RetentionTypeOK, LifecycleTypeOK, SweepPhases, SweepOK
  <2> QED BY <1>1, <1>4, <2>1, <2>2 DEF DirsOK, Claimed, BaselineOK
<1>8. CASE DeleteRows
  <2>1. /\ UNCHANGED <<logFile, updates>> /\ sweep' = [ph |-> "prune", doomed |-> {}]
        /\ startRow' \in [Jobs -> BOOLEAN]
        /\ \A k \in Jobs : k \in Protected /\ startRow[k] => startRow'[k]
    BY <1>8 DEF DeleteRows, SweepOK, SweepTypes, RetentionTypeOK
  <2>2. SweepTypes' /\ SweepOK'
    BY <1>1, <1>3, <2>1 DEF SweepTypes, RetentionTypeOK, LifecycleTypeOK, SweepPhases, SweepOK
  <2>3. \A q \in Projects : BaselineOK(q)'
    BY <1>1, <2>1 DEF BaselineOK, Protected, SweepTypes, LifecycleTypeOK
  <2> QED BY <1>1, <1>4, <2>1, <2>2, <2>3 DEF DirsOK, Claimed
<1>9. CASE PruneAll \/ \E j \in Jobs : PruneAfterUpdate(j)
  <2>1. /\ UNCHANGED <<startRow, logFile>> /\ sweep' \in {sweep, NoSweep}
        /\ \A pr \in Projects : updates'[pr] \in {updates[pr], Newest(updates[pr])}
        /\ updates' = [pr \in Projects |-> updates'[pr]]
    BY <1>9 DEF PruneAll, PruneAfterUpdate, SweepTypes
  <2>2. ASSUME NEW pr \in Projects
        PROVE  /\ updates'[pr] \in Seq(Jobs)
               /\ \A i \in 1..Len(updates'[pr]) :
                     \E k \in 1..Len(updates[pr]) : updates'[pr][i] = updates[pr][k]
    <3>1. updates[pr] \in Seq(Jobs)
      BY DEF SweepTypes
    <3>2. CASE updates'[pr] = updates[pr]
      BY <3>1, <3>2
    <3>3. CASE updates'[pr] = Newest(updates[pr])
      <4> DEFINE dirs == updates[pr]
      <4>1. dirs \in Seq(Jobs) /\ updates'[pr] = Newest(dirs)
        BY <3>1, <3>3
      <4> HIDE DEF dirs
      <4>2. /\ Newest(dirs) \in Seq(Jobs)
            /\ \A i \in 1..Len(Newest(dirs)) : \E k \in 1..Len(dirs) : Newest(dirs)[i] = dirs[k]
        BY <4>1, NewestKeepsTheLast
      <4> QED BY <4>1, <4>2 DEF dirs
    <3> QED BY <2>1, <3>2, <3>3
  <2>3. updates' \in [Projects -> Seq(Jobs)]
    BY <2>1, <2>2
  <2>4. SweepTypes'
    BY <1>1, <1>3, <2>1, <2>2, <2>3 DEF SweepTypes, RetentionTypeOK, LifecycleTypeOK, SweepPhases, NoSweep
  <2>5. \A pr \in Projects : DirsOK(pr)'
    BY <1>1, <2>2 DEF DirsOK, Claimed
  <2>6. SweepOK'
    BY <1>1, <1>2, <2>1 DEF SweepOK, NoSweep, Protected, SweepTypes
  <2> QED BY <1>1, <1>4, <2>1, <2>4, <2>5, <2>6 DEF BaselineOK
<1> QED BY <1>5, <1>6, <1>7, <1>8, <1>9

\* The invariant of Retention.
LEMMA RetentionInvariant == RetentionSpec => []RetentionInv
<1>1. RetentionInv /\ [RetentionNext]_<<retentionVars, lifecycleVars>> => RetentionInv'
  <2> SUFFICES ASSUME RetentionInv, [RetentionNext]_<<retentionVars, lifecycleVars>> PROVE RetentionInv'
    OBVIOUS
  <2>1. CASE UNCHANGED <<retentionVars, lifecycleVars>>
    BY <2>1 DEF retentionVars, lifecycleVars, RetentionInv, SweepTypes, LifecycleTypeOK, RetentionTypeOK,
                FlightOK, Claimed, DirsOK, BaselineOK, SweepOK, Expired, Protected
  <2>2. ASSUME NEW j \in Jobs, NEW type \in Ingests \cup {"test_run"}, ClaimRun(j, type)
        PROVE  RetentionInv'
    BY <2>2, ClaimKeeps
  <2>3. ASSUME NEW j \in Jobs,
               \/ CaptureRun(j) \/ SpawnRun(j) \/ MakeDirectory(j) \/ WorkerDies(j)
               \/ \E s \in {"succeeded", "failed", "cancelled"} : DiscardResult(j, s)
        PROVE  RetentionInv'
    BY <2>3, WorkerKeeps
  <2>4. ASSUME NEW j \in Jobs,
               Reconcile(j) \/ \E s \in {"succeeded", "failed", "cancelled"} : EndRun(j, s)
        PROVE  RetentionInv'
    BY <2>4, EndKeeps
  <2> QED BY <2>1, <2>2, <2>3, <2>4, QueueKeeps, CancelKeeps, DayKeeps, SweepStepKeeps DEF RetentionNext
<1> QED BY <1>1, SweepStart, PTL DEF RetentionSpec

\* The jobs, their evidence and the sweep are such as the tables and the disk hold.
THEOREM RetentionTypes == RetentionSpec => []RetentionTypeOK
<1>1. RetentionInv => RetentionTypeOK
  BY DEF RetentionInv, SweepTypes
<1> QED BY <1>1, RetentionInvariant, PTL

\* Pruning takes the directory of a running update only if a job that has ended made
\* its own after it.
LEMMA PruningSparesTheRunning ==
    ASSUME RetentionInv, NEW j \in Jobs, KeepLatest > 0, status[j] = "running",
           Contains(updates[owner[j]], j)
    PROVE  Contains(Newest(updates[owner[j]]), j) \/ Overtaken(j)
<1> DEFINE dirs == updates[owner[j]]
<1> USE DEF RetentionInv
<1>1. owner[j] \in Projects /\ dirs \in Seq(Jobs) /\ Len(dirs) \in Nat
  BY LenProperties DEF FlightOK, ActiveStatuses, SweepTypes
<1>2. PICK i \in 1..Len(dirs) : dirs[i] = j
  BY DEF Contains
<1>3. Len(dirs) \in 1..Len(dirs) /\ Len(dirs) > 0
  BY <1>1, <1>2
<1>4. dirs[Len(dirs)] \in Jobs
  BY <1>1, <1>3, ElementOfSeq
<1>5. Claimed(dirs[Len(dirs)]) /\ owner[dirs[Len(dirs)]] = owner[j]
  BY <1>1, <1>3 DEF DirsOK
<1>6. CASE dirs[Len(dirs)] = j
  <2>1. \E k \in 1..Len(Newest(dirs)) : Newest(dirs)[k] = j
    BY <1>1, <1>3, <1>6, NewestKeepsTheLast
  <2> QED BY <2>1 DEF Contains
<1>7. CASE dirs[Len(dirs)] # j
  <2>1. status[dirs[Len(dirs)]] \in TerminalStatuses
    <3>1. status[dirs[Len(dirs)]] \in Statuses
      BY <1>4 DEF SweepTypes, LifecycleTypeOK
    <3>2. status[dirs[Len(dirs)]] # "running"
      BY <1>4, <1>5, <1>7 DEF FlightOK, ActiveStatuses
    <3> QED BY <1>5, <3>1, <3>2 DEF Claimed, Statuses, ActiveStatuses
  <2>2. i < Len(dirs)
    BY <1>1, <1>2, <1>7
  <2>3. DOMAIN dirs = 1..Len(dirs)
    BY <1>1, LenProperties
  <2> QED BY <1>2, <1>3, <2>1, <2>2, <2>3 DEF Overtaken
<1> QED BY <1>6, <1>7

\* Whatever the windows, wherever the sweep and the workers are: no start snapshot behind
\* a current baseline is deleted, which may have been promoted since the sweep selected
\* its rows; no log and no start snapshot of a job that has not ended or is within its
\* window; and, if directories are kept at all, that of a running update only if a worker
\* whose job had ended made its own after it.
THEOREM SweepsKeepTheEvidence == RetentionSpec => EvidenceIsKept
<1>1. RetentionInv' => BaselinesHaveEvidence'
  BY DEF RetentionInv, BaselineOK, BaselinesHaveEvidence
<1>2. RetentionInv /\ [RetentionNext]_<<retentionVars, lifecycleVars>>
        => [EvidenceRemains]_<<retentionVars, lifecycleVars>>
  <2> SUFFICES ASSUME RetentionInv, RetentionNext, NEW j \in Jobs, ~Expired(j)
               PROVE  /\ startRow[j] => startRow'[j]
                      /\ logFile[j] => logFile'[j]
                      /\ KeepLatest > 0 /\ status[j] = "running" /\ Contains(updates[owner[j]], j) =>
                            Contains(updates'[owner[j]], j) \/ Overtaken(j)
    BY DEF EvidenceRemains
  <2> USE DEF retentionVars
  <2>1. CASE UNCHANGED <<startRow, logFile, updates>>
    BY <2>1
  <2>2. CASE UnlinkLogs \/ DeleteRows
    BY <2>2 DEF UnlinkLogs, DeleteRows, RetentionInv, SweepOK
  <2>3. ASSUME NEW k \in Jobs, CaptureRun(k) \/ SpawnRun(k)
        PROVE  UNCHANGED updates /\ (startRow[j] => startRow'[j]) /\ (logFile[j] => logFile'[j])
    BY <2>3 DEF CaptureRun, SpawnRun, RetentionInv, SweepTypes, RetentionTypeOK
  <2>4. ASSUME NEW k \in Jobs, MakeDirectory(k), Contains(updates[owner[j]], j), status[j] = "running"
        PROVE  Contains(updates'[owner[j]], j)
    <3>1. owner[j] \in Projects /\ updates[owner[j]] \in Seq(Jobs) /\ updates \in [Projects -> Seq(Jobs)]
      BY <2>4 DEF RetentionInv, FlightOK, ActiveStatuses, SweepTypes
    <3> DEFINE dirs == updates[owner[j]]
    <3>2. updates'[owner[j]] = dirs \/ updates'[owner[j]] = Append(dirs, k)
      BY <2>4, <3>1 DEF MakeDirectory
    <3>3. /\ Len(Append(dirs, k)) = Len(dirs) + 1 /\ Len(dirs) \in Nat
          /\ \A i \in 1..Len(dirs) : Append(dirs, k)[i] = dirs[i]
      BY <3>1, AppendProperties, LenProperties
    <3>4. PICK i \in 1..Len(dirs) : dirs[i] = j
      BY <2>4 DEF Contains
    <3> HIDE DEF dirs
    <3>5. i \in 1..Len(updates'[owner[j]]) /\ updates'[owner[j]][i] = j
      BY <3>2, <3>3, <3>4
    <3> QED BY <3>5 DEF Contains
  <2>5. ASSUME PruneAll \/ \E k \in Jobs : PruneAfterUpdate(k),
               Contains(updates[owner[j]], j), status[j] = "running", KeepLatest > 0
        PROVE  Contains(updates'[owner[j]], j) \/ Overtaken(j)
    <3>1. owner[j] \in Projects /\ updates \in [Projects -> Seq(Jobs)]
      BY <2>5 DEF RetentionInv, FlightOK, ActiveStatuses, SweepTypes
    <3>2. updates'[owner[j]] \in {updates[owner[j]], Newest(updates[owner[j]])}
      BY <2>5, <3>1 DEF PruneAll, PruneAfterUpdate
    <3> QED BY <2>5, <3>2, PruningSparesTheRunning
  <2>6. (PruneAll \/ \E k \in Jobs : PruneAfterUpdate(k) \/ MakeDirectory(k)) => UNCHANGED <<startRow, logFile>>
    BY DEF PruneAll, PruneAfterUpdate, MakeDirectory
  <2>7. CASE \E k \in Jobs : CaptureRun(k) \/ SpawnRun(k)
    BY <2>3, <2>7
  <2>8. CASE PruneAll \/ \E k \in Jobs : PruneAfterUpdate(k) \/ MakeDirectory(k)
    BY <2>4, <2>5, <2>6, <2>8
  <2>9. QueueRun \/ CancelQueuedRun \/ PassDay \/ BeginSweep \/ SelectRows \/ SweepStops
          => UNCHANGED <<startRow, logFile, updates>>
    BY DEF QueueRun, CancelQueuedRun, PassDay, BeginSweep, SelectRows, SweepStops
  <2>10. ASSUME NEW k \in Jobs,
                \/ \E type \in Ingests \cup {"test_run"} : ClaimRun(k, type)
                \/ \E s \in {"succeeded", "failed", "cancelled"} : EndRun(k, s) \/ DiscardResult(k, s)
                \/ WorkerDies(k) \/ Reconcile(k)
         PROVE  UNCHANGED <<startRow, logFile, updates>>
    BY <2>10 DEF ClaimRun, EndRun, DiscardResult, Reports, WorkerDies, Reconcile
  <2> QED BY <2>1, <2>2, <2>7, <2>8, <2>9, <2>10 DEF RetentionNext
<1>3. RetentionInv /\ RetentionInv' /\ [RetentionNext]_<<retentionVars, lifecycleVars>>
        => [BaselinesHaveEvidence' /\ EvidenceRemains]_<<retentionVars, lifecycleVars>>
  BY <1>1, <1>2
<1> QED BY <1>3, RetentionInvariant, PTL DEF RetentionSpec, EvidenceIsKept

-----------------------------------------------------------------------------
(* input/ and its rows (InputFiles).                                       *)

\* A hash that may stand for a file is older than the racy window, and is the
\* file's if the file has its mtime.
Trusted(n, entry) ==
    entry.stamp # 0 => entry.stamp < window /\ (disk[n].stamp = entry.stamp => disk[n].text = entry.text)

\* What a listing set out from and what it has found so far.
ListingOK(r) ==
    /\ r.settled <= window
    /\ ~late => \A n \in Names :
          /\ Trusted(n, r.known[n])
          /\ r.ph = "statted" => r.scan[n].text = Absent \/ Trusted(n, r.scan[n])
          /\ r.ph = "hashed" => Trusted(n, r.scan[n])

\* An upload has one file to apply, and room for it once it has the lock; the
\* input is not frozen as long as anybody has the lock.
RequestOK(r) ==
    /\ r.op = "enqueue" => r.ph = "ready"
    /\ r.op = "upload" /\ r.ph \in {"ready", "locked"} => \E n \in Names : r.todo = {n}
    /\ r.op = "upload" /\ r.ph = "locked" => Cardinality(OnDisk) + 1 <= quota
    /\ r.ph \in {"locked", "applied"} => indexer.ph = "none"

FilesInv ==
    /\ FilesTypeOK
    /\ UploadsStayWithinQuota
    /\ ~late => \A n \in Names : Trusted(n, rows[n])
    /\ \A c \in Clients : RequestOK(client[c]) /\ ListingOK(client[c])
    /\ StartSnapshotIsTheInput

\* What is on disk is finite.
LEMMA OnDiskCounts == Cardinality(OnDisk) \in Nat /\ IsFiniteSet(OnDisk)
BY DocumentsAssumption, FS_Subset, FS_CardinalityType DEF OnDisk

\* The invariant holds at the start.
LEMMA FilesStart == FilesInit => FilesInv
<1> SUFFICES ASSUME FilesInit PROVE FilesInv
  OBVIOUS
<1>1. PICK copied \in SUBSET Names, t \in Texts :
          /\ quota \in Quotas /\ Cardinality(copied) <= quota
          /\ disk = [n \in Names |-> IF n \in copied THEN [text |-> t, stamp |-> 1] ELSE NoFile]
  BY DEF FilesInit
<1>2. /\ rows = [n \in Names |-> NoRow] /\ window = 1 /\ holder = NoClient /\ late = FALSE
      /\ indexer = [ph |-> "none", start |-> Nothing]
      /\ client = [c \in Clients |-> Done] /\ asked = 0 /\ failed = 0
  BY DEF FilesInit
<1>3. OnDisk = copied
  BY <1>1 DEF OnDisk, NoFile
<1>4. Done \in Client
  BY FilesBounds DEF Done, Client, File, Row, NoFile, NoRow
<1>5. FilesTypeOK
  <2>1. disk \in [Names -> File]
    BY <1>1, FilesBounds DEF File, NoFile
  <2>2. rows \in [Names -> Row]
    BY <1>2, FilesBounds DEF Row, NoRow
  <2>3. indexer \in [ph : {"none", "queued", "captured"}, start : Entries]
    BY <1>2 DEF Entries, Nothing
  <2>4. client \in [Clients -> Client] /\ \A c \in Clients : client[c].ph = "idle"
    BY <1>2, <1>4 DEF Done
  <2>5. \A c \in Clients : holder = c <=> client[c].ph \in {"locked", "applied"}
    BY <1>2, <2>4, ClientsAssumption
  <2>6. /\ quota \in Quotas /\ window \in 1..MaxWindow /\ late \in BOOLEAN
        /\ holder \in Clients \cup {NoClient} /\ asked \in 0..MaxAsked /\ failed \in 0..MaxFailed
    <3>1. quota \in Quotas
      BY <1>1
    <3>2. 1 \in 1..MaxWindow /\ 0 \in 0..MaxAsked /\ 0 \in 0..MaxFailed
      BY FilesBounds
    <3> QED BY <1>2, <3>1, <3>2
  <2> QED BY <2>1, <2>2, <2>3, <2>4, <2>5, <2>6 DEF FilesTypeOK
<1>6. \A c \in Clients : RequestOK(client[c]) /\ ListingOK(client[c])
  BY <1>2 DEF RequestOK, ListingOK, Done, Trusted, NoRow, NoFile
<1> QED BY <1>1, <1>2, <1>3, <1>5, <1>6
        DEF FilesInv, UploadsStayWithinQuota, Trusted, NoRow, StartSnapshotIsTheInput

\* The requests keep to their types.
LEMMA RequestTypes ==
    ASSUME FilesTypeOK, NEW c \in Clients, NEW r \in Client, Goes(c, r)
    PROVE  client' \in [Clients -> Client]
BY DEF FilesTypeOK, Goes

\* What a step does to one request only.
LEMMA OneRequestMoves ==
    ASSUME FilesInv, NEW c \in Clients, NEW r \in Client, Goes(c, r),
           UNCHANGED <<disk, rows, quota, window, indexer, late>>,
           asked' \in 0..MaxAsked, failed' \in 0..MaxFailed,
           holder' \in Clients \cup {NoClient},
           \A d \in Clients : holder' = d <=> client'[d].ph \in {"locked", "applied"},
           RequestOK(r), ListingOK(r)
    PROVE  FilesInv'
<1> USE DEF FilesInv
<1>1. client' \in [Clients -> Client]
  BY RequestTypes
<1>2. FilesTypeOK'
  BY <1>1 DEF FilesTypeOK
<1>3. \A d \in Clients : client'[d] = client[d] \/ client'[d] = r
  BY DEF Goes, FilesTypeOK
<1>4. OnDisk' = OnDisk
  BY DEF OnDisk
<1>5. \A d \in Clients : RequestOK(client[d])' /\ ListingOK(client[d])'
  BY <1>3, <1>4 DEF RequestOK, ListingOK, Trusted
<1>6. StartSnapshotIsTheInput' /\ UploadsStayWithinQuota'
  BY <1>4 DEF StartSnapshotIsTheInput, UploadsStayWithinQuota, Texted
<1> QED BY <1>2, <1>5, <1>6 DEF Trusted

\* A request arrives and reads before it has the lock.
LEMMA AskKeeps ==
    ASSUME FilesInv, NEW c \in Clients,
           \/ \E n \in Names, t \in Texts : Upload(c, n, t)
           \/ \E ns \in SUBSET Names : Delete(c, ns)
           \/ ReadRows(c) \/ CheckUsage(c)
    PROVE  FilesInv'
<1> USE DEF FilesInv
<1>1. /\ client[c].ph = "idle" /\ asked' = asked + 1 /\ asked < MaxAsked
      /\ UNCHANGED <<disk, rows, quota, window, holder, indexer, failed, late>>
  BY DEF Upload, Delete, ReadRows, CheckUsage, Asks
<1>2. asked + 1 \in 0..MaxAsked /\ window \in 1..MaxWindow
  BY <1>1, FilesBounds DEF FilesTypeOK
<1>3. Done \in Client
  BY FilesBounds DEF Done, Client, File, Row, NoFile, NoRow
<1>4. /\ Done.ph = "idle" /\ Done.settled = 0 /\ Done.scan = [n \in Names |-> NoFile]
      /\ Done.known = [n \in Names |-> NoRow] /\ Done.todo = {}
  BY DEF Done
<1>5. \E r \in Client : Goes(c, r) /\ r.ph = "ready" /\ RequestOK(r) /\ ListingOK(r)
  <2>1. ASSUME NEW n \in Names, NEW t \in Texts, Upload(c, n, t)
        PROVE  \E r \in Client : Goes(c, r) /\ r.ph = "ready" /\ RequestOK(r) /\ ListingOK(r)
    <3> DEFINE r == [Done EXCEPT !.op = "upload", !.ph = "ready", !.id = asked + 1, !.todo = {n},
                                 !.file = [text |-> t, stamp |-> window]]
    <3>1. r \in Client
      <4>1. [text |-> t, stamp |-> window] \in File
        BY <1>2 DEF File
      <4> QED BY <1>2, <1>3, <4>1 DEF Client
    <3>2. /\ r.op = "upload" /\ r.ph = "ready" /\ r.todo = {n} /\ r.settled = 0
          /\ r.known = [m \in Names |-> NoRow]
      BY <1>4 DEF Done
    <3>3. Goes(c, r)
      BY <2>1 DEF Upload
    <3> HIDE DEF r
    <3>4. RequestOK(r) /\ ListingOK(r)
      BY <1>2, <3>2 DEF RequestOK, ListingOK, Trusted, NoRow
    <3> QED BY <3>1, <3>2, <3>3, <3>4
  <2>2. ASSUME NEW ns \in SUBSET Names, Delete(c, ns)
        PROVE  \E r \in Client : Goes(c, r) /\ r.ph = "ready" /\ RequestOK(r) /\ ListingOK(r)
    <3> DEFINE r == [Done EXCEPT !.op = "delete", !.ph = "ready", !.id = asked + 1, !.todo = ns]
    <3>1. r \in Client
      BY <1>2, <1>3 DEF Client
    <3>2. /\ r.op = "delete" /\ r.ph = "ready" /\ r.settled = 0 /\ r.known = [m \in Names |-> NoRow]
      BY <1>4 DEF Done
    <3>3. Goes(c, r)
      BY <2>2 DEF Delete
    <3> HIDE DEF r
    <3>4. RequestOK(r) /\ ListingOK(r)
      BY <1>2, <3>2 DEF RequestOK, ListingOK, Trusted, NoRow
    <3> QED BY <3>1, <3>2, <3>3, <3>4
  <2>3. ASSUME ReadRows(c)
        PROVE  \E r \in Client : Goes(c, r) /\ r.ph = "ready" /\ RequestOK(r) /\ ListingOK(r)
    <3> DEFINE r == [Done EXCEPT !.op = "list", !.ph = "ready", !.id = asked + 1, !.known = rows]
    <3>1. r \in Client
      BY <1>2, <1>3 DEF Client, FilesTypeOK
    <3>2. /\ r.op = "list" /\ r.ph = "ready" /\ r.settled = 0 /\ r.known = rows
      BY <1>4 DEF Done
    <3>3. Goes(c, r)
      BY <2>3 DEF ReadRows
    <3> HIDE DEF r
    <3>4. RequestOK(r) /\ ListingOK(r)
      BY <1>2, <3>2 DEF RequestOK, ListingOK
    <3> QED BY <3>1, <3>2, <3>3, <3>4
  <2>4. ASSUME CheckUsage(c)
        PROVE  \E r \in Client : Goes(c, r) /\ r.ph = "ready" /\ RequestOK(r) /\ ListingOK(r)
    <3> DEFINE r == [Done EXCEPT !.op = "enqueue", !.ph = "ready"]
    <3>1. r \in Client
      BY <1>3 DEF Client
    <3>2. /\ r.op = "enqueue" /\ r.ph = "ready" /\ r.settled = 0 /\ r.known = [m \in Names |-> NoRow]
      BY <1>4 DEF Done
    <3>3. Goes(c, r)
      BY <2>4 DEF CheckUsage
    <3> HIDE DEF r
    <3>4. RequestOK(r) /\ ListingOK(r)
      BY <1>2, <3>2 DEF RequestOK, ListingOK, Trusted, NoRow
    <3> QED BY <3>1, <3>2, <3>3, <3>4
  <2> QED BY <2>1, <2>2, <2>3, <2>4
<1>6. PICK r \in Client : Goes(c, r) /\ r.ph = "ready" /\ RequestOK(r) /\ ListingOK(r)
  BY <1>5
<1>7. \A d \in Clients : holder' = d <=> client'[d].ph \in {"locked", "applied"}
  BY <1>1, <1>6 DEF Goes, FilesTypeOK
<1> QED BY <1>1, <1>2, <1>6, <1>7, OneRequestMoves DEF FilesTypeOK

\* A request that is over promises nothing.
LEMMA EndOfRequest ==
    Done \in Client /\ (FilesInv => RequestOK(Done) /\ ListingOK(Done)) /\ Done.ph = "idle"
<1>1. Done \in Client
  BY FilesBounds DEF Done, Client, File, Row, NoFile, NoRow
<1>2. FilesInv => 0 <= window
  BY FilesBounds DEF FilesInv, FilesTypeOK
<1> QED BY <1>1, <1>2 DEF Done, RequestOK, ListingOK, Trusted, NoRow

\* A step that ends a request and leaves the files alone.
LEMMA EndKeepsFiles ==
    ASSUME FilesInv, NEW c \in Clients, Ends(c),
           UNCHANGED <<disk, rows, quota, window, indexer, asked, late>>,
           failed' \in 0..MaxFailed,
           holder' = IF client[c].ph \in {"locked", "applied"} THEN NoClient ELSE holder
    PROVE  FilesInv'
<1>1. Goes(c, Done) /\ Done \in Client /\ RequestOK(Done) /\ ListingOK(Done) /\ Done.ph = "idle"
  BY EndOfRequest DEF Ends
<1>2. \A d \in Clients : client'[d] = IF d = c THEN Done ELSE client[d]
  BY <1>1 DEF Goes, FilesInv, FilesTypeOK
<1>3. \A d \in Clients : holder = d <=> client[d].ph \in {"locked", "applied"}
  BY DEF FilesInv, FilesTypeOK
<1>4. \A d \in Clients : holder' = d <=> client'[d].ph \in {"locked", "applied"}
  BY <1>1, <1>2, <1>3, ClientsAssumption
<1> QED BY <1>1, <1>4, OneRequestMoves DEF FilesInv, FilesTypeOK

\* An upload or a deletion takes the project lock.
LEMMA LockKeeps ==
    ASSUME FilesInv, NEW c \in Clients, TakeProjectLock(c)
    PROVE  FilesInv'
<1>1. /\ client[c].ph = "ready" /\ client[c].op \in {"upload", "delete"} /\ holder = NoClient
      /\ UNCHANGED <<disk, rows, quota, window, indexer, asked, failed, late>>
  BY DEF TakeProjectLock, ProjectLockFree
<1>2. CASE Ends(c) /\ UNCHANGED holder
  BY <1>1, <1>2, EndKeepsFiles DEF FilesInv, FilesTypeOK
<1>3. CASE InputThawed /\ QuotaAllows(c) /\ holder' = c /\ Goes(c, [client[c] EXCEPT !.ph = "locked"])
  <2> DEFINE r == [client[c] EXCEPT !.ph = "locked"]
  <2>1. client[c] \in Client /\ r \in Client
    BY ZenonT(60) DEF FilesInv, FilesTypeOK, Client
  <2>2. /\ r.ph = "locked" /\ r.op = client[c].op /\ r.todo = client[c].todo
        /\ r.known = client[c].known /\ r.settled = client[c].settled
    BY <2>1 DEF Client
  <2>3. Goes(c, r)
    BY <1>3
  <2> HIDE DEF r
  <2>4. RequestOK(r) /\ ListingOK(r)
    BY <1>1, <1>3, <2>2 DEF FilesInv, RequestOK, ListingOK, QuotaAllows, InputThawed
  <2>5. \A d \in Clients : holder = d <=> client[d].ph \in {"locked", "applied"}
    BY DEF FilesInv, FilesTypeOK
  <2>6. \A d \in Clients : client'[d] = IF d = c THEN r ELSE client[d]
    BY <2>3 DEF Goes, FilesInv, FilesTypeOK
  <2>7. \A d \in Clients : holder' = d <=> client'[d].ph \in {"locked", "applied"}
    BY <1>1, <1>3, <2>2, <2>5, <2>6, ClientsAssumption
  <2> QED BY <1>1, <1>3, <2>1, <2>3, <2>4, <2>7, OneRequestMoves DEF FilesInv, FilesTypeOK
<1> QED BY <1>2, <1>3 DEF TakeProjectLock

\* What an upload or a deletion does to one file under the lock: the others hold
\* nothing that depends on the lock, and no entry that is trusted has the mtime
\* of a file renamed in the window of its stream.
LEMMA ApplyKeeps ==
    ASSUME FilesInv, NEW c \in Clients, NEW n \in Names,
           Replace(c, n) \/ Unlink(c, n) \/ UnlinkFails(c, n)
    PROVE  FilesInv'
<1> USE DEF FilesInv
<1>1. /\ client[c].ph = "locked" /\ n \in client[c].todo /\ client[c].op \in {"upload", "delete"}
      /\ UNCHANGED <<rows, quota, window, holder, indexer, asked>>
      /\ failed' \in 0..MaxFailed
      /\ client[c] \in Client
  BY FilesBounds DEF Replace, Unlink, UnlinkFails, FilesTypeOK
<1>2. /\ AppliedTo(c, n) \in Client
      /\ AppliedTo(c, n).op = client[c].op /\ AppliedTo(c, n).known = client[c].known
      /\ AppliedTo(c, n).settled = client[c].settled
      /\ AppliedTo(c, n).ph = IF client[c].todo = {n} THEN "applied" ELSE "locked"
  BY <1>1 DEF AppliedTo, Client
<1>3. PICK r \in Client : /\ Goes(c, r) /\ r.op = client[c].op /\ r.known = client[c].known
                          /\ r.settled = client[c].settled
                          /\ r.ph = IF client[c].todo = {n} THEN "applied" ELSE "locked"
  <2>1. CASE UnlinkFails(c, n)
    <3> DEFINE s == [AppliedTo(c, n) EXCEPT !.touched = client[c].touched]
    <3>1. /\ s \in Client /\ s.op = AppliedTo(c, n).op /\ s.known = AppliedTo(c, n).known
          /\ s.settled = AppliedTo(c, n).settled /\ s.ph = AppliedTo(c, n).ph
      BY <1>1, <1>2 DEF Client
    <3>2. Goes(c, s)
      BY <2>1 DEF UnlinkFails
    <3> QED BY <1>2, <3>1, <3>2
  <2>2. CASE ~UnlinkFails(c, n)
    BY <1>2, <2>2 DEF Replace, Unlink
  <2> QED BY <2>1, <2>2
<1>4. holder = c /\ \A d \in Clients : holder = d <=> client[d].ph \in {"locked", "applied"}
  BY <1>1 DEF FilesTypeOK
<1>5. \A d \in Clients : client'[d] = IF d = c THEN r ELSE client[d]
  BY <1>3 DEF Goes, FilesTypeOK
<1>6. disk' \in [Names -> File] /\ late' \in BOOLEAN /\ (late => late')
  <2>1. client[c].file \in File /\ NoFile \in File
    BY <1>1, FilesBounds DEF Client, File, NoFile
  <2>2. disk' \in [Names -> File]
    BY <2>1 DEF Replace, Unlink, UnlinkFails, FilesTypeOK
  <2>3. late' \in BOOLEAN /\ (late => late')
    BY Zenon DEF Replace, Unlink, UnlinkFails, FilesTypeOK
  <2> QED BY <2>2, <2>3
<1>7. FilesTypeOK'
  <2>1. client' \in [Clients -> Client]
    BY <1>3, RequestTypes
  <2>2. \A d \in Clients : holder' = d <=> client'[d].ph \in {"locked", "applied"}
    BY <1>1, <1>3, <1>4, <1>5
  <2> QED BY <1>1, <1>6, <2>1, <2>2 DEF FilesTypeOK
<1>8. ASSUME NEW m \in Names, NEW entry, Trusted(m, entry), ~late'
      PROVE  Trusted(m, entry)'
  <2>1. \/ disk'[m] = disk[m]
        \/ disk'[m].stamp = 0
        \/ disk'[m].stamp = window
    <3>1. disk' = disk \/ disk' = [disk EXCEPT ![n] = NoFile]
            \/ (disk' = [disk EXCEPT ![n] = client[c].file] /\ client[c].file.stamp = window)
      BY <1>8 DEF Replace, Unlink, UnlinkFails
    <3> QED BY <3>1 DEF FilesTypeOK, NoFile
  <2>2. window \in Nat
    BY DEF FilesTypeOK
  <2> QED BY <1>1, <1>8, <2>1, <2>2 DEF Trusted
<1>9. Cardinality(OnDisk') <= quota /\ Cardinality(OnDisk) \in Nat /\ quota \in Nat
  <2>1. Cardinality(OnDisk) \in Nat /\ IsFiniteSet(OnDisk) /\ Cardinality(OnDisk) <= quota /\ quota \in Nat
    BY OnDiskCounts, FilesBounds DEF UploadsStayWithinQuota, FilesTypeOK
  <2>2. CASE Replace(c, n)
    <3>1. Cardinality(OnDisk) + 1 <= quota
      BY <1>1, <2>2 DEF RequestOK, Replace
    <3>2. IsFiniteSet(OnDisk \cup {n}) /\ Cardinality(OnDisk \cup {n}) <= Cardinality(OnDisk) + 1
      <4> DEFINE before == OnDisk
      <4> HIDE DEF before
      <4>1. /\ IsFiniteSet(before \cup {n})
            /\ Cardinality(before \cup {n}) = IF n \in before THEN Cardinality(before) ELSE Cardinality(before) + 1
        BY <2>1, FS_AddElement DEF before
      <4> QED BY <2>1, <4>1 DEF before
    <3>3. OnDisk' \in SUBSET (OnDisk \cup {n})
      BY <2>2 DEF Replace, OnDisk, FilesTypeOK
    <3>4. Cardinality(OnDisk') <= Cardinality(OnDisk \cup {n}) /\ IsFiniteSet(OnDisk')
      BY <3>2, <3>3, FS_Subset
    <3>5. Cardinality(OnDisk') \in Nat /\ Cardinality(OnDisk \cup {n}) \in Nat
      BY <3>2, <3>4, FS_CardinalityType
    <3> QED BY <2>1, <3>1, <3>2, <3>4, <3>5
  <2>3. CASE Unlink(c, n) \/ UnlinkFails(c, n)
    <3>1. OnDisk' \in SUBSET OnDisk
      BY <2>3 DEF Unlink, UnlinkFails, OnDisk, FilesTypeOK
    <3>2. Cardinality(OnDisk') <= Cardinality(OnDisk) /\ IsFiniteSet(OnDisk')
      BY <2>1, <3>1, FS_Subset
    <3>3. Cardinality(OnDisk') \in Nat
      BY <3>2, FS_CardinalityType
    <3> QED BY <2>1, <3>2, <3>3
  <2> QED BY <2>1, <2>2, <2>3
<1>10. indexer.ph = "none"
  BY <1>1 DEF RequestOK
<1>11. ASSUME NEW d \in Clients PROVE RequestOK(client[d])' /\ ListingOK(client[d])'
  <2>1. CASE d = c
    <3>1. ListingOK(r)'
      BY <1>1, <1>3, <1>6, <1>8 DEF ListingOK
    <3>2. r.op = "upload" => r.ph = "applied"
      BY <1>1, <1>3 DEF RequestOK
    <3>3. RequestOK(r)'
      BY <1>1, <1>3, <1>10, <3>2 DEF RequestOK
    <3> QED BY <1>5, <2>1, <3>1, <3>3 DEF RequestOK, ListingOK, Trusted
  <2>2. CASE d # c
    <3>1. client'[d] = client[d] /\ client[d].ph \notin {"locked", "applied"}
      BY <1>4, <1>5, <2>2
    <3>2. RequestOK(client[d])'
      BY <1>1, <3>1 DEF RequestOK
    <3>3. ListingOK(client[d])'
      BY <1>1, <1>6, <1>8, <3>1 DEF ListingOK
    <3> QED BY <3>2, <3>3
  <2> QED BY <2>1, <2>2
<1>12. ~late' => \A m \in Names : Trusted(m, rows[m])'
  BY <1>1, <1>6, <1>8
<1> QED BY <1>1, <1>7, <1>9, <1>10, <1>11, <1>12 DEF UploadsStayWithinQuota, StartSnapshotIsTheInput

\* A request that ends and leaves other rows behind, which are the ones a listing
\* trusts or have no mtime.
LEMMA RowsKeep ==
    ASSUME FilesInv, NEW c \in Clients, Ends(c),
           UNCHANGED <<disk, quota, window, indexer, asked, failed, late>>,
           rows' \in [Names -> Row], ~late => \A n \in Names : Trusted(n, rows'[n]),
           holder' = IF client[c].ph \in {"locked", "applied"} THEN NoClient ELSE holder
    PROVE  FilesInv'
<1> USE DEF FilesInv
<1>1. Goes(c, Done) /\ Done \in Client /\ RequestOK(Done) /\ ListingOK(Done) /\ Done.ph = "idle"
  BY EndOfRequest DEF Ends
<1>2. \A d \in Clients : client'[d] = IF d = c THEN Done ELSE client[d]
  BY <1>1 DEF Goes, FilesTypeOK
<1>3. \A d \in Clients : holder = d <=> client[d].ph \in {"locked", "applied"}
  BY DEF FilesTypeOK
<1>4. \A d \in Clients : holder' = d <=> client'[d].ph \in {"locked", "applied"}
  BY <1>1, <1>2, <1>3, ClientsAssumption
<1>5. client' \in [Clients -> Client]
  BY <1>1, RequestTypes
<1>6. FilesTypeOK'
  BY <1>4, <1>5 DEF FilesTypeOK
<1>7. OnDisk' = OnDisk
  BY DEF OnDisk
<1>8. \A d \in Clients : RequestOK(client[d])' /\ ListingOK(client[d])'
  BY <1>1, <1>2, <1>7 DEF RequestOK, ListingOK, Trusted
<1>9. StartSnapshotIsTheInput' /\ UploadsStayWithinQuota'
  BY <1>7 DEF StartSnapshotIsTheInput, UploadsStayWithinQuota, Texted
<1> QED BY <1>6, <1>8, <1>9 DEF Trusted

\* The rows are committed with what was done to the files.
LEMMA CommitKeeps ==
    ASSUME FilesInv, NEW c \in Clients, CommitFiles(c) \/ CommitFilesFails(c)
    PROVE  FilesInv'
<1>1. client[c].ph = "applied" /\ client[c] \in Client /\ holder' = NoClient /\ Ends(c)
  BY DEF CommitFiles, CommitFilesFails, FilesInv, FilesTypeOK
<1>2. CASE CommitFilesFails(c)
  <2>1. UNCHANGED <<disk, rows, quota, window, indexer, asked, late>>
    BY <1>2 DEF CommitFilesFails
  <2>2. failed' \in 0..MaxFailed
    BY <1>2, FilesBounds DEF CommitFilesFails, FilesInv, FilesTypeOK
  <2> QED BY <1>1, <2>1, <2>2, EndKeepsFiles
<1>3. CASE CommitFiles(c)
  <2>1. UNCHANGED <<disk, quota, window, indexer, asked, failed, late>>
    BY <1>3 DEF CommitFiles
  <2>2. NoRow \in Row /\ NoRow.stamp = 0
    BY FilesBounds DEF NoRow, Row
  <2>3. \A n \in Names : rows[n] \in Row /\ (~late => Trusted(n, rows[n]))
    BY DEF FilesInv, FilesTypeOK
  <2> DEFINE upserted(n) == [id |-> IF rows[n] = NoRow THEN client[c].id ELSE rows[n].id,
                             text |-> client[c].file.text, stamp |-> 0]
  <2>4. \A n \in Names : upserted(n) \in Row /\ upserted(n).stamp = 0
    BY <1>1, <2>3, FilesBounds DEF Row, Client, File
  <2>5. rows' = [n \in Names |-> IF n \notin client[c].touched THEN rows[n]
                                 ELSE IF client[c].op = "upload" THEN upserted(n) ELSE NoRow]
    BY <1>3 DEF CommitFiles
  <2> HIDE DEF upserted
  <2>6. rows' \in [Names -> Row] /\ (~late => \A n \in Names : Trusted(n, rows'[n]))
    BY <2>2, <2>3, <2>4, <2>5 DEF Trusted
  <2> QED BY <1>1, <2>1, <2>6, RowsKeep
<1> QED BY <1>2, <1>3

\* A listing inserts the rows it discovered and commits.
LEMMA FinishKeeps ==
    ASSUME FilesInv, NEW c \in Clients, FinishListing(c)
    PROVE  FilesInv'
<1>1. /\ client[c].ph = "hashed" /\ client[c] \in Client /\ Ends(c)
      /\ UNCHANGED <<disk, quota, window, holder, indexer, asked, failed, late>>
  BY DEF FinishListing, FilesInv, FilesTypeOK
<1>2. PICK r \in Client : r = client[c]
  BY <1>1
<1>3. /\ ~late => \A n \in Names : Trusted(n, rows[n]) /\ Trusted(n, r.scan[n])
      /\ \A n \in Names : rows[n] \in Row /\ r.scan[n] \in File
      /\ r.id \in 0..MaxAsked
  BY <1>1, <1>2 DEF FilesInv, FilesTypeOK, ListingOK, Client
<1>4. \A n \in Names, id \in 0..MaxAsked :
          /\ Learned(r, n, id) \in Row
          /\ Trusted(n, r.scan[n]) => Trusted(n, Learned(r, n, id))
  BY <1>3 DEF Learned, Row, File, Trusted
<1>5. rows' = [n \in Names |->
          IF n \in r.touched THEN Learned(r, n, rows[n].id)
          ELSE IF n \in Untracked(r) /\ rows[n] = NoRow THEN Learned(r, n, r.id)
          ELSE rows[n]]
  BY <1>2 DEF FinishListing
<1>6. \A n \in Names : rows[n].id \in 0..MaxAsked
  BY <1>3 DEF Row
<1>7. rows' \in [Names -> Row] /\ (~late => \A n \in Names : Trusted(n, rows'[n]))
  BY <1>3, <1>4, <1>5, <1>6
<1> QED BY <1>1, <1>7, RowsKeep

\* A step of a listing that has no lock and touches nothing of others.
LEMMA ListingKeeps ==
    ASSUME FilesInv, NEW c \in Clients, NEW r \in Client, Goes(c, r),
           UNCHANGED <<disk, rows, quota, window, holder, indexer, asked, failed, late>>,
           r.op # "enqueue", r.ph \in {"statted", "hashed"},
           client[c].ph \notin {"locked", "applied"},
           ListingOK(r)
    PROVE  FilesInv'
<1>1. \A d \in Clients : client'[d] = IF d = c THEN r ELSE client[d]
  BY DEF Goes, FilesInv, FilesTypeOK
<1>2. \A d \in Clients : holder' = d <=> client'[d].ph \in {"locked", "applied"}
  BY <1>1 DEF FilesInv, FilesTypeOK
<1>3. RequestOK(r)
  BY DEF RequestOK
<1> QED BY <1>2, <1>3, OneRequestMoves DEF FilesInv, FilesTypeOK

\* A listing stats the files.
LEMMA StatKeeps ==
    ASSUME FilesInv, NEW c \in Clients, Stat(c)
    PROVE  FilesInv'
<1> USE DEF FilesInv
<1>1. /\ client[c].op = "list" /\ client[c].ph = "ready" /\ client[c] \in Client
      /\ UNCHANGED <<disk, rows, quota, window, holder, indexer, asked, failed, late>>
      /\ window \in 1..MaxWindow /\ ListingOK(client[c])
  BY DEF Stat, FilesTypeOK
<1> DEFINE found == [n \in Names |->
              [text |-> IF Cached(client[c].known, n) THEN client[c].known[n].text ELSE Absent,
               stamp |-> disk[n].stamp]]
           r == [client[c] EXCEPT !.ph = "statted", !.settled = window, !.scan = found]
<1>2. \A n \in Names : disk[n] \in File /\ client[c].known[n] \in Row
  BY <1>1 DEF FilesTypeOK, Client
<1>3. found \in [Names -> File]
  <2>1. ASSUME NEW n \in Names PROVE found[n] \in File
    BY <1>2 DEF File, Row
  <2> QED BY <2>1
<1>4. \A n \in Names : found[n].text = Absent \/ ~Trusted(n, client[c].known[n]) \/ Trusted(n, found[n])
  BY <1>2 DEF Cached, Trusted, Row, File
<1>5. Goes(c, r)
  BY DEF Stat
<1> HIDE DEF found
<1>6. r \in Client
  <2>1. window \in 0..MaxWindow
    BY <1>1, FilesBounds
  <2> QED BY <1>1, <1>3, <2>1 DEF Client
<1>7. r.op = "list" /\ r.ph = "statted" /\ r.settled = window /\ r.scan = found /\ r.known = client[c].known
  BY <1>1 DEF Client
<1> HIDE DEF r
<1>8. ListingOK(r)
  BY <1>1, <1>4, <1>7 DEF ListingOK
<1> QED BY <1>1, <1>5, <1>6, <1>7, <1>8, ListingKeeps

\* It hashes those whose stamp is not that of the row.
LEMMA HashKeeps ==
    ASSUME FilesInv, NEW c \in Clients, Hash(c)
    PROVE  FilesInv'
<1> USE DEF FilesInv
<1>1. /\ client[c].ph = "statted" /\ client[c] \in Client
      /\ UNCHANGED <<disk, rows, quota, window, holder, indexer, asked, failed, late>>
      /\ window \in 1..MaxWindow /\ ListingOK(client[c]) /\ client[c].op # "enqueue"
  BY DEF Hash, FilesTypeOK, RequestOK
<1> DEFINE old    == client[c]
           unread == {n \in Names : old.scan[n].stamp # 0 /\ old.scan[n].text = Absent}
           found  == [n \in Names |->
                        [text |-> IF n \in unread THEN disk[n].text ELSE old.scan[n].text,
                         stamp |-> Cacheable(old.scan[n].stamp, old.settled)]]
           h      == [old EXCEPT !.ph = "hashed", !.scan = found]
           r      == [h EXCEPT !.todo = Refreshed(h)]
<1>2. CASE Ends(c)
  <2>1. failed' \in 0..MaxFailed
    BY <1>1 DEF FilesTypeOK
  <2> QED BY <1>1, <1>2, <2>1, EndKeepsFiles
<1>3. CASE Goes(c, r)
  <2>1. \A n \in Names : disk[n] \in File /\ old.scan[n] \in File /\ old.settled \in 0..MaxWindow
    BY <1>1 DEF FilesTypeOK, Client
  <2>2. found \in [Names -> File]
    <3>1. ASSUME NEW n \in Names PROVE found[n] \in File
      <4>1. Cacheable(old.scan[n].stamp, old.settled) \in 0..MaxWindow
        BY <2>1, FilesBounds DEF File, Cacheable
      <4>2. disk[n].text \in Texts \cup {Absent} /\ old.scan[n].text \in Texts \cup {Absent}
        BY <2>1 DEF File
      <4> HIDE DEF unread, old
      <4> QED BY <4>1, <4>2 DEF File
    <3> QED BY <3>1
  <2>3. ASSUME NEW n \in Names, ~late PROVE Trusted(n, found[n])
    <3>1. old.settled <= window /\ (old.scan[n].text = Absent \/ Trusted(n, old.scan[n]))
      BY <1>1, <2>3 DEF ListingOK
    <3>2. /\ found[n].text = IF n \in unread THEN disk[n].text ELSE old.scan[n].text
          /\ found[n].stamp = IF old.scan[n].stamp < old.settled THEN old.scan[n].stamp ELSE 0
      BY DEF Cacheable
    <3>3. n \in unread <=> (old.scan[n].stamp # 0 /\ old.scan[n].text = Absent)
      OBVIOUS
    <3>4. old.scan[n].stamp \in Nat /\ old.settled \in Nat /\ window \in Nat
      BY <1>1, <2>1 DEF File
    <3> HIDE DEF found, unread, old
    <3> QED BY <3>1, <3>2, <3>3, <3>4 DEF Trusted
  <2> HIDE DEF found
  <2>4. h \in Client /\ Refreshed(h) \subseteq Names
    BY <1>1, <2>2 DEF Client, Refreshed, Found
  <2>5. /\ h.op # "enqueue" /\ h.ph = "hashed" /\ h.settled = old.settled /\ h.scan = found
        /\ h.known = old.known
    BY <1>1 DEF Client
  <2>6. Goes(c, r)
    BY <1>3
  <2> HIDE DEF h
  <2>8. r \in Client
    BY <2>4 DEF Client
  <2>9. /\ r.op # "enqueue" /\ r.ph = "hashed" /\ r.settled = old.settled /\ r.scan = found
        /\ r.known = old.known
    BY <2>4, <2>5 DEF Client
  <2> HIDE DEF r
  <2>7. ListingOK(r)
    BY <1>1, <2>3, <2>9 DEF ListingOK
  <2> QED BY <1>1, <2>6, <2>7, <2>8, <2>9, ListingKeeps
<1> QED BY <1>2, <1>3 DEF Hash

\* It updates the row of one of these.
LEMMA UpdateKeeps ==
    ASSUME FilesInv, NEW c \in Clients, NEW n \in Names, UpdateRow(c, n)
    PROVE  FilesInv'
<1> USE DEF FilesInv
<1>1. /\ client[c].ph = "hashed" /\ client[c] \in Client
      /\ UNCHANGED <<disk, rows, quota, window, holder, indexer, asked, failed, late>>
      /\ ListingOK(client[c]) /\ client[c].op # "enqueue"
  BY DEF UpdateRow, FilesTypeOK, RequestOK
<1> DEFINE ours == IF StillThere(c, n) THEN client[c].touched \cup {n} ELSE client[c].touched
           r    == [client[c] EXCEPT !.todo = client[c].todo \ {n}, !.touched = ours]
<1>2. ours \subseteq Names /\ client[c].todo \ {n} \subseteq Names
  BY <1>1 DEF Client
<1>3. Goes(c, r)
  BY DEF UpdateRow
<1> HIDE DEF ours
<1>4. r \in Client
  BY <1>1, <1>2 DEF Client
<1>5. /\ r.op # "enqueue" /\ r.ph = "hashed" /\ r.settled = client[c].settled
      /\ r.scan = client[c].scan /\ r.known = client[c].known
  BY <1>1 DEF Client
<1> HIDE DEF r
<1>6. ListingOK(r)
  BY <1>1, <1>5 DEF ListingOK
<1> QED BY <1>1, <1>3, <1>4, <1>5, <1>6, ListingKeeps

\* A job is inserted while nobody has the lock.
LEMMA InsertKeeps ==
    ASSUME FilesInv, NEW c \in Clients, InsertIndexJob(c)
    PROVE  FilesInv'
<1> USE DEF FilesInv
<1>1. /\ client[c].op = "enqueue" /\ holder = NoClient /\ Ends(c)
      /\ indexer' = IF indexer.ph = "none" THEN [indexer EXCEPT !.ph = "queued"] ELSE indexer
      /\ UNCHANGED <<disk, rows, quota, window, holder, asked, failed, late>>
  BY DEF InsertIndexJob, ProjectLockFree
<1>2. Goes(c, Done) /\ Done \in Client /\ RequestOK(Done) /\ ListingOK(Done) /\ Done.ph = "idle"
  BY <1>1, EndOfRequest DEF Ends
<1>3. \A d \in Clients : client'[d] = IF d = c THEN Done ELSE client[d]
  BY <1>2 DEF Goes, FilesTypeOK
<1>4. \A d \in Clients : client[d].ph \notin {"locked", "applied"}
  BY <1>1, ClientsAssumption DEF FilesTypeOK
<1>5. /\ indexer' \in [ph : {"none", "queued", "captured"}, start : Entries]
      /\ indexer'.ph = "captured" => indexer' = indexer
  BY <1>1 DEF FilesTypeOK
<1>6. FilesTypeOK'
  <2>1. client' \in [Clients -> Client]
    BY <1>2, RequestTypes
  <2>2. \A d \in Clients : holder' # d /\ client'[d].ph \notin {"locked", "applied"}
    BY <1>1, <1>2, <1>3, <1>4, ClientsAssumption
  <2> QED BY <1>1, <1>5, <2>1, <2>2 DEF FilesTypeOK
<1>7. OnDisk' = OnDisk
  BY <1>1 DEF OnDisk
<1>8. ASSUME NEW d \in Clients PROVE RequestOK(client[d])' /\ ListingOK(client[d])'
  BY <1>1, <1>2, <1>3, <1>4, <1>7 DEF RequestOK, ListingOK, Trusted
<1>9. StartSnapshotIsTheInput'
  BY <1>1, <1>5 DEF StartSnapshotIsTheInput, Texted
<1> QED BY <1>1, <1>6, <1>7, <1>8, <1>9 DEF Trusted, UploadsStayWithinQuota

\* The index run captures its input and ends.
LEMMA IndexerKeeps ==
    ASSUME FilesInv, CaptureInput \/ IndexEnds
    PROVE  FilesInv'
<1> USE DEF FilesInv
<1>1. /\ indexer.ph # "none" /\ UNCHANGED <<disk, rows, quota, window, holder, client, asked, failed, late>>
  BY DEF CaptureInput, IndexEnds
<1>2. indexer' \in [ph : {"none", "queued", "captured"}, start : Entries]
  <2>1. CASE IndexEnds
    BY <2>1 DEF IndexEnds, Entries, Nothing
  <2>2. CASE CaptureInput
    <3>1. \A n \in Names : rows[n].text \in Texts \cup {Absent} /\ disk[n].text \in Texts \cup {Absent}
      BY DEF FilesTypeOK, Row, File
    <3> QED BY <2>2, <3>1 DEF CaptureInput, Entries
  <2> QED BY <2>1, <2>2
<1>3. FilesTypeOK'
  BY <1>1, <1>2 DEF FilesTypeOK
<1>4. OnDisk' = OnDisk
  BY <1>1 DEF OnDisk
<1>5. \A d \in Clients : RequestOK(client[d])' /\ ListingOK(client[d])'
  BY <1>1, <1>4 DEF RequestOK, ListingOK, Trusted
<1>6. StartSnapshotIsTheInput'
  <2>1. CASE IndexEnds
    BY <2>1 DEF IndexEnds, StartSnapshotIsTheInput
  <2>2. CASE CaptureInput
    <3>1. ~late => \A n \in Names : Cached(rows, n) => rows[n].text = disk[n].text
      BY DEF Cached, Trusted
    <3> QED BY <1>1, <2>2, <3>1 DEF CaptureInput, StartSnapshotIsTheInput, Texted
  <2> QED BY <2>1, <2>2
<1> QED BY <1>1, <1>3, <1>4, <1>5, <1>6 DEF Trusted, UploadsStayWithinQuota

\* The racy window passes: stamps that were equal by chance cannot be any more.
LEMMA WindowKeeps ==
    ASSUME FilesInv, WindowPasses
    PROVE  FilesInv'
<1> USE DEF FilesInv
<1>1. /\ window \in Nat /\ window < MaxWindow /\ window' = window + 1
      /\ UNCHANGED <<disk, rows, quota, holder, indexer, client, asked, failed, late>>
  BY DEF WindowPasses, FilesTypeOK
<1>2. FilesTypeOK'
  BY <1>1, FilesBounds DEF FilesTypeOK
<1>3. OnDisk' = OnDisk
  BY <1>1 DEF OnDisk
<1>4. \A n \in Names : /\ rows[n].stamp \in Nat
                       /\ \A c \in Clients : client[c].known[n].stamp \in Nat /\ client[c].scan[n].stamp \in Nat
  BY DEF FilesTypeOK, Client, Row, File
<1>5. ASSUME NEW n \in Names, NEW entry, entry.stamp \in Nat, Trusted(n, entry)
      PROVE  Trusted(n, entry)'
  BY <1>1, <1>5 DEF Trusted
<1>6. ASSUME NEW d \in Clients PROVE RequestOK(client[d])' /\ ListingOK(client[d])'
  <2>1. RequestOK(client[d])'
    BY <1>1, <1>3 DEF RequestOK
  <2>2. client[d].settled \in Nat /\ client[d].settled <= window'
    BY <1>1 DEF ListingOK, FilesTypeOK, Client
  <2>3. ListingOK(client[d])'
    BY <1>1, <1>4, <1>5, <2>2 DEF ListingOK
  <2> QED BY <2>1, <2>3
<1>7. StartSnapshotIsTheInput' /\ UploadsStayWithinQuota'
  BY <1>1, <1>3 DEF StartSnapshotIsTheInput, UploadsStayWithinQuota, Texted
<1> QED BY <1>1, <1>2, <1>4, <1>5, <1>6, <1>7

\* PostgreSQL aborts one of those that wait for each other.
LEMMA AbortKeeps ==
    ASSUME FilesInv, NEW c \in Clients, Abort(c)
    PROVE  FilesInv'
<1>1. /\ Ends(c) /\ UNCHANGED <<disk, rows, quota, window, indexer, asked, late>>
      /\ failed' \in 0..MaxFailed /\ holder' = IF holder = c THEN NoClient ELSE holder
  BY DEF Abort, FilesInv, FilesTypeOK
<1>2. holder = c <=> client[c].ph \in {"locked", "applied"}
  BY DEF FilesInv, FilesTypeOK
<1> QED BY <1>1, <1>2, EndKeepsFiles

\* The invariant of InputFiles.
LEMMA FilesInvariant == FilesSpec => []FilesInv
<1>1. FilesInv /\ [FilesNext]_filesVars => FilesInv'
  <2> SUFFICES ASSUME FilesInv, [FilesNext]_filesVars PROVE FilesInv'
    OBVIOUS
  <2>1. CASE UNCHANGED filesVars
    BY <2>1 DEF filesVars, FilesInv, FilesTypeOK, UploadsStayWithinQuota, StartSnapshotIsTheInput,
                RequestOK, ListingOK, Trusted, OnDisk, Texted
  <2>2. CASE CaptureInput \/ IndexEnds \/ WindowPasses
    BY <2>2, IndexerKeeps, WindowKeeps
  <2>3. ASSUME NEW c \in Clients, ClientStep(c) PROVE FilesInv'
    <3>1. CASE \E n \in Names : Replace(c, n) \/ Unlink(c, n) \/ UnlinkFails(c, n)
      BY <3>1, ApplyKeeps
    <3>2. CASE CommitFiles(c) \/ CommitFilesFails(c) \/ TakeProjectLock(c) \/ InsertIndexJob(c)
      BY <3>2, CommitKeeps, LockKeeps, InsertKeeps
    <3>3. CASE Stat(c) \/ Hash(c) \/ FinishListing(c) \/ \E n \in Names : UpdateRow(c, n)
      BY <3>3, StatKeeps, HashKeeps, UpdateKeeps, FinishKeeps
    <3>4. CASE Abort(c)
      BY <3>4, AbortKeeps
    <3>5. CASE \/ \E n \in Names, t \in Texts : Upload(c, n, t)
               \/ \E ns \in SUBSET Names : Delete(c, ns)
               \/ ReadRows(c) \/ CheckUsage(c)
      BY <3>5, AskKeeps
    <3> QED BY <2>3, <3>1, <3>2, <3>3, <3>4, <3>5 DEF ClientStep
  <2> QED BY <2>1, <2>2, <2>3 DEF FilesNext
<1> QED BY <1>1, FilesStart, PTL DEF FilesSpec

\* The files, rows and requests are such as the disk, the table and the processes
\* hold, and the project lock has one holder.
THEOREM FilesTypes == FilesSpec => []FilesTypeOK
<1>1. FilesInv => FilesTypeOK
  BY DEF FilesInv
<1> QED BY <1>1, FilesInvariant, PTL

\* Any number of concurrent uploads, deletions and failed commits: the usage is
\* compared with the quota under the lock the file is renamed under, and input/
\* never outgrows the quota.
THEOREM QuotaIsKept == FilesSpec => []UploadsStayWithinQuota
<1>1. FilesInv => UploadsStayWithinQuota
  BY DEF FilesInv
<1> QED BY <1>1, FilesInvariant, PTL

\* Any number of listings, overtaken by uploads and deletions at any point: a
\* cached hash whose mtime is the file's is the file's hash, as long as no upload
\* was renamed in a later racy window than it was streamed in.
THEOREM CachedHashesAreTrue == FilesSpec => []CachedHashIsTheFile
<1>1. FilesInv => CachedHashIsTheFile
  BY DEF FilesInv, CachedHashIsTheFile, Cached, Trusted, OnDisk
<1> QED BY <1>1, FilesInvariant, PTL

\* The start snapshot of an index run is the input that graphrag reads, from the
\* capture to the end of the run: the freeze is checked under the lock that the
\* job was inserted under, and the hashes the capture reuses are true, as long
\* as no upload was renamed in a later racy window than it was streamed in.
THEOREM SnapshotsAreTheInput == FilesSpec => []StartSnapshotIsTheInput
<1>1. FilesInv => StartSnapshotIsTheInput
  BY DEF FilesInv
<1> QED BY <1>1, FilesInvariant, PTL

\* A request has written no row before its write-back, and a listing has written rows
\* that it has refreshed and that come before those it has still to write.
WorkOK(r) ==
    /\ r.ph \in {"ready", "statted", "locked"} => r.touched = {}
    /\ r.ph = "hashed" =>
          /\ r.touched \cup r.todo \subseteq Refreshed(r)
          /\ \A m \in r.touched, n \in r.todo : Place[m] < Place[n]

\* No listing has both refreshed rows and discovered files.
NoListingDoesBoth ==
    \A c \in Clients :
        client[c].ph = "hashed" => Untracked(client[c]) = {} \/ Refreshed(client[c]) = {}

\* No deletion has several files.
NoBulkDelete ==
    \A c \in Clients : client[c].op = "delete" => \A m, n \in client[c].todo : m = n

\* A request that begins, goes on or ends.
LEMMA WorkGoesOn ==
    ASSUME FilesInv, NoBulkDelete, NEW c \in Clients, WorkOK(client[c]), ClientStep(c)
    PROVE  \E r : Goes(c, r) /\ WorkOK(r)
<1>1. client[c] \in Client
  BY DEF FilesInv, FilesTypeOK
<1>2. WorkOK(Done)
  BY DEF WorkOK, Done
<1>3. CASE Ends(c)
  BY <1>2, <1>3 DEF Ends
<1>4. ASSUME NEW n \in Names, NEW t \in Texts, Upload(c, n, t)
      PROVE  \E r : Goes(c, r) /\ WorkOK(r)
  <2> DEFINE r == [Done EXCEPT !.op = "upload", !.ph = "ready", !.id = asked + 1, !.todo = {n},
                               !.file = [text |-> t, stamp |-> window]]
  <2>1. r.ph = "ready" /\ r.touched = {} /\ Goes(c, r)
    BY <1>4 DEF Upload, Done
  <2> HIDE DEF r
  <2> QED BY <2>1 DEF WorkOK
<1>5. ASSUME NEW ns \in SUBSET Names, Delete(c, ns)
      PROVE  \E r : Goes(c, r) /\ WorkOK(r)
  <2> DEFINE r == [Done EXCEPT !.op = "delete", !.ph = "ready", !.id = asked + 1, !.todo = ns]
  <2>1. r.ph = "ready" /\ r.touched = {} /\ Goes(c, r)
    BY <1>5 DEF Delete, Done
  <2> HIDE DEF r
  <2> QED BY <2>1 DEF WorkOK
<1>6. CASE ReadRows(c)
  <2> DEFINE r == [Done EXCEPT !.op = "list", !.ph = "ready", !.id = asked + 1, !.known = rows]
  <2>1. r.ph = "ready" /\ r.touched = {} /\ Goes(c, r)
    BY <1>6 DEF ReadRows, Done
  <2> HIDE DEF r
  <2> QED BY <2>1 DEF WorkOK
<1>7. CASE CheckUsage(c)
  <2> DEFINE r == [Done EXCEPT !.op = "enqueue", !.ph = "ready"]
  <2>1. r.ph = "ready" /\ r.touched = {} /\ Goes(c, r)
    BY <1>7 DEF CheckUsage, Done
  <2> HIDE DEF r
  <2> QED BY <2>1 DEF WorkOK
<1>8. CASE TakeProjectLock(c) /\ ~Ends(c)
  <2> DEFINE r == [client[c] EXCEPT !.ph = "locked"]
  <2>1. r.ph = "locked" /\ r.touched = client[c].touched /\ Goes(c, r)
    BY <1>1, <1>8 DEF TakeProjectLock, Client
  <2>2. client[c].touched = {}
    BY <1>8 DEF TakeProjectLock, WorkOK
  <2> HIDE DEF r
  <2> QED BY <2>1, <2>2 DEF WorkOK
<1>9. ASSUME NEW n \in Names, Replace(c, n) \/ Unlink(c, n) \/ UnlinkFails(c, n)
      PROVE  \E r : Goes(c, r) /\ WorkOK(r)
  <2> DEFINE r == AppliedTo(c, n)
             s == [AppliedTo(c, n) EXCEPT !.touched = client[c].touched]
  <2>1. /\ n \in client[c].todo /\ client[c].ph = "locked" /\ client[c].op \in {"upload", "delete"}
        /\ Goes(c, r) \/ Goes(c, s)
    BY <1>9 DEF Replace, Unlink, UnlinkFails
  <2>2. /\ r.ph = (IF client[c].todo = {n} THEN "applied" ELSE "locked") /\ s.ph = r.ph
    BY <1>1 DEF AppliedTo, Client
  <2>3. client[c].todo = {n}
    BY <2>1 DEF NoBulkDelete, FilesInv, RequestOK
  <2> HIDE DEF r, s
  <2>4. WorkOK(r) /\ WorkOK(s)
    BY <2>2, <2>3 DEF WorkOK
  <2> QED BY <2>1, <2>4
<1>10. CASE Stat(c)
  <2> DEFINE found == [n \in Names |->
                        [text |-> IF Cached(client[c].known, n) THEN client[c].known[n].text ELSE Absent,
                         stamp |-> disk[n].stamp]]
             r == [client[c] EXCEPT !.ph = "statted", !.settled = window, !.scan = found]
  <2>1. Goes(c, r) /\ client[c].touched = {}
    BY <1>10 DEF Stat, WorkOK
  <2> HIDE DEF found
  <2>2. r.ph = "statted" /\ r.touched = client[c].touched
    BY <1>1 DEF Client
  <2> HIDE DEF r
  <2> QED BY <2>1, <2>2 DEF WorkOK
<1>11. CASE Hash(c) /\ ~Ends(c)
  <2> DEFINE unread == {n \in Names : client[c].scan[n].stamp # 0 /\ client[c].scan[n].text = Absent}
             found  == [n \in Names |->
                         [text |-> IF n \in unread THEN disk[n].text ELSE client[c].scan[n].text,
                          stamp |-> Cacheable(client[c].scan[n].stamp, client[c].settled)]]
             h == [client[c] EXCEPT !.ph = "hashed", !.scan = found]
             R == Refreshed(h)
             r == [h EXCEPT !.todo = R]
  <2>1. Goes(c, r) /\ client[c].touched = {}
    BY <1>11 DEF Hash, WorkOK
  <2> HIDE DEF found, R
  <2>2. /\ h.scan = found /\ h.known = client[c].known
        /\ r.ph = "hashed" /\ r.touched = client[c].touched /\ r.todo = R
        /\ r.scan = found /\ r.known = client[c].known
    BY <1>1 DEF Client
  <2> HIDE DEF h, r
  <2>3. Refreshed(r) = R
    BY <2>2 DEF Refreshed, Untracked, Found, R
  <2> QED BY <2>1, <2>2, <2>3 DEF WorkOK
<1>12. ASSUME NEW n \in Names, UpdateRow(c, n)
       PROVE  \E r : Goes(c, r) /\ WorkOK(r)
  <2> DEFINE old  == client[c]
             ours == IF StillThere(c, n) THEN old.touched \cup {n} ELSE old.touched
             r    == [old EXCEPT !.todo = old.todo \ {n}, !.touched = ours]
  <2>1. Goes(c, r)
    BY <1>12 DEF UpdateRow
  <2>2. ours \subseteq old.touched \cup {n}
    OBVIOUS
  <2>3. /\ old.ph = "hashed" /\ n \in old.todo /\ \A m \in old.todo : Place[n] <= Place[m]
        /\ old.todo \subseteq Names
    BY <1>1, <1>12 DEF UpdateRow, ComesNext, Client
  <2>4. /\ old.touched \cup old.todo \subseteq Refreshed(old)
        /\ \A m \in old.touched, l \in old.todo : Place[m] < Place[l]
    BY <2>3 DEF WorkOK
  <2> HIDE DEF ours
  <2>5. /\ r.ph = "hashed" /\ r.touched = ours /\ r.todo = old.todo \ {n}
        /\ r.scan = old.scan /\ r.known = old.known
    BY <1>1, <2>3 DEF Client
  <2> HIDE DEF r, old
  <2>6. Refreshed(r) = Refreshed(old)
    BY <2>5 DEF Refreshed, Untracked, Found
  <2>7. r.touched \cup r.todo \subseteq Refreshed(r)
    BY <2>2, <2>3, <2>4, <2>5, <2>6
  <2>8. ASSUME NEW m \in r.touched, NEW l \in r.todo PROVE Place[m] < Place[l]
    <3>1. l \in old.todo /\ l # n /\ l \in Names
      BY <2>3, <2>5
    <3>2. CASE m \in old.touched
      BY <2>4, <3>1, <3>2
    <3>3. CASE m = n
      <4>1. Place[n] <= Place[l] /\ Place[n] # Place[l] /\ Place[n] \in Nat /\ Place[l] \in Nat
        BY <2>3, <3>1, PlaceAssumption
      <4> QED BY <3>3, <4>1
    <3> QED BY <2>2, <2>5, <3>2, <3>3
  <2> QED BY <2>1, <2>5, <2>7, <2>8 DEF WorkOK
<1>13. CASE CommitFiles(c) \/ CommitFilesFails(c) \/ FinishListing(c) \/ InsertIndexJob(c) \/ Abort(c)
  BY <1>3, <1>13 DEF CommitFiles, CommitFilesFails, FinishListing, InsertIndexJob, Abort
<1> QED BY <1>3, <1>4, <1>5, <1>6, <1>7, <1>8, <1>9, <1>10, <1>11, <1>12, <1>13 DEF ClientStep

\* Of requests that wait for each other in a circle each is a listing in the middle of its
\* rows, and another of them waits for a row that comes before the one it waits for.
LEMMA CircleOfListings ==
    ASSUME FilesInv, \A c \in Clients : WorkOK(client[c]), NoListingDoesBoth,
           NEW S \in SUBSET Clients, Deadlocked(S), NEW c \in S
    PROVE  \E n \in Names : /\ ComesNext(client[c], n)
                            /\ \E d \in S, m \in Names : ComesNext(client[d], m) /\ Place[m] < Place[n]
<1> USE DEF FilesInv
<1>1. \A e \in Clients : holder = e <=> client[e].ph \in {"locked", "applied"}
  BY DEF FilesTypeOK
\* Who holds the lock has written no row, and is waited for by a listing that has.
<1>2. ASSUME NEW e \in S PROVE client[e].ph = "hashed" /\ client[e].touched # {}
  <2>1. e \in Clients
    OBVIOUS
  <2>2. PICK d \in S : Waits(e, d)
    BY DEF Deadlocked
  <2>3. PICK f \in S : Waits(f, e)
    BY DEF Deadlocked
  <2>4. client[e].ph \in {"ready", "locked", "hashed"}
    BY <2>2 DEF Waits, WaitsForRow, WaitsForLock, Discovers
  <2>5. client[e].ph # "ready"
    BY <1>1, <2>1, <2>3 DEF Waits, WaitsForRow, WaitsForLock, WorkOK
  <2>6. client[e].ph # "locked"
    <3> SUFFICES ASSUME client[e].ph = "locked" PROVE FALSE
      OBVIOUS
    <3>1. WaitsForLock(f, e) /\ holder = e /\ f # e /\ f \in Clients
      BY <1>1, <2>1, <2>3 DEF Waits, WaitsForRow, WaitsForLock, WorkOK
    <3>2. PICK g \in S : Waits(g, f)
      BY DEF Deadlocked
    <3>3. client[f].touched # {}
      BY <3>1, <3>2 DEF Waits, WaitsForRow, WaitsForLock
    <3>4. Discovers(client[f])
      BY <3>1, <3>3 DEF WaitsForLock, WorkOK
    <3>5. client[f].touched \subseteq Refreshed(client[f]) /\ Untracked(client[f]) # {}
      BY <3>1, <3>4 DEF Discovers, WorkOK
    <3> QED BY <3>1, <3>3, <3>4, <3>5 DEF NoListingDoesBoth, Discovers
  <2>7. client[e].ph = "hashed"
    BY <2>4, <2>5, <2>6
  <2>8. holder # e
    BY <1>1, <2>1, <2>7
  <2> QED BY <2>3, <2>7, <2>8 DEF Waits, WaitsForRow, WaitsForLock
<1>3. \A e \in Clients : holder = e => e \notin S
  BY <1>1, <1>2
<1>4. ASSUME NEW e \in S, NEW d \in S, Waits(e, d)
      PROVE  \E m \in client[d].touched : ComesNext(client[e], m)
  <2>1. ~WaitsForLock(e, d) /\ client[e].ph = "hashed"
    BY <1>2, <1>3 DEF WaitsForLock
  <2> QED BY <1>4, <2>1 DEF Waits, WaitsForRow
<1>5. PICK d \in S : Waits(c, d)
  BY DEF Deadlocked
<1>6. PICK n \in client[d].touched : ComesNext(client[c], n)
  BY <1>4, <1>5
<1>7. PICK e \in S : Waits(e, c)
  BY DEF Deadlocked
<1>8. PICK m \in client[c].touched : ComesNext(client[e], m)
  BY <1>4, <1>7
<1>9. client[c] \in Client /\ client[d] \in Client
  BY DEF FilesTypeOK
<1>10. n \in Names /\ m \in Names
  BY <1>9 DEF Client
<1>11. Place[m] < Place[n]
  BY <1>2, <1>6, <1>8 DEF ComesNext, WorkOK
<1> QED BY <1>6, <1>8, <1>10, <1>11

\* The write-back of refreshed hashes is "lock-free" as long as no listing that writes back
\* also discovers and no deletion has several files: listings write their rows in one
\* order, so that the first row anybody waits for is held by nobody who waits.  The two
\* exceptions are what is left (`listing_deadlock`).
THEOREM WriteBacksAreLockFree ==
    FilesSpec /\ []NoListingDoesBoth /\ []NoBulkDelete => []WriteBackIsLockFree
<1> DEFINE WorkInv == \A c \in Clients : WorkOK(client[c])
<1>1. FilesInit => WorkInv
  BY DEF FilesInit, WorkOK, Done
<1>2. FilesInv /\ NoBulkDelete /\ WorkInv /\ [FilesNext]_filesVars => WorkInv'
  <2> SUFFICES ASSUME FilesInv, NoBulkDelete, WorkInv, [FilesNext]_filesVars PROVE WorkInv'
    OBVIOUS
  <2>1. client' = client => WorkInv'
    BY DEF WorkOK, Refreshed, Untracked, Found
  <2>2. ASSUME NEW c \in Clients, ClientStep(c) PROVE WorkInv'
    <3>1. PICK r : Goes(c, r) /\ WorkOK(r)
      BY <2>2, WorkGoesOn
    <3>2. \A d \in Clients : client'[d] = IF d = c THEN r ELSE client[d]
      BY <3>1 DEF Goes, FilesInv, FilesTypeOK
    <3>3. \A d \in Clients : WorkOK(client'[d])
      BY <3>1, <3>2
    <3> QED BY <3>3 DEF WorkOK, Refreshed, Untracked, Found
  <2> QED BY <2>1, <2>2 DEF FilesNext, CaptureInput, IndexEnds, WindowPasses, filesVars
<1>3. FilesInv /\ WorkInv /\ NoListingDoesBoth => WriteBackIsLockFree
  <2> SUFFICES ASSUME FilesInv, WorkInv, NoListingDoesBoth, NEW S \in SUBSET Clients, Deadlocked(S)
               PROVE  FALSE
    BY DEF WriteBackIsLockFree
  <2> DEFINE Next(k) == \E c \in S, n \in Names : ComesNext(client[c], n) /\ k = Place[n]
             T == {k \in Nat : Next(k)}
  <2>1. \A n \in Names : Place[n] \in Nat
    BY PlaceAssumption
  <2>2. T \subseteq Nat /\ T # {}
    <3>1. PICK c \in S : TRUE
      BY DEF Deadlocked
    <3>2. \E n \in Names : ComesNext(client[c], n)
      BY CircleOfListings
    <3> QED BY <2>1, <3>2
  <2>3. \E k \in T : \A l \in T : ~ (<<l, k>> \in OpToRel(<, Nat))
    <3> HIDE DEF T
    <3> QED BY <2>2, WFMin, NatLessThanWellFounded
  <2>4. PICK k \in T : \A l \in T : ~ (l < k)
    BY <2>3 DEF OpToRel
  <2>5. PICK c \in S, n \in Names : ComesNext(client[c], n) /\ k = Place[n]
    OBVIOUS
  <2>6. PICK p \in Names : /\ ComesNext(client[c], p)
                           /\ \E d \in S, m \in Names : ComesNext(client[d], m) /\ Place[m] < Place[p]
    BY CircleOfListings
  <2>7. Place[n] <= Place[p] /\ Place[p] <= Place[n]
    BY <2>5, <2>6 DEF ComesNext
  <2>8. PICK d \in S, m \in Names : ComesNext(client[d], m) /\ Place[m] < k
    BY <2>1, <2>5, <2>6, <2>7
  <2>9. Place[m] \in T
    BY <2>1, <2>8
  <2> QED BY <2>4, <2>8, <2>9
<1> QED BY <1>1, <1>2, <1>3, FilesInvariant, PTL DEF FilesSpec

-----------------------------------------------------------------------------
(* The states of the documents (IndexSnapshots).                           *)

\* The documents are titled by the names of their files and made of the texts
\* that `entries` says.
MadeOf(entries) == \A d \in docs : d.title = d.name /\ d.text = entries[d.name]

\* The baseline is the record of the index: of the documents, and of the names
\* among its entries that were dropped.
Mirrored ==
    /\ MadeOf(baselineRow.entries)
    /\ \A n \in Names : n \in baselineRow.attributable <=> \E d \in docs : d.name = n

\* No run has written since the promotion of the baseline.
Fresh == baselineRow.epoch = epoch /\ attempt.ph \in {"idle", "captured"}
\* The run under way is the first since then, and graphrag has not written yet.
FirstRun == baselineRow.epoch + 1 = epoch /\ attempt.ph = "spawned"

\* What a run takes with it from its start.
RunTakes ==
    /\ attempt.ph # "idle" =>
          attempt.type \in {"index", "update"} /\ attempt.entries = input /\ attempt.recovery = ~column
    /\ attempt.ph \in {"captured", "spawned"} =>
          attempt.attributable = Recovered(docs, Named(baselineRow.entries) \cup Named(input))

Epochs ==
    /\ attempt.ph = "captured" => epoch < runs
    /\ baselineRow.exists => baselineRow.epoch <= epoch
    /\ baselineRow.exists /\ attempt.ph \in {"spawned", "wrote"} => baselineRow.epoch < epoch

\* What graphrag wrote is what a success would promote.
WrittenOK ==
    attempt.ph = "wrote" /\ ~mixed =>
        /\ ~column => MadeOf(PromotedEntries)
        /\ attempt.type = "update" => baselineRow.exists /\ ~column

SnapshotTypes ==
    /\ SnapshotsTypeOK
    /\ \A d \in docs : d \in Document

SnapshotsInv ==
    /\ SnapshotTypes /\ RunTakes /\ Epochs /\ WrittenOK
    /\ baselineRow.exists /\ baselineRow.recovery /\ produced /\ ~mixed /\ (Fresh \/ FirstRun) => Mirrored

\* The invariant holds at the start.
LEMMA SnapshotsStart == SnapshotsInit => SnapshotsInv
<1> SUFFICES ASSUME SnapshotsInit PROVE SnapshotsInv
  OBVIOUS
<1> USE DEF SnapshotsInit, NoBaseline, NoAttempt
<1>1. Nothing \in Entries /\ Named(Nothing) = {}
  BY DEF Nothing, Entries, Named
<1>2. SnapshotTypes
  <2>1. /\ baselineRow \in [exists : BOOLEAN, entries : Entries, attributable : SUBSET Names,
                           recovery : BOOLEAN, epoch : {0}]
        /\ baselineRow.attributable = {}
    BY <1>1
  <2>2. attempt \in [type : {"none", "index", "update"}, ph : {"idle", "captured", "spawned", "wrote"},
                     entries : Entries, attributable : SUBSET Names, recovery : BOOLEAN]
    BY <1>1
  <2>3. runs = 0 /\ epoch = 0 /\ 0 \in 0..MaxRuns /\ 0..runs = {0}
    BY SnapshotBounds
  <2>4. input \in Entries /\ column \in BOOLEAN /\ mixed \in BOOLEAN /\ docs = {} /\ produced \in BOOLEAN
    BY <1>1
  <2> QED BY <2>1, <2>2, <2>3, <2>4 DEF SnapshotTypes, SnapshotsTypeOK
<1> QED BY <1>2 DEF SnapshotsInv, RunTakes, Epochs, WrittenOK

\* An edit between two runs.
LEMMA EditKeeps ==
    ASSUME SnapshotsInv,
           \/ \E n \in Names, t \in Texts \cup {Absent} : ChangeInput(n, t)
           \/ ChangeTitleColumn \/ RemoveOutput
    PROVE  SnapshotsInv'
<1> USE DEF SnapshotsInv
<1>1. /\ attempt.ph = "idle" /\ UNCHANGED <<epoch, baselineRow, attempt, runs, mixed>>
      /\ input' \in Entries /\ column' \in BOOLEAN
      /\ (produced' = produced /\ docs' = docs) \/ (produced' = FALSE /\ docs' = {})
  <2>1. input \in Entries /\ column \in BOOLEAN
    BY DEF SnapshotTypes, SnapshotsTypeOK
  <2>2. CASE \E n \in Names, t \in Texts \cup {Absent} : ChangeInput(n, t)
    BY <2>1, <2>2 DEF ChangeInput, Resting, Entries
  <2>3. CASE ChangeTitleColumn
    BY <2>1, <2>3 DEF ChangeTitleColumn, Resting
  <2>4. CASE RemoveOutput
    BY <2>1, <2>4 DEF RemoveOutput, Resting
  <2> QED BY <2>2, <2>3, <2>4
<1>2. SnapshotTypes'
  BY <1>1 DEF SnapshotTypes, SnapshotsTypeOK
<1>3. RunTakes' /\ Epochs' /\ WrittenOK'
  BY <1>1 DEF RunTakes, Epochs, WrittenOK
<1> QED BY <1>1, <1>2, <1>3 DEF Mirrored, MadeOf, Fresh, FirstRun

\* START is captured.
LEMMA CaptureKeeps ==
    ASSUME SnapshotsInv, NEW t \in {"index", "update"}, CaptureStart(t)
    PROVE  SnapshotsInv'
<1> USE DEF SnapshotsInv
<1> DEFINE names == Recovered(docs, Named(baselineRow.entries) \cup Named(input))
<1>1. /\ attempt.ph = "idle" /\ runs < MaxRuns /\ runs' = runs + 1
      /\ attempt' = [type |-> t, ph |-> "captured", entries |-> input, attributable |-> names,
                     recovery |-> ~column]
      /\ UNCHANGED <<input, column, docs, produced, epoch, baselineRow, mixed>>
  BY DEF CaptureStart, Resting
<1>2. names \in SUBSET Names
  BY DEF Recovered, Named
<1>3. runs \in Nat /\ runs' \in 0..MaxRuns /\ epoch \in 0..runs /\ baselineRow.epoch \in 0..runs
  <2>1. runs \in 0..MaxRuns /\ epoch \in 0..runs /\ baselineRow.epoch \in 0..runs
    BY DEF SnapshotTypes, SnapshotsTypeOK
  <2>2. runs < MaxRuns /\ runs' = runs + 1 /\ MaxRuns \in Nat
    BY <1>1, SnapshotBounds
  <2> QED BY <2>1, <2>2
<1>4. names' = names
  BY <1>1 DEF Recovered
<1> HIDE DEF names
<1>5. SnapshotTypes'
  <2>1. epoch \in 0..runs' /\ baselineRow.epoch \in 0..runs'
    BY <1>1, <1>3
  <2>2. baselineRow \in [exists : BOOLEAN, entries : Entries, attributable : SUBSET Names,
                         recovery : BOOLEAN, epoch : 0..runs']
    BY <2>1 DEF SnapshotTypes, SnapshotsTypeOK
  <2>3. attempt' \in [type : {"none", "index", "update"}, ph : {"idle", "captured", "spawned", "wrote"},
                      entries : Entries, attributable : SUBSET Names, recovery : BOOLEAN]
    BY <1>1, <1>2 DEF SnapshotTypes, SnapshotsTypeOK
  <2> QED BY <1>1, <1>3, <2>1, <2>2, <2>3 DEF SnapshotTypes, SnapshotsTypeOK
<1>6. RunTakes'
  <2>1. attempt'.attributable = names'
    BY <1>1, <1>4
  <2> QED BY <1>1, <2>1 DEF RunTakes, names
<1>7. Epochs' /\ WrittenOK'
  BY <1>1, <1>3 DEF Epochs, WrittenOK
<1> QED BY <1>1, <1>5, <1>6, <1>7 DEF Mirrored, MadeOf, Fresh, FirstRun

\* The epoch moves before output/ is written.
LEMMA BumpKeeps ==
    ASSUME SnapshotsInv, BumpEpoch
    PROVE  SnapshotsInv'
<1> USE DEF SnapshotsInv
<1>1. /\ attempt.ph = "captured" /\ epoch' = epoch + 1
      /\ attempt' = [attempt EXCEPT !.ph = "spawned"]
      /\ UNCHANGED <<input, column, docs, produced, baselineRow, runs, mixed>>
  BY DEF BumpEpoch
<1>2. epoch \in Nat /\ baselineRow.epoch \in Nat /\ epoch < runs /\ runs \in Nat
  BY <1>1 DEF Epochs, SnapshotTypes, SnapshotsTypeOK
<1>3. attempt \in [type : {"none", "index", "update"}, ph : {"idle", "captured", "spawned", "wrote"},
                   entries : Entries, attributable : SUBSET Names, recovery : BOOLEAN]
  BY DEF SnapshotTypes, SnapshotsTypeOK
<1>4. /\ attempt'.ph = "spawned" /\ attempt'.type = attempt.type /\ attempt'.entries = attempt.entries
      /\ attempt'.attributable = attempt.attributable /\ attempt'.recovery = attempt.recovery
  BY <1>1, <1>3
<1>5. SnapshotTypes'
  BY <1>1, <1>2, <1>3 DEF SnapshotTypes, SnapshotsTypeOK
<1>6. RunTakes'
  BY <1>1, <1>4 DEF RunTakes, Recovered
<1>7. Epochs' /\ WrittenOK'
  BY <1>1, <1>2, <1>4 DEF Epochs, WrittenOK
<1>8. FirstRun' /\ baselineRow.exists => Fresh
  BY <1>1, <1>2, <1>4 DEF FirstRun, Fresh
<1>9. ~Fresh'
  BY <1>4 DEF Fresh
<1> QED BY <1>1, <1>5, <1>6, <1>7, <1>8, <1>9 DEF Mirrored, MadeOf

\* graphrag adds no document to a name that the index has, and `update` advances the
\* entries of no such name.
LEMMA WriteKeeps ==
    ASSUME SnapshotsInv, CliWrites
    PROVE  SnapshotsInv'
<1> USE DEF SnapshotsInv
<1>1. /\ attempt.ph = "spawned" /\ produced' = TRUE
      /\ attempt' = [attempt EXCEPT !.ph = "wrote"]
      /\ UNCHANGED <<input, column, epoch, baselineRow, runs>>
      /\ CliIndexes \/ CliUpdates
  BY DEF CliWrites, CliIndexes, CliUpdates
<1>2. attempt \in [type : {"none", "index", "update"}, ph : {"idle", "captured", "spawned", "wrote"},
                   entries : Entries, attributable : SUBSET Names, recovery : BOOLEAN]
  BY DEF SnapshotTypes, SnapshotsTypeOK
<1>3. /\ attempt'.ph = "wrote" /\ attempt'.type = attempt.type /\ attempt'.entries = attempt.entries
      /\ attempt'.attributable = attempt.attributable /\ attempt'.recovery = attempt.recovery
  BY <1>1, <1>2
<1>4. \A n \in Named(input) : input[n] \in Texts /\ Title(n) \in Names \cup Texts /\ n \in Names
  BY DEF SnapshotTypes, SnapshotsTypeOK, Entries, Named, Title
<1>5. \A d \in docs' : d \in Document /\ (d \in docs \/ \E n \in Named(input) : d = [title |-> Title(n), name |-> n, text |-> input[n]])
  <2>1. \A n \in Named(input) : [title |-> Title(n), name |-> n, text |-> input[n]] \in Document
    BY <1>4 DEF Document
  <2>2. CASE CliIndexes
    BY <2>1, <2>2 DEF CliIndexes
  <2>3. CASE CliUpdates
    BY <2>1, <2>3 DEF CliUpdates, SnapshotTypes
  <2> QED BY <1>1, <2>2, <2>3
<1>6. mixed' \in BOOLEAN
  BY <1>1, Zenon DEF CliIndexes, CliUpdates, SnapshotTypes, SnapshotsTypeOK
<1>7. SnapshotTypes'
  BY <1>1, <1>2, <1>3, <1>5, <1>6 DEF SnapshotTypes, SnapshotsTypeOK
<1>8. RunTakes' /\ Epochs'
  BY <1>1, <1>3 DEF RunTakes, Epochs
<1>9. ASSUME ~mixed' PROVE WrittenOK'
  <2>1. CASE CliIndexes
    <3>1. attempt.type = "index" /\ attempt.entries = input
      BY <1>1, <2>1 DEF CliIndexes, RunTakes
    <3>2. PromotedEntries' = input
      BY <1>3, <3>1 DEF PromotedEntries
    <3>3. ~column => \A d \in docs' : d.title = d.name /\ d.text = input[d.name]
      BY <2>1 DEF CliIndexes, Title
    <3> QED BY <1>1, <1>3, <3>1, <3>2, <3>3 DEF WrittenOK, MadeOf
  <2>2. CASE CliUpdates
    <3>1. /\ attempt.type = "update" /\ produced /\ ~mixed /\ baselineRow.exists
          /\ baselineRow.epoch + 1 = epoch /\ ~column /\ baselineRow.recovery
      BY <1>9, <2>2 DEF CliUpdates
    <3>2. Mirrored
      BY <1>1, <3>1 DEF FirstRun
    <3>3. /\ attempt.entries = input /\ attempt.recovery
          /\ attempt.attributable = {n \in Named(baselineRow.entries) \cup Named(input) : \E d \in docs : d.title = n}
      BY <1>1, <3>1 DEF RunTakes, Recovered
    <3>4. PromotedEntries' = AdvanceEntries(baselineRow.entries, input, attempt.attributable)
      BY <1>1, <1>3, <3>1, <3>3 DEF PromotedEntries
    <3>5. \A d \in docs : d.name \in Names /\ d.text \in Texts /\ d.title = d.name /\ d.text = baselineRow.entries[d.name]
      BY <3>2 DEF Mirrored, MadeOf, SnapshotTypes, Document
    <3>6. \A d \in docs : baselineRow.entries[d.name] # Absent /\ d.name \in attempt.attributable
      BY <3>3, <3>5, DocumentsAssumption DEF Named
    <3>7. \A d \in docs : d.text = PromotedEntries'[d.name]
      BY <3>4, <3>5, <3>6 DEF AdvanceEntries
    <3>8. ASSUME NEW n \in Named(input), \A d \in docs : d.title # Title(n)
          PROVE  Title(n) = n /\ PromotedEntries'[n] = input[n]
      <4>1. Title(n) = n /\ n \in Names /\ input[n] # Absent /\ n \notin attempt.attributable
        BY <3>1, <3>3, <3>8 DEF Title, Named
      <4> QED BY <3>4, <4>1 DEF AdvanceEntries
    <3>9. \A d \in docs' : d \in docs \/ \E n \in Named(input) :
               (\A e \in docs : e.title # Title(n)) /\ d = [title |-> Title(n), name |-> n, text |-> input[n]]
      BY <2>2 DEF CliUpdates
    <3>10. \A d \in docs' : d.title = d.name /\ d.text = PromotedEntries'[d.name]
      BY <3>5, <3>7, <3>8, <3>9
    <3> QED BY <1>1, <1>3, <3>1, <3>10 DEF WrittenOK, MadeOf
  <2> QED BY <1>1, <2>1, <2>2
<1>10. WrittenOK' /\ ~Fresh' /\ ~FirstRun'
  BY <1>3, <1>9 DEF WrittenOK, Fresh, FirstRun
<1> QED BY <1>7, <1>8, <1>10

\* The run is promoted: its entries become the baseline.
LEMMA SucceedKeeps ==
    ASSUME SnapshotsInv, Succeed
    PROVE  SnapshotsInv'
<1> USE DEF SnapshotsInv
<1> DEFINE new == [exists |-> TRUE, entries |-> PromotedEntries,
                   attributable |-> AttributableAtEnd(PromotedEntries),
                   recovery |-> ~column, epoch |-> epoch]
<1>1. /\ attempt.ph = "wrote" /\ attempt' = NoAttempt
      /\ baselineRow' = IF attempt.type = "update" /\ ~baselineRow.exists THEN baselineRow ELSE new
      /\ UNCHANGED <<input, column, docs, produced, epoch, runs, mixed>>
  BY DEF Succeed
<1>2. PromotedEntries \in Entries
  BY DEF PromotedEntries, AdvanceEntries, SnapshotTypes, SnapshotsTypeOK, Entries
<1>3. AttributableAtEnd(PromotedEntries) \in SUBSET Named(PromotedEntries)
  BY DEF AttributableAtEnd, Recovered
<1>4. /\ new.exists /\ new.entries = PromotedEntries /\ new.recovery = ~column /\ new.epoch = epoch
      /\ new.attributable = AttributableAtEnd(PromotedEntries)
      /\ new \in [exists : BOOLEAN, entries : Entries, attributable : SUBSET Names,
                  recovery : BOOLEAN, epoch : 0..runs]
  BY <1>2, <1>3 DEF SnapshotTypes, SnapshotsTypeOK, Named
<1> HIDE DEF new
<1>5. SnapshotTypes'
  <2>1. NoAttempt \in [type : {"none", "index", "update"}, ph : {"idle", "captured", "spawned", "wrote"},
                       entries : Entries, attributable : SUBSET Names, recovery : BOOLEAN]
    BY DEF NoAttempt, Nothing, Entries
  <2>2. baselineRow' \in [exists : BOOLEAN, entries : Entries, attributable : SUBSET Names,
                          recovery : BOOLEAN, epoch : 0..runs]
        /\ baselineRow'.attributable \subseteq Named(baselineRow'.entries)
    BY <1>1, <1>3, <1>4 DEF SnapshotTypes, SnapshotsTypeOK
  <2> QED BY <1>1, <2>1, <2>2 DEF SnapshotTypes, SnapshotsTypeOK
<1>6. RunTakes' /\ Epochs' /\ WrittenOK'
  <2>1. attempt'.ph = "idle"
    BY <1>1 DEF NoAttempt
  <2>2. epoch \in Nat
    BY DEF SnapshotTypes, SnapshotsTypeOK
  <2> QED BY <1>1, <1>4, <2>1, <2>2 DEF RunTakes, Epochs, WrittenOK
<1>7. ASSUME baselineRow'.exists, baselineRow'.recovery, ~mixed PROVE Mirrored'
  <2>1. baselineRow' = new /\ ~column
    BY <1>1, <1>4, <1>7 DEF WrittenOK
  <2>2. \A d \in docs : d.title = d.name /\ d.text = PromotedEntries[d.name]
    BY <1>1, <1>7, <2>1 DEF WrittenOK, MadeOf
  <2>3. \A d \in docs : d.name \in Names /\ PromotedEntries[d.name] # Absent
    BY <2>2, DocumentsAssumption DEF SnapshotTypes, Document
  <2>4. \A n \in Names : n \in AttributableAtEnd(PromotedEntries) <=> \E d \in docs : d.name = n
    BY <2>1, <2>2, <2>3 DEF AttributableAtEnd, Recovered, Named
  <2> QED BY <1>1, <1>4, <2>1, <2>2, <2>4 DEF Mirrored, MadeOf
<1> QED BY <1>1, <1>5, <1>6, <1>7

\* The run fails and leaves what it wrote.
LEMMA FailKeeps ==
    ASSUME SnapshotsInv, Fail
    PROVE  SnapshotsInv'
<1> USE DEF SnapshotsInv
<1>1. /\ attempt.ph # "idle" /\ attempt' = NoAttempt
      /\ UNCHANGED <<input, column, docs, produced, epoch, baselineRow, runs, mixed>>
  BY DEF Fail
<1>2. attempt'.ph = "idle" /\ epoch \in Nat /\ baselineRow.epoch \in Nat
  BY <1>1 DEF NoAttempt, SnapshotTypes, SnapshotsTypeOK
<1>3. SnapshotTypes'
  <2>1. NoAttempt \in [type : {"none", "index", "update"}, ph : {"idle", "captured", "spawned", "wrote"},
                       entries : Entries, attributable : SUBSET Names, recovery : BOOLEAN]
    BY DEF NoAttempt, Nothing, Entries
  <2> QED BY <1>1, <2>1 DEF SnapshotTypes, SnapshotsTypeOK
<1>4. RunTakes' /\ Epochs' /\ WrittenOK'
  BY <1>1, <1>2 DEF RunTakes, Epochs, WrittenOK
<1>5. baselineRow.exists /\ (Fresh' \/ FirstRun') => Fresh
  BY <1>1, <1>2 DEF Fresh, FirstRun, Epochs, SnapshotTypes, SnapshotsTypeOK
<1> QED BY <1>1, <1>3, <1>4, <1>5 DEF Mirrored, MadeOf

\* The invariant of IndexSnapshots.
LEMMA SnapshotsInvariant == SnapshotsSpec => []SnapshotsInv
<1>1. SnapshotsInv /\ [SnapshotsNext]_snapshotVars => SnapshotsInv'
  <2> SUFFICES ASSUME SnapshotsInv, [SnapshotsNext]_snapshotVars PROVE SnapshotsInv'
    OBVIOUS
  <2>1. CASE UNCHANGED snapshotVars
    BY <2>1 DEF snapshotVars, SnapshotsInv, SnapshotTypes, SnapshotsTypeOK, RunTakes, Epochs, WrittenOK,
                PromotedEntries, Mirrored, MadeOf, Fresh, FirstRun, Recovered
  <2>2. CASE \E t \in {"index", "update"} : CaptureStart(t)
    BY <2>2, CaptureKeeps
  <2> QED BY <2>1, <2>2, EditKeeps, BumpKeeps, WriteKeeps, SucceedKeeps, FailKeeps DEF SnapshotsNext
<1> QED BY <1>1, SnapshotsStart, PTL DEF SnapshotsSpec

\* The snapshots, the documents and the run are such as the tables and output/ hold.
THEOREM SnapshotsTypes == SnapshotsSpec => []SnapshotsTypeOK
<1>1. SnapshotsInv => SnapshotsTypeOK
  BY DEF SnapshotsInv, SnapshotTypes
<1> QED BY <1>1, SnapshotsInvariant, PTL

\* Any names, texts and number of runs, edits, silent drops, failures and changes
\* of the title column: what the listing shows of a document is what graphrag holds
\* of it, wherever the listing calls itself reliable and every document of the index
\* came from a promoted run by the names of the files.
THEOREM StatesAreTheIndex == SnapshotsSpec => []StatesMirrorTheIndex
<1>1. SnapshotsInv => StatesMirrorTheIndex
  <2> SUFFICES ASSUME SnapshotsInv, Reliable, ~mixed
               PROVE  /\ \A d \in docs : d.name \in Listed
                      /\ \A n \in Listed :
                           CASE IndexState(n) = "indexed"  -> InTheIndex(n, input[n])
                             [] IndexState(n) = "modified" -> ~InTheIndex(n, input[n])
                             [] IndexState(n) = "skipped"  -> \A d \in docs : d.name # n
                             [] IndexState(n) = "new"      -> \A d \in docs : d.name # n
                             [] IndexState(n) = "removed"  ->
                                   n \in baselineRow.attributable => InTheIndex(n, baselineRow.entries[n])
    BY DEF StatesMirrorTheIndex
  <2>1. IngestCheck /\ Mirrored
    BY DEF SnapshotsInv, Reliable, Resting, IngestCheck, ArtifactsStale, Fresh
  <2>2. \A d \in docs : d.name \in Names /\ d.text = baselineRow.entries[d.name] /\ d.text # Absent
    BY <2>1, DocumentsAssumption DEF Mirrored, MadeOf, SnapshotsInv, SnapshotTypes, Document
  <2>3. \A n \in Names : n \in baselineRow.attributable <=> InTheIndex(n, baselineRow.entries[n])
    BY <2>1, <2>2 DEF Mirrored, InTheIndex
  <2>4. \A d \in docs : d.name \in Listed
    BY <2>2 DEF Listed, Named
  <2>5. ASSUME NEW n \in Listed
        PROVE  CASE IndexState(n) = "indexed"  -> InTheIndex(n, input[n])
                 [] IndexState(n) = "modified" -> ~InTheIndex(n, input[n])
                 [] IndexState(n) = "skipped"  -> \A d \in docs : d.name # n
                 [] IndexState(n) = "new"      -> \A d \in docs : d.name # n
                 [] IndexState(n) = "removed"  ->
                       n \in baselineRow.attributable => InTheIndex(n, baselineRow.entries[n])
    <3>1. n \in Names
      BY DEF Listed, Named
    <3>2. CASE baselineRow.entries[n] = Absent
      BY <2>2, <3>2 DEF IndexState
    <3>3. CASE baselineRow.entries[n] # Absent /\ input[n] = Absent
      BY <2>3, <3>1, <3>3 DEF IndexState
    <3>4. CASE baselineRow.entries[n] # Absent /\ input[n] # Absent /\ input[n] # baselineRow.entries[n]
      BY <2>2, <3>4 DEF IndexState, InTheIndex
    <3>5. CASE baselineRow.entries[n] # Absent /\ input[n] = baselineRow.entries[n]
      BY <2>1, <2>2, <2>3, <3>1, <3>5 DEF IndexState, InTheIndex
    <3> QED BY <3>2, <3>3, <3>4, <3>5
  <2> QED BY <2>4, <2>5
<1> QED BY <1>1, SnapshotsInvariant, PTL

\* A file that is shown as indexed is in the index with the text it has, as long as every
\* document came from a promoted run by the names of the files: a failed run or another
\* title rule between two updates is all that is left (`index_states`).
THEOREM ShownAsIndexed == SnapshotsSpec => [](~mixed => IndexedMeansIngested)
<1>1. StatesMirrorTheIndex => (~mixed => IndexedMeansIngested)
  BY DEF StatesMirrorTheIndex, IndexedMeansIngested, Listed
<1> QED BY <1>1, StatesAreTheIndex, PTL

-----------------------------------------------------------------------------
(* The parts side by side (MCWorkspace).                                    *)

\* A behaviour in which one of the parts moves is a behaviour of each of them, so that
\* what holds of a part holds of the whole.
LEMMA EachPartWorks == WorkspaceSpec => FilesSpec /\ SnapshotsSpec /\ ConfigSpec /\ RetentionSpec
<1>1. WorkspaceInit => FilesInit /\ SnapshotsInit /\ ConfigInit /\ RetentionInit
  BY DEF WorkspaceInit
<1>2. [WorkspaceNext]_<<part, filesVars, snapshotVars, configVars, sweepVars>> =>
        /\ [FilesNext]_filesVars /\ [SnapshotsNext]_snapshotVars /\ [ConfigNext]_configVars
        /\ [RetentionNext]_<<retentionVars, lifecycleVars>>
  BY DEF WorkspaceNext, FilesStep, SnapshotsStep, SettingsStep, RetentionStep, sweepVars
<1> QED BY <1>1, <1>2, PTL DEF WorkspaceSpec, FilesSpec, SnapshotsSpec, ConfigSpec, RetentionSpec

\* The files, rows, stamps, snapshots, jobs and requests of every part are such as the
\* tables, the file system and the processes can hold, and a lock has one holder, for
\* any number of them.
THEOREM TypesOfTheWorkspace == WorkspaceSpec => []WorkspaceTypeOK
<1> DEFINE Part == part \in {"files", "snapshots", "config", "retention"}
<1>1. WorkspaceInit => Part
  BY DEF WorkspaceInit
<1>2. Part /\ [WorkspaceNext]_<<part, filesVars, snapshotVars, configVars, sweepVars>> => Part'
  BY DEF WorkspaceNext
<1>3. Part /\ FilesTypeOK /\ SnapshotsTypeOK /\ ConfigTypeOK /\ RetentionTypeOK => WorkspaceTypeOK
  BY DEF WorkspaceTypeOK
<1>4. WorkspaceSpec => []Part
  BY <1>1, <1>2, PTL DEF WorkspaceSpec
<1> QED BY <1>3, <1>4, EachPartWorks, FilesTypes, SnapshotsTypes, ConfigTypes, RetentionTypes, PTL

=============================================================================
