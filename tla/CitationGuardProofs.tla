------------------------- MODULE CitationGuardProofs -------------------------
(***************************************************************************)
(* The citation guard is sound for every number of projects, pods, jobs,   *)
(* readers, documents and crashes, as long as the pods reach the database. *)
(*                                                                         *)
(* The argument: epochs only grow, and a job becomes the baseline once, so *)
(* when G1 finds the pointer and the epoch of G0, both held all the time   *)
(* in between; and while the baseline's epoch is the current one, output/  *)
(* holds what the baseline's run left (BaselineIsCurrent).                 *)
(***************************************************************************)
EXTENDS MCAnswers, JobQueueProofs, TestRunsProofs

-----------------------------------------------------------------------------
(* The queue beside the readers is the queue.                               *)

allVars == <<vars, readerVars>>

LEMMA ReaderLeavesQueue ==
    ASSUME NEW r \in Readers, ReaderStep(r)
    PROVE  UNCHANGED vars
BY DEF ReaderStep, ReadPointer, ReadActive, CacheHit, CacheMiss, LoadFrame, Abandon,
       AnswerUnlinked, Resolve, ReadBaseline, RereadPointer, Answer

LEMMA QueueBeside == GuardSpec => Spec
<1>1. GuardInit => Init
  BY DEF GuardInit
<1>2. [GuardNext]_allVars => [Next]_vars
  BY ReaderLeavesQueue DEF GuardNext, allVars, Evict
<1> QED BY <1>1, <1>2, PTL DEF GuardSpec, Spec, allVars

\* What is known of the queue at any time, the first part from the theorems
\* about it.
Queue ==
    TypeInv /\ PendingStarted /\ StageOrder /\ BaselineIsEvidence /\ OneActiveJobPerProject
      /\ NoZombie /\ OutputIsOfTheBaseline

LEMMA QueueInvariant ==
    ASSUME MaxOutages = 0
    PROVE  GuardSpec => []Queue
<1>1. outages = 0 /\ NoZombieYet /\ CurrentBaselineMatchesOutput
          => NoZombie /\ OutputIsOfTheBaseline
  BY DEF NoZombieYet, CurrentBaselineMatchesOutput
<1>2. Spec => []Queue
  BY <1>1, StageInvariant, EvidenceIsSound, OneActiveJob, NoZombieInvariant, BaselineIsCurrent,
     NoOutage, PTL
     DEF Queue
<1> QED BY <1>2, QueueBeside, PTL

-----------------------------------------------------------------------------
(* Types of the readers.                                                    *)

LEMMA BecomesType ==
    ASSUME rd \in [Readers -> ReaderStates], NEW r \in Readers, NEW s \in ReaderStates,
           Becomes(r, s)
    PROVE  /\ rd' \in [Readers -> ReaderStates]
           /\ rd'[r] = s
           /\ \A q \in Readers : q # r => rd'[q] = rd[q]
BY DEF Becomes

LEMMA IdleType == Idle \in ReaderStates
BY SMTT(40) DEF Idle, ReaderStates, Phases, Provenance, Nothing

\* The states the steps of a reader leave it in are well formed.
LEMMA StateTypes ==
    ASSUME NEW s \in ReaderStates
    PROVE  /\ \A pr \in Projects, b \in Jobs \cup {NoJob}, e \in Nat :
                [Idle EXCEPT !.ph = "pointer", !.pr = pr, !.gb = b, !.ge = e] \in ReaderStates
           /\ \A a \in BOOLEAN : [s EXCEPT !.ph = "guarded", !.ga = a] \in ReaderStates
           /\ \A f \in Provenance : [s EXCEPT !.ph = "ready", !.frame = f] \in ReaderStates
           /\ \A f \in Provenance : [s EXCEPT !.ph = "statted", !.stat = f] \in ReaderStates
           /\ \A d \in Documents, t \in Provenance :
                /\ [s EXCEPT !.doc = d, !.title = t] \in ReaderStates
                /\ [s EXCEPT !.ph = "named", !.memo[d] = t] \in ReaderStates
           /\ \A b \in Jobs \cup {NoJob}, e \in Nat :
                [s EXCEPT !.ph = "reread", !.hb = b, !.he = e] \in ReaderStates
           /\ [s EXCEPT !.ph = "resolved"] \in ReaderStates
           /\ \A e \in Nat : [s EXCEPT !.base = e] \in ReaderStates
           /\ [s EXCEPT !.ph = "ready", !.doc = Unread, !.title = Nothing] \in ReaderStates
<1> USE IdleType DEF ReaderStates, Phases
<1>1. ASSUME NEW pr \in Projects, NEW b \in Jobs \cup {NoJob}, NEW e \in Nat
      PROVE  [Idle EXCEPT !.ph = "pointer", !.pr = pr, !.gb = b, !.ge = e] \in ReaderStates
  OBVIOUS
<1>2. ASSUME NEW a \in BOOLEAN
      PROVE  [s EXCEPT !.ph = "guarded", !.ga = a] \in ReaderStates
  OBVIOUS
<1>3. ASSUME NEW f \in Provenance
      PROVE  [s EXCEPT !.ph = "ready", !.frame = f] \in ReaderStates
  OBVIOUS
<1>4. ASSUME NEW f \in Provenance
      PROVE  [s EXCEPT !.ph = "statted", !.stat = f] \in ReaderStates
  OBVIOUS
<1>5. ASSUME NEW d \in Documents, NEW t \in Provenance
      PROVE  /\ [s EXCEPT !.doc = d, !.title = t] \in ReaderStates
             /\ [s EXCEPT !.ph = "named", !.memo[d] = t] \in ReaderStates
  OBVIOUS
<1>6. ASSUME NEW b \in Jobs \cup {NoJob}, NEW e \in Nat
      PROVE  [s EXCEPT !.ph = "reread", !.hb = b, !.he = e] \in ReaderStates
  OBVIOUS
<1>7. [s EXCEPT !.ph = "resolved"] \in ReaderStates
  OBVIOUS
<1>8. ASSUME NEW e \in Nat PROVE [s EXCEPT !.base = e] \in ReaderStates
  OBVIOUS
<1>9. [s EXCEPT !.ph = "ready", !.doc = Unread, !.title = Nothing] \in ReaderStates
  BY DEF Nothing, Provenance
<1> QED BY <1>1, <1>2, <1>3, <1>4, <1>5, <1>6, <1>7, <1>8, <1>9


-----------------------------------------------------------------------------
(* The invariant of the readers.                                            *)

\* The generation a reader started from is still the current one, and the
\* baseline stands for the output.
Lasting(s) ==
    /\ s.gb # NoJob /\ baseline[s.pr] = s.gb
    /\ epoch[s.pr] = s.ge /\ snapEpoch[s.gb] = s.ge

\* What G1 and the memo have told the reader would let it attach.
Bracketed(s) == s.gb # NoJob /\ s.gb = s.hb /\ s.ge = s.he /\ s.ge = s.base

\* While the generation lives, all that was read was left by the baseline's
\* run; what was so when G1 was read stays so.
Sound(s) ==
    s.ph # "idle" =>
        /\ s.pr \in Projects /\ s.ge <= epoch[s.pr]
        /\ s.gb # NoJob => status[s.gb] = "succeeded" /\ baseline[s.pr] # NoJob
        /\ s.ph \in {"resolved", "named", "reread"} => s.doc \in Documents /\ s.gb # NoJob
        /\ baseline[s.pr] = s.gb /\ s.gb # NoJob /\ (s.base # 0 \/ s.ph \in {"named", "reread"})
             => s.base = snapEpoch[s.gb]
        /\ Lasting(s) =>
             /\ s.ph \in {"ready", "resolved", "named", "reread"} => s.frame = Built(s.gb)
             /\ s.ph = "resolved" => s.title = Built(s.gb)
             /\ s.ph \in {"named", "reread"} => s.memo[s.doc] = Built(s.gb)
             /\ \A d \in Documents : s.memo[d] # Nothing => s.memo[d] = Built(s.gb)
        /\ s.ph = "reread" /\ Bracketed(s) =>
             s.frame = Built(s.gb) /\ s.memo[s.doc] = Built(s.gb)

Ended(j) == stage[j] \in {"ended", "gone"}

\* A cached frame whose key is a complete output is that output.
CacheSound ==
    /\ \A pr \in Projects : \A j \in Jobs :
         /\ out[pr] = Built(j) => Ended(j)
         /\ cache[pr].validity = Built(j) =>
              Ended(j) /\ (out[pr] = Built(j) => cache[pr].frame = Built(j))
    /\ \A r \in Readers : \A j \in Jobs : rd[r].stat = Built(j) => Ended(j)

GuardInv ==
    /\ GuardTypeOK /\ CacheSound /\ LinksAreOfTheBaseline
    /\ \A r \in Readers : Sound(rd[r])

-----------------------------------------------------------------------------
(* Steps of the queue.                                                      *)

LEMMA StageSteps ==
    ASSUME TypeInv, [Next]_vars
    PROVE  /\ \A j \in Jobs : Ended(j) => Ended(j)'
           /\ \A pr \in Projects, j \in Jobs :
                out'[pr] = Built(j) => out[pr] = Built(j) \/ (stage[j] = "running" /\ Ended(j)')
<1> USE DEF Ended, TypeInv, TypeOK, RowTypes, ExecutorTypes, execVars
<1> DEFINE Moves == \A j \in Jobs : Ended(j) => Ended(j)'
<1>1. ASSUME NEW j \in Jobs, CliWrites(j)
      PROVE  /\ Moves
             /\ \A pr \in Projects, k \in Jobs : out'[pr] = Built(k) => out[pr] = Built(k)
  BY <1>1 DEF CliWrites, OutputTypes, Built
<1>2. ASSUME NEW j \in Jobs, CliExits(j)
      PROVE  /\ Moves
             /\ \A pr \in Projects, k \in Jobs :
                  out'[pr] = Built(k) => out[pr] = Built(k) \/ (stage[k] = "running" /\ Ended(k)')
  BY <1>2 DEF CliExits, OutputTypes, Built
<1>3. ASSUME UNCHANGED out, Moves
      PROVE  /\ Moves
             /\ \A pr \in Projects, k \in Jobs : out'[pr] = Built(k) => out[pr] = Built(k)
  BY <1>3
<1>4. ASSUME NEW pr \in Projects, NEW t \in Types, Insert(pr, t)
      PROVE  UNCHANGED out /\ Moves
  BY <1>4 DEF Insert
<1>5. ASSUME NEW j \in Jobs,
             CancelQueued(j) \/ CancelRunning(j) \/ Beat(j) \/ PollCancel(j) \/ Expire(j)
      PROVE  UNCHANGED out /\ Moves
  BY <1>5 DEF CancelQueued, CancelRunning, Beat, PollCancel, Expire
<1>6. ASSUME NEW p \in Pods,
             ReconcileScan(p) \/ Count(p) \/ ClaimNothing(p) \/ Restart(p)
             \/ LoseDatabase(p) \/ RegainDatabase(p)
      PROVE  UNCHANGED out /\ Moves
  BY <1>6 DEF ReconcileScan, Count, ClaimNothing, Restart, LoseDatabase, RegainDatabase
<1>7. ASSUME NEW p \in Pods, Claim(p) \/ IterationFails(p) \/ Crash(p)
      PROVE  UNCHANGED out /\ Moves
  BY <1>7 DEF Claim, Queued, RowsOK, IterationFails, Crash
<1>8. ASSUME NEW p \in Pods, NEW j \in Jobs, ReconcileOne(p, j) \/ SpawnTask(p, j)
      PROVE  UNCHANGED out /\ Moves
  BY <1>8 DEF ReconcileOne, SpawnTask
<1>9. ASSUME NEW j \in Jobs, ExecutorStep(j) \/ TestRunEnds(j)
      PROVE  UNCHANGED out /\ Moves
  BY <1>9 DEF ExecutorStep, BeginFinished, BeginCancelled, Begin, BeginFails, CaptureStart,
     BumpArtifactEpoch, Spawn, StepFails, Finish, FinishDiscarded, FinishFails, TestRunEnds
<1>10. CASE UNCHANGED vars
  BY <1>10 DEF vars
<1> QED
  BY <1>1, <1>2, <1>3, <1>4, <1>5, <1>6, <1>7, <1>8, <1>9, <1>10
  DEF Next, Request, Enqueue, EnqueueRun, LoopStep, RunStep, Environment

\* A success is final and keeps its epoch.
LEMMA SuccessStays ==
    ASSUME TypeInv, PendingStarted, [Next]_vars, NEW j \in Jobs, status[j] = "succeeded"
    PROVE  status'[j] = "succeeded" /\ snapEpoch'[j] = snapEpoch[j]
<1> USE DEF TypeInv, TypeOK, RowTypes, SnapshotTypes, Active, ActiveStatuses, snapVars
<1>1. ASSUME NEW pr \in Projects, NEW t \in Types, Insert(pr, t)
      PROVE  status'[j] = "succeeded" /\ snapEpoch'[j] = snapEpoch[j]
  BY <1>1 DEF Insert
<1>2. ASSUME NEW k \in Jobs, CancelQueued(k) \/ BeginCancelled(k)
      PROVE  status'[j] = "succeeded" /\ snapEpoch'[j] = snapEpoch[j]
  BY <1>2 DEF CancelQueued, NotStarted, BeginCancelled, Close
<1>3. ASSUME NEW k \in Jobs, Finish(k)
      PROVE  status'[j] = "succeeded" /\ snapEpoch'[j] = snapEpoch[j]
  BY <1>3 DEF Finish, TerminalWriteMatches, Close, Promote
<1>4. ASSUME NEW p \in Pods, Claim(p)
      PROVE  status'[j] = "succeeded" /\ snapEpoch'[j] = snapEpoch[j]
  BY <1>4 DEF Claim, Queued
<1>5. ASSUME NEW p \in Pods, NEW k \in Jobs, ReconcileOne(p, k), TerminalWriteMatches(k)
      PROVE  status'[j] = "succeeded" /\ snapEpoch'[j] = snapEpoch[j]
  BY <1>5 DEF ReconcileOne, TerminalWriteMatches, Close
<1>6. CASE Quiet
  BY <1>6 DEF Quiet
<1> QED BY RowSteps, <1>1, <1>2, <1>3, <1>4, <1>5, <1>6

LEMMA QueueKeeps ==
    ASSUME Queue, Queue', GuardInv, Next, UNCHANGED readerVars
    PROVE  GuardInv'
<1> USE DEF readerVars
<1>1. TypeInv /\ PendingStarted /\ [Next]_vars
  BY DEF Queue
<1>2. GuardTypeOK'
  BY DEF GuardInv, GuardTypeOK
<1>3. CacheSound'
  BY <1>1, StageSteps DEF GuardInv, CacheSound, Ended
<1>4. LinksAreOfTheBaseline'
  BY DEF GuardInv, LinksAreOfTheBaseline
<1>5. ASSUME NEW s \in ReaderStates, Sound(s), s.ph # "idle" PROVE Sound(s)'
  <2>1. s.pr \in Projects /\ s.ge \in Nat /\ s.gb \in Jobs \cup {NoJob}
    BY <1>5 DEF Sound, ReaderStates
  <2>2. s.ge <= epoch[s.pr] /\ epoch[s.pr] <= epoch'[s.pr]
    BY <1>1, <1>5, <2>1, SnapshotsGrow DEF Sound
  <2>3. epoch[s.pr] \in Nat /\ epoch'[s.pr] \in Nat
    BY <2>1 DEF Queue, TypeInv, TypeOK, SnapshotTypes
  <2>4. s.gb # NoJob => /\ status[s.gb] = "succeeded" /\ status'[s.gb] = "succeeded"
                        /\ snapEpoch'[s.gb] = snapEpoch[s.gb]
    BY <1>1, <1>5, <2>1, SuccessStays DEF Sound
  <2>5. baseline'[s.pr] # baseline[s.pr] =>
          baseline'[s.pr] \in Jobs /\ status[baseline'[s.pr]] = "running"
    BY <1>1, <2>1, PromotionStep
  <2>6. s.gb # NoJob /\ baseline'[s.pr] = s.gb => baseline[s.pr] = s.gb
    BY <2>4, <2>5
  <2>7. s.gb # NoJob => baseline'[s.pr] # NoJob
    BY <1>5, <2>5 DEF Sound, Jobs, NoJob
  <2>8. Lasting(s)' => Lasting(s)
    BY <2>1, <2>2, <2>3, <2>4, <2>6 DEF Lasting
  <2>9. s.ge <= epoch'[s.pr]
    BY <2>1, <2>2, <2>3
  <2>10. Bracketed(s)' <=> Bracketed(s)
    BY DEF Bracketed
  <2> QED BY <1>5, <2>1, <2>4, <2>6, <2>7, <2>8, <2>9, <2>10 DEF Sound
<1>6. \A r \in Readers : Sound(rd[r])'
  BY <1>5 DEF GuardInv, GuardTypeOK, Sound
<1> QED BY <1>2, <1>3, <1>4, <1>6 DEF GuardInv

-----------------------------------------------------------------------------
(* Steps of a reader.                                                       *)

LEMMA ReaderKeeps ==
    ASSUME GuardInv, NEW r \in Readers, NEW s \in ReaderStates, Becomes(r, s), UNCHANGED vars,
           Sound(s), GuardTypeOK', CacheSound', LinksAreOfTheBaseline'
    PROVE  GuardInv'
<1>1. ASSUME NEW q \in Readers PROVE Sound(rd[q])'
  <2>1. Sound(rd'[q])
    BY BecomesType DEF GuardInv, GuardTypeOK
  <2> QED BY <2>1 DEF Sound, Lasting, Bracketed, vars, rowVars, snapVars
<1> QED BY <1>1 DEF GuardInv

\* A step that leaves the cache and the links alone, or that drops the links.
LEMMA ReaderMoves ==
    ASSUME GuardInv, NEW r \in Readers, NEW s \in ReaderStates, Becomes(r, s),
           UNCHANGED <<vars, cache>>, Sound(s),
           \A j \in Jobs : s.stat = Built(j) => Ended(j),
           links' = links \/ links' = [links EXCEPT ![r] = {}], queries' \in Nat
    PROVE  GuardInv'
<1>1. GuardTypeOK'
  BY BecomesType DEF GuardInv, GuardTypeOK
<1>2. CacheSound'
  BY BecomesType DEF GuardInv, GuardTypeOK, CacheSound, Ended, vars, execVars
<1>3. LinksAreOfTheBaseline'
  BY DEF GuardInv, GuardTypeOK, LinksAreOfTheBaseline
<1> QED BY <1>1, <1>2, <1>3, ReaderKeeps

\* What a step of a reader may use of the state it starts from.
LEMMA ReaderFacts ==
    ASSUME Queue, GuardInv, NEW r \in Readers
    PROVE  /\ rd[r] \in ReaderStates /\ Sound(rd[r]) /\ queries \in Nat
           /\ \A j \in Jobs : rd[r].stat = Built(j) => Ended(j)
           /\ \A pr \in Projects :
                /\ baseline[pr] \in Jobs \cup {NoJob} /\ epoch[pr] \in Nat /\ out[pr] \in Provenance
                /\ baseline[pr] # NoJob => /\ status[baseline[pr]] = "succeeded"
                                           /\ snapEpoch[baseline[pr]] \in Nat
                /\ baseline[pr] # NoJob /\ snapEpoch[baseline[pr]] = epoch[pr]
                     => out[pr] = Built(baseline[pr])
BY DEF GuardInv, GuardTypeOK, CacheSound, Queue, TypeInv, TypeOK, SnapshotTypes, OutputTypes, Provenance,
       BaselineIsEvidence, OutputIsOfTheBaseline, Built

LEMMA ReadPointerKeeps ==
    ASSUME Queue, GuardInv, NEW r \in Readers, NEW pr \in Projects, ReadPointer(r, pr)
    PROVE  GuardInv'
<1> DEFINE s == [Idle EXCEPT !.ph = "pointer", !.pr = pr, !.gb = baseline[pr], !.ge = epoch[pr]]
<1>1. s \in ReaderStates
  BY ReaderFacts, StateTypes, IdleType
<1>2. Sound(s)
  BY ReaderFacts DEF Sound, Lasting, Bracketed, Idle
<1>3. \A j \in Jobs : s.stat # Built(j)
  BY DEF Idle, Nothing, Built
<1>4. Becomes(r, s) /\ UNCHANGED <<vars, cache>> /\ links' = links /\ queries' \in Nat
  BY ReaderFacts DEF ReadPointer
<1> HIDE DEF s
<1> QED BY <1>1, <1>2, <1>3, <1>4, ReaderMoves, SMTT(40)

LEMMA ReadActiveKeeps ==
    ASSUME Queue, GuardInv, NEW r \in Readers, ReadActive(r)
    PROVE  GuardInv'
<1> DEFINE s == [rd[r] EXCEPT !.ph = "guarded", !.ga = FreezingJob(rd[r].pr)]
<1>1. s \in ReaderStates
  <2>1. FreezingJob(rd[r].pr) \in BOOLEAN
    BY DEF FreezingJob
  <2> QED BY <2>1, ReaderFacts, StateTypes
<1>2. Sound(s) /\ s.stat = rd[r].stat
  BY ReaderFacts DEF Sound, Lasting, Bracketed, ReadActive, ReaderStates
<1>3. Becomes(r, s) /\ UNCHANGED <<vars, cache>> /\ links' = links /\ queries' \in Nat
  BY ReaderFacts DEF ReadActive
<1>4. \A j \in Jobs : rd[r].stat = Built(j) => Ended(j)
  BY ReaderFacts
<1> HIDE DEF s
<1> QED BY <1>1, <1>2, <1>3, <1>4, ReaderMoves, SMTT(40)

LEMMA CacheHitKeeps ==
    ASSUME Queue, GuardInv, NEW r \in Readers, CacheHit(r)
    PROVE  GuardInv'
<1> DEFINE f == cache[rd[r].pr].frame
<1> DEFINE s == [rd[r] EXCEPT !.ph = "ready", !.frame = f]
<1>1. rd[r].pr \in Projects /\ rd[r].ph = "guarded"
  BY ReaderFacts DEF Sound, CacheHit
<1>2. f \in Provenance
  BY <1>1 DEF GuardInv, GuardTypeOK
<1>3. Lasting(rd[r]) => f = Built(rd[r].gb)
  <2> SUFFICES ASSUME Lasting(rd[r]) PROVE f = Built(rd[r].gb)
    OBVIOUS
  <2>1. out[rd[r].pr] = Built(rd[r].gb) /\ rd[r].gb \in Jobs
    BY <1>1, ReaderFacts DEF Lasting
  <2>2. cache[rd[r].pr].validity = Built(rd[r].gb)
    BY <2>1, SMTT(40) DEF CacheHit
  <2> QED BY <1>1, <2>1, <2>2 DEF GuardInv, CacheSound
<1> HIDE DEF f
<1>4. s \in ReaderStates
  BY <1>2, ReaderFacts, StateTypes
<1>5. Sound(s) /\ s.stat = rd[r].stat
  BY <1>1, <1>3, ReaderFacts DEF Sound, Lasting, Bracketed, ReaderStates
<1>6. Becomes(r, s) /\ UNCHANGED <<vars, cache>> /\ links' = links /\ queries' \in Nat
  BY ReaderFacts DEF CacheHit, f
<1>7. \A j \in Jobs : rd[r].stat = Built(j) => Ended(j)
  BY ReaderFacts
<1> HIDE DEF s
<1> QED BY <1>4, <1>5, <1>6, <1>7, ReaderMoves

LEMMA CacheMissKeeps ==
    ASSUME Queue, GuardInv, NEW r \in Readers, CacheMiss(r)
    PROVE  GuardInv'
<1> DEFINE s == [rd[r] EXCEPT !.ph = "statted", !.stat = out[rd[r].pr]]
<1>1. rd[r].pr \in Projects /\ rd[r].ph = "guarded"
  BY ReaderFacts, SMTT(40) DEF Sound, CacheMiss
<1>2. s \in ReaderStates
  BY <1>1, ReaderFacts, StateTypes
<1>3. Sound(s) /\ s.stat = out[rd[r].pr]
  BY <1>1, ReaderFacts DEF Sound, Lasting, Bracketed, ReaderStates
<1>4. Becomes(r, s) /\ UNCHANGED vars
  BY DEF CacheMiss
<1>5. Nothing \in Provenance
  BY DEF Nothing, Provenance
<1> HIDE DEF s
<1>6. GuardTypeOK'
  BY <1>1, <1>2, <1>4, <1>5, BecomesType DEF GuardInv, GuardTypeOK, CacheMiss
<1>7. LinksAreOfTheBaseline'
  BY DEF CacheMiss, GuardInv, LinksAreOfTheBaseline
<1>8. CacheSound'
  <2>1. \A pr \in Projects : cache'[pr] = cache[pr] \/ cache'[pr].validity = Nothing
    BY <1>1 DEF CacheMiss, GuardInv, GuardTypeOK
  <2>2. \A j \in Jobs : Nothing # Built(j)
    BY DEF Nothing, Built
  <2>3. UNCHANGED <<out, stage>>
    BY <1>4 DEF vars, execVars
  <2>4. \A q \in Readers : rd'[q] = rd[q] \/ rd'[q].stat = out[rd[r].pr]
    BY <1>2, <1>3, <1>4, BecomesType DEF GuardInv, GuardTypeOK
  <2> QED BY <1>1, <2>1, <2>2, <2>3, <2>4 DEF GuardInv, CacheSound, Ended
<1> QED BY <1>2, <1>3, <1>4, <1>6, <1>7, <1>8, ReaderKeeps

LEMMA LoadFrameKeeps ==
    ASSUME Queue, GuardInv, NEW r \in Readers, LoadFrame(r)
    PROVE  GuardInv'
<1> DEFINE s == [rd[r] EXCEPT !.ph = "ready", !.frame = out[rd[r].pr]]
<1>1. rd[r].pr \in Projects /\ rd[r].ph = "statted"
  BY ReaderFacts, SMTT(40) DEF Sound, LoadFrame
<1>2. s \in ReaderStates
  BY <1>1, ReaderFacts, StateTypes
<1>3. Sound(s) /\ s.stat = rd[r].stat
  BY <1>1, ReaderFacts DEF Sound, Lasting, Bracketed, ReaderStates
<1>4. Becomes(r, s) /\ UNCHANGED vars
  BY DEF LoadFrame
<1>5. rd[r].stat \in Provenance /\ out[rd[r].pr] \in Provenance
  BY <1>1, ReaderFacts DEF ReaderStates
<1> HIDE DEF s
<1>6. GuardTypeOK'
  BY <1>1, <1>2, <1>4, <1>5, BecomesType DEF GuardInv, GuardTypeOK, LoadFrame
<1>7. LinksAreOfTheBaseline'
  BY DEF LoadFrame, GuardInv, LinksAreOfTheBaseline
<1>8. CacheSound'
  <2>1. \A pr \in Projects :
          \/ cache'[pr] = cache[pr]
          \/ cache'[pr].validity = rd[r].stat /\ cache'[pr].frame = out[pr]
    BY <1>1 DEF LoadFrame, GuardInv, GuardTypeOK
  <2>2. UNCHANGED <<out, stage>>
    BY <1>4 DEF vars, execVars
  <2>3. \A q \in Readers : rd'[q] = rd[q] \/ rd'[q].stat = rd[r].stat
    BY <1>2, <1>3, <1>4, BecomesType DEF GuardInv, GuardTypeOK
  <2>4. \A j \in Jobs : rd[r].stat = Built(j) => Ended(j)
    BY ReaderFacts
  <2> QED BY <2>1, <2>2, <2>3, <2>4 DEF GuardInv, CacheSound, Ended
<1> QED BY <1>2, <1>3, <1>4, <1>6, <1>7, <1>8, ReaderKeeps

LEMMA ReaderAbandonKeeps ==
    ASSUME Queue, GuardInv, NEW r \in Readers, Abandon(r)
    PROVE  GuardInv'
<1>1. Sound(Idle) /\ \A j \in Jobs : Idle.stat # Built(j)
  BY DEF Sound, Idle, Nothing, Built
<1>2. /\ Becomes(r, Idle) /\ UNCHANGED <<vars, cache>>
      /\ links' = [links EXCEPT ![r] = {}] /\ queries' \in Nat
  BY ReaderFacts DEF Abandon
<1> QED BY <1>1, <1>2, IdleType, ReaderMoves

LEMMA AnswerUnlinkedKeeps ==
    ASSUME Queue, GuardInv, NEW r \in Readers, AnswerUnlinked(r)
    PROVE  GuardInv'
<1>1. Becomes(r, rd[r])
  BY DEF Becomes, AnswerUnlinked, GuardInv, GuardTypeOK
<1>2. UNCHANGED <<vars, cache>> /\ links' = [links EXCEPT ![r] = {}] /\ queries' \in Nat
  BY ReaderFacts DEF AnswerUnlinked
<1> QED BY <1>1, <1>2, ReaderFacts, ReaderMoves

LEMMA ResolveKeeps ==
    ASSUME Queue, GuardInv, NEW r \in Readers, NEW d \in Documents, Resolve(r, d)
    PROVE  GuardInv'
<1> DEFINE known == rd[r].memo[d]
           title == IF known # Nothing THEN known ELSE out[rd[r].pr]
           cited == [rd[r] EXCEPT !.doc = d, !.title = title]
           s     == IF rd[r].base = 0 THEN [cited EXCEPT !.ph = "resolved"]
                    ELSE [cited EXCEPT !.ph = "named", !.memo[d] = title]
<1>1. rd[r].pr \in Projects /\ rd[r].ph = "ready" /\ rd[r].gb # NoJob
  BY ReaderFacts DEF Sound, Resolve
<1>2. title \in Provenance
  BY <1>1, ReaderFacts DEF ReaderStates
<1>3. Lasting(rd[r]) => title = Built(rd[r].gb)
  BY <1>1, ReaderFacts DEF Sound, Lasting
<1>4. Becomes(r, s) /\ UNCHANGED <<vars, cache>> /\ links' = links /\ queries' \in Nat
  BY ReaderFacts, SMTT(40) DEF Resolve
<1> HIDE DEF title
<1>5. s \in ReaderStates
  <2>1. cited \in ReaderStates
    BY <1>2, ReaderFacts, StateTypes
  <2> HIDE DEF cited
  <2> QED BY <1>2, <2>1, StateTypes, ZenonT(60)
<1>6. Sound(s) /\ s.stat = rd[r].stat
  <2>1. rd[r].base = 0 =>
          s.ph = "resolved" /\ s.memo = rd[r].memo /\ s.title = title
    BY ReaderFacts DEF ReaderStates
  <2>2. rd[r].base # 0 =>
          s.ph = "named" /\ s.memo[d] = title
            /\ \A e \in Documents : e # d => s.memo[e] = rd[r].memo[e]
    BY ReaderFacts DEF ReaderStates
  <2>3. /\ s.pr = rd[r].pr /\ s.gb = rd[r].gb /\ s.ge = rd[r].ge /\ s.base = rd[r].base
        /\ s.frame = rd[r].frame /\ s.stat = rd[r].stat /\ s.doc = d
    BY ReaderFacts DEF ReaderStates
  <2> HIDE DEF s
  <2>4. Lasting(s) <=> Lasting(rd[r])
    BY <2>3 DEF Lasting
  <2> QED BY <1>1, <1>3, <2>1, <2>2, <2>3, <2>4, ReaderFacts DEF Sound
<1>7. \A j \in Jobs : rd[r].stat = Built(j) => Ended(j)
  BY ReaderFacts
<1> HIDE DEF s
<1> QED BY <1>4, <1>5, <1>6, <1>7, ReaderMoves

LEMMA ReadBaselineKeeps ==
    ASSUME Queue, GuardInv, NEW r \in Readers, ReadBaseline(r)
    PROVE  GuardInv'
<1> DEFINE b == baseline[rd[r].pr]
           s == [rd[r] EXCEPT !.ph = "named", !.base = snapEpoch[b], !.memo[rd[r].doc] = rd[r].title]
<1>1. /\ rd[r].pr \in Projects /\ rd[r].ph = "resolved" /\ rd[r].gb # NoJob
      /\ rd[r].doc \in Documents /\ b # NoJob
  BY ReaderFacts DEF Sound, ReadBaseline
<1>2. snapEpoch[b] \in Nat
  BY <1>1, ReaderFacts
<1>3. Becomes(r, s) /\ UNCHANGED <<vars, cache>> /\ links' = links /\ queries' \in Nat
  BY ReaderFacts DEF ReadBaseline
<1>4. /\ s.ph = "named" /\ s.base = snapEpoch[b] /\ s.memo[s.doc] = rd[r].title
      /\ \A e \in Documents : e # s.doc => s.memo[e] = rd[r].memo[e]
      /\ s.pr = rd[r].pr /\ s.gb = rd[r].gb /\ s.ge = rd[r].ge
      /\ s.frame = rd[r].frame /\ s.stat = rd[r].stat /\ s.doc = rd[r].doc
  BY <1>1, ReaderFacts, SMTT(40) DEF ReaderStates
<1>5. s \in ReaderStates
  <2> DEFINE n == [rd[r] EXCEPT !.ph = "named", !.memo[rd[r].doc] = rd[r].title]
  <2>1. rd[r].title \in Provenance
    BY ReaderFacts, SMTT(40) DEF ReaderStates
  <2>2. n \in ReaderStates
    BY <1>1, <2>1, ReaderFacts, StateTypes
  <2>3. s = [n EXCEPT !.base = snapEpoch[b]]
    BY ReaderFacts DEF ReaderStates
  <2> HIDE DEF n
  <2> QED BY <1>2, <2>2, <2>3, StateTypes
<1> HIDE DEF s
<1>6. Lasting(s) <=> Lasting(rd[r])
  BY <1>4 DEF Lasting
<1>7. Sound(s)
  BY <1>1, <1>4, <1>6, ReaderFacts DEF Sound
<1>8. \A j \in Jobs : s.stat = Built(j) => Ended(j)
  BY <1>4, ReaderFacts
<1> QED BY <1>3, <1>5, <1>7, <1>8, ReaderMoves

LEMMA RereadPointerKeeps ==
    ASSUME Queue, GuardInv, NEW r \in Readers, RereadPointer(r)
    PROVE  GuardInv'
<1> DEFINE s == [rd[r] EXCEPT !.ph = "reread", !.hb = baseline[rd[r].pr], !.he = epoch[rd[r].pr]]
<1>1. rd[r].pr \in Projects /\ rd[r].ph = "named"
  BY ReaderFacts DEF Sound, RereadPointer
<1>2. s \in ReaderStates
  BY <1>1, ReaderFacts, StateTypes
<1>3. Becomes(r, s) /\ UNCHANGED <<vars, cache>> /\ links' = links /\ queries' \in Nat
  BY ReaderFacts DEF RereadPointer
<1>4. /\ s.ph = "reread" /\ s.hb = baseline[s.pr] /\ s.he = epoch[s.pr]
      /\ s.pr = rd[r].pr /\ s.gb = rd[r].gb /\ s.ge = rd[r].ge /\ s.base = rd[r].base
      /\ s.frame = rd[r].frame /\ s.stat = rd[r].stat /\ s.doc = rd[r].doc /\ s.memo = rd[r].memo
  BY ReaderFacts DEF ReaderStates
<1> HIDE DEF s
<1>5. Lasting(s) <=> Lasting(rd[r])
  BY <1>4 DEF Lasting
\* Pointer and epoch as at G0, and the epoch the memo knows: the generation lives.
<1>6. Bracketed(s) => Lasting(rd[r])
  <2>1. baseline[rd[r].pr] = rd[r].gb /\ rd[r].gb # NoJob => rd[r].base = snapEpoch[rd[r].gb]
    BY <1>1, ReaderFacts DEF Sound
  <2> QED BY <1>4, <2>1 DEF Bracketed, Lasting
<1>7. Sound(s)
  BY <1>1, <1>4, <1>5, <1>6, ReaderFacts DEF Sound
<1>8. \A j \in Jobs : s.stat = Built(j) => Ended(j)
  BY <1>4, ReaderFacts
<1> QED BY <1>2, <1>3, <1>7, <1>8, ReaderMoves

LEMMA AnswerKeeps ==
    ASSUME Queue, GuardInv, NEW r \in Readers, Answer(r)
    PROVE  GuardInv'
<1> DEFINE s    == [rd[r] EXCEPT !.ph = "ready", !.doc = Unread, !.title = Nothing]
           link == [run |-> rd[r].gb, frame |-> rd[r].frame, title |-> rd[r].memo[rd[r].doc]]
<1>1. rd[r].ph = "reread" /\ rd[r].doc \in Documents
  BY ReaderFacts DEF Sound, Answer
<1>2. s \in ReaderStates
  BY ReaderFacts, StateTypes
<1>3. Becomes(r, s) /\ UNCHANGED <<vars, cache>> /\ queries' = queries
  BY DEF Answer
<1>4. /\ s.ph = "ready" /\ s.stat = rd[r].stat /\ s.memo = rd[r].memo
      /\ s.pr = rd[r].pr /\ s.gb = rd[r].gb /\ s.ge = rd[r].ge
      /\ s.base = rd[r].base /\ s.frame = rd[r].frame
  BY ReaderFacts DEF ReaderStates
<1> HIDE DEF s
<1>5. Lasting(s) <=> Lasting(rd[r])
  BY <1>4 DEF Lasting
<1>6. Sound(s)
  BY <1>1, <1>4, <1>5, ReaderFacts DEF Sound
<1>7. links'[r] = {} \/ (links'[r] = {link} /\ Bracketed(rd[r]))
  BY DEF Answer, Trustworthy, Bracketed, GuardInv, GuardTypeOK
<1>8. Bracketed(rd[r]) => link.frame = Built(link.run) /\ link.title = Built(link.run)
  BY <1>1, ReaderFacts DEF Sound
<1>9. link \in [run : Jobs \cup {NoJob}, frame : Provenance, title : Provenance]
  BY <1>1, ReaderFacts DEF ReaderStates
<1> HIDE DEF link
<1>10. \A q \in Readers : q # r => links'[q] = links[q]
  BY DEF Answer, GuardInv, GuardTypeOK
<1>11. LinksAreOfTheBaseline'
  BY <1>7, <1>8, <1>10 DEF GuardInv, LinksAreOfTheBaseline
<1>12. GuardTypeOK'
  <2>1. links' \in [Readers -> SUBSET [run : Jobs \cup {NoJob}, frame : Provenance, title : Provenance]]
    BY <1>7, <1>9, <1>10 DEF Answer, GuardInv, GuardTypeOK
  <2> QED BY <1>2, <1>3, <2>1, BecomesType DEF GuardInv, GuardTypeOK
<1>13. CacheSound'
  BY <1>2, <1>3, <1>4, BecomesType DEF GuardInv, GuardTypeOK, CacheSound, Ended, vars, execVars
<1> QED BY <1>2, <1>3, <1>6, <1>11, <1>12, <1>13, ReaderKeeps

LEMMA EvictKeeps ==
    ASSUME Queue, GuardInv, NEW pr \in Projects, Evict(pr)
    PROVE  GuardInv'
<1>1. Nothing \in Provenance /\ \A j \in Jobs : Nothing # Built(j)
  BY DEF Nothing, Provenance, Built
<1>2. \A p \in Projects : cache'[p] = cache[p] \/ cache'[p].validity = Nothing
  BY DEF Evict, GuardInv, GuardTypeOK
<1>3. UNCHANGED <<vars, rd, links, queries>>
  BY DEF Evict
<1>4. GuardTypeOK'
  BY <1>1, <1>3 DEF Evict, GuardInv, GuardTypeOK
<1>5. CacheSound'
  BY <1>1, <1>2, <1>3 DEF GuardInv, CacheSound, Ended, vars, execVars
<1>6. \A r \in Readers : Sound(rd[r])'
  BY <1>3 DEF GuardInv, Sound, Lasting, Bracketed, vars, rowVars, snapVars
<1>7. LinksAreOfTheBaseline'
  BY <1>3 DEF GuardInv, LinksAreOfTheBaseline
<1> QED BY <1>4, <1>5, <1>6, <1>7 DEF GuardInv

-----------------------------------------------------------------------------
(* The theorem.                                                             *)

LEMMA GuardStart == GuardInit => GuardInv
<1> SUFFICES ASSUME GuardInit PROVE GuardInv
  OBVIOUS
<1>1. Nothing \in Provenance /\ \A j \in Jobs : Nothing # Built(j)
  BY DEF Nothing, Provenance, Built
<1>2. GuardTypeOK
  BY <1>1, IdleType DEF GuardInit, GuardTypeOK
<1>3. CacheSound
  BY <1>1 DEF GuardInit, Init, CacheSound, Idle, Built
<1>4. LinksAreOfTheBaseline
  BY DEF GuardInit, LinksAreOfTheBaseline
<1>5. \A r \in Readers : Sound(rd[r])
  BY DEF GuardInit, Sound, Idle
<1> QED BY <1>2, <1>3, <1>4, <1>5 DEF GuardInv

LEMMA GuardStep == Queue /\ Queue' /\ GuardInv /\ [GuardNext]_allVars => GuardInv'
<1> SUFFICES ASSUME Queue, Queue', GuardInv, [GuardNext]_allVars PROVE GuardInv'
  OBVIOUS
<1>1. CASE Next /\ UNCHANGED readerVars
  BY <1>1, QueueKeeps
<1>2. ASSUME NEW r \in Readers, ReaderStep(r) PROVE GuardInv'
  BY <1>2, ReadPointerKeeps, ReadActiveKeeps, CacheHitKeeps, CacheMissKeeps, LoadFrameKeeps,
     ReaderAbandonKeeps, AnswerUnlinkedKeeps, ResolveKeeps, ReadBaselineKeeps, RereadPointerKeeps,
     AnswerKeeps DEF ReaderStep
<1>3. ASSUME NEW pr \in Projects, Evict(pr) PROVE GuardInv'
  BY <1>3, EvictKeeps
<1>4. CASE UNCHANGED allVars
  BY <1>4 DEF allVars, readerVars, vars, rowVars, snapVars, execVars, GuardInv, GuardTypeOK, CacheSound,
     Ended, LinksAreOfTheBaseline, Sound, Lasting, Bracketed
<1> QED BY <1>1, <1>2, <1>3, <1>4 DEF GuardNext

\* _trustworthy: whatever runs, cancels, crashes and rebuilds happen between
\* the statements of a query or a test run, a link names a document of the
\* build that answered, for any number of projects, jobs, pods, readers and
\* documents, as long as no pod loses the database.
THEOREM LinksAreSound ==
    ASSUME MaxOutages = 0
    PROVE  GuardSpec => []LinksAreOfTheBaseline
<1>1. GuardInv => LinksAreOfTheBaseline
  BY DEF GuardInv
<1> QED BY <1>1, GuardStart, GuardStep, QueueInvariant, PTL DEF GuardSpec, allVars

-----------------------------------------------------------------------------
(* Types of the readers among pods that may lose the database, where what   *)
(* they read need not be sound.                                             *)

\* A reader that has come so far has a project, and what it resolves a document of
\* the baseline it began with.
HasRead(s) ==
    /\ s.ph # "idle" =>
         /\ s.pr \in Projects
         /\ s.gb # NoJob => baseline[s.pr] # NoJob
    /\ s.ph \in {"resolved", "named", "reread"} => s.doc \in Documents /\ s.gb # NoJob

ReadersInv == GuardTypeOK /\ \A r \in Readers : HasRead(rd[r])

\* A project that has a baseline keeps one.
LEMMA BaselineStays ==
    ASSUME TypeInv, [Next]_vars, NEW pr \in Projects, baseline[pr] # NoJob
    PROVE  baseline'[pr] # NoJob
BY PromotionStep DEF Jobs, NoJob

\* A step of a reader that moves it to a state it may be in.
LEMMA ReaderGoesOn ==
    ASSUME ReadersInv, NEW r \in Readers, NEW s \in ReaderStates, HasRead(s), Becomes(r, s), UNCHANGED vars,
           cache' \in [Projects -> [validity : Provenance, frame : Provenance]], queries' \in Nat,
           links' \in [Readers -> SUBSET [run : Jobs \cup {NoJob}, frame : Provenance, title : Provenance]]
    PROVE  ReadersInv'
<1>1. GuardTypeOK'
  BY BecomesType DEF ReadersInv, GuardTypeOK
<1>2. baseline' = baseline
  BY DEF vars, snapVars
<1>3. \A q \in Readers : HasRead(rd[q])'
  BY <1>2, BecomesType DEF ReadersInv, GuardTypeOK, HasRead
<1> QED BY <1>1, <1>3 DEF ReadersInv

LEMMA ReadersStep ==
    ASSUME TypeInv, ReadersInv, NEW r \in Readers, ReaderStep(r)
    PROVE  ReadersInv'
<1> USE DEF GuardTypeOK, ReadersInv
<1> DEFINE s == rd[r]
<1>1. /\ s \in ReaderStates /\ HasRead(s) /\ queries \in Nat
      /\ baseline \in [Projects -> Jobs \cup {NoJob}] /\ epoch \in [Projects -> Nat]
      /\ snapEpoch \in [Jobs -> Nat] /\ out \in [Projects -> Provenance]
  BY DEF TypeInv, TypeOK, RowTypes, SnapshotTypes, OutputTypes, Provenance
<1>2. Nothing \in Provenance
  BY DEF Nothing, Provenance
<1>3. ASSUME NEW pr \in Projects, ReadPointer(r, pr) PROVE ReadersInv'
  <2>1. HasRead([Idle EXCEPT !.ph = "pointer", !.pr = pr, !.gb = baseline[pr], !.ge = epoch[pr]])
    BY DEF HasRead, Idle
  <2>2. [Idle EXCEPT !.ph = "pointer", !.pr = pr, !.gb = baseline[pr], !.ge = epoch[pr]] \in ReaderStates
    <3>1. baseline[pr] \in Jobs \cup {NoJob} /\ epoch[pr] \in Nat
      BY <1>1
    <3> QED BY <3>1, StateTypes, IdleType
  <2> QED BY <1>1, <1>3, <2>1, <2>2, ReaderGoesOn DEF ReadPointer
<1>4. CASE ReadActive(r)
  <2>1. HasRead([s EXCEPT !.ph = "guarded", !.ga = FreezingJob(s.pr)])
    BY <1>1, <1>4 DEF HasRead, ReadActive, ReaderStates
  <2> QED BY <1>1, <1>4, <2>1, StateTypes, ReaderGoesOn DEF ReadActive, FreezingJob
<1>5. CASE CacheHit(r)
  <2>1. s.pr \in Projects /\ cache[s.pr].frame \in Provenance
    BY <1>1, <1>5 DEF HasRead, CacheHit
  <2>2. HasRead([s EXCEPT !.ph = "ready", !.frame = cache[s.pr].frame])
    BY <1>1, <1>5 DEF HasRead, CacheHit, ReaderStates
  <2> QED BY <1>1, <1>5, <2>1, <2>2, StateTypes, ReaderGoesOn DEF CacheHit
<1>6. CASE CacheMiss(r)
  <2>1. s.pr \in Projects /\ out[s.pr] \in Provenance
    BY <1>1, <1>6 DEF HasRead, CacheMiss
  <2>2. HasRead([s EXCEPT !.ph = "statted", !.stat = out[s.pr]])
    BY <1>1, <1>6 DEF HasRead, CacheMiss, ReaderStates
  <2>3. cache' \in [Projects -> [validity : Provenance, frame : Provenance]]
    BY <1>2, <1>6 DEF CacheMiss
  <2> QED BY <1>1, <1>6, <2>1, <2>2, <2>3, StateTypes, ReaderGoesOn DEF CacheMiss
<1>7. CASE LoadFrame(r)
  <2>1. s.pr \in Projects /\ out[s.pr] \in Provenance /\ s.stat \in Provenance
    BY <1>1, <1>7 DEF HasRead, LoadFrame, ReaderStates
  <2>2. HasRead([s EXCEPT !.ph = "ready", !.frame = out[s.pr]])
    BY <1>1, <1>7 DEF HasRead, LoadFrame, ReaderStates
  <2>3. cache' \in [Projects -> [validity : Provenance, frame : Provenance]]
    BY <2>1, <1>7 DEF LoadFrame
  <2> QED BY <1>1, <1>7, <2>1, <2>2, <2>3, StateTypes, ReaderGoesOn DEF LoadFrame
<1>8. CASE Abandon(r)
  <2>1. HasRead(Idle)
    BY DEF HasRead, Idle
  <2> QED BY <1>1, <1>8, <2>1, IdleType, ReaderGoesOn DEF Abandon
<1>9. CASE AnswerUnlinked(r)
  <2>1. GuardTypeOK' /\ rd' = rd /\ baseline' = baseline
    BY <1>9 DEF AnswerUnlinked, vars, snapVars
  <2> QED BY <2>1 DEF HasRead
<1>10. ASSUME NEW d \in Documents, Resolve(r, d) PROVE ReadersInv'
  <2> DEFINE t == IF s.memo[d] # Nothing THEN s.memo[d] ELSE out[s.pr]
             c == [s EXCEPT !.doc = d, !.title = t]
  <2>1. s.ph = "ready" /\ s.gb # NoJob /\ s.pr \in Projects
    BY <1>1, <1>10 DEF HasRead, Resolve
  <2>2. t \in Provenance
    BY <1>1, <2>1 DEF ReaderStates
  <2>3. c \in ReaderStates /\ c.doc = d /\ c.gb = s.gb /\ c.pr = s.pr
    <3>1. c \in ReaderStates
      BY <1>1, <2>2, StateTypes
    <3>2. c.doc = d /\ c.gb = s.gb /\ c.pr = s.pr
      BY <1>1 DEF ReaderStates
    <3> QED BY <3>1, <3>2
  <2>4. \/ Becomes(r, [c EXCEPT !.ph = "resolved"])
        \/ Becomes(r, [c EXCEPT !.ph = "named", !.memo[d] = t])
    BY <1>10 DEF Resolve
  <2>5. UNCHANGED <<vars, cache, links, queries>>
    BY <1>10 DEF Resolve
  <2> HIDE DEF c, t
  <2>6. /\ [c EXCEPT !.ph = "resolved"] \in ReaderStates
        /\ [c EXCEPT !.ph = "named", !.memo[d] = t] \in ReaderStates
    <3>1. [c EXCEPT !.ph = "named", !.memo[d] = t] \in ReaderStates
      BY <2>2, <2>3, StateTypes
    <3> QED BY <2>3, <3>1, StateTypes
  <2>7. /\ HasRead([c EXCEPT !.ph = "resolved"])
        /\ HasRead([c EXCEPT !.ph = "named", !.memo[d] = t])
    BY <1>1, <2>1, <2>3 DEF HasRead, ReaderStates
  <2> QED BY <1>1, <2>4, <2>5, <2>6, <2>7, ReaderGoesOn
<1>11. CASE ReadBaseline(r)
  <2> DEFINE b == baseline[s.pr]
             c == [s EXCEPT !.ph = "named", !.memo[s.doc] = s.title]
  <2>1. /\ s.ph = "resolved" /\ s.pr \in Projects /\ s.doc \in Documents /\ s.gb # NoJob
        /\ b \in Jobs /\ s.title \in Provenance
    BY <1>1, <1>11 DEF HasRead, ReadBaseline, ReaderStates
  <2>2. snapEpoch[b] \in Nat
    BY <1>1, <2>1
  <2>3. c \in ReaderStates
    BY <1>1, <2>1, StateTypes
  <2>4. [c EXCEPT !.base = snapEpoch[b]] \in ReaderStates
    BY <2>2, <2>3, StateTypes
  <2>5. [s EXCEPT !.ph = "named", !.base = snapEpoch[b], !.memo[s.doc] = s.title]
          = [c EXCEPT !.base = snapEpoch[b]]
    BY <1>1 DEF ReaderStates
  <2>6. HasRead([c EXCEPT !.base = snapEpoch[b]])
    BY <1>1, <2>1 DEF HasRead, ReaderStates
  <2>7. Becomes(r, [s EXCEPT !.ph = "named", !.base = snapEpoch[b], !.memo[s.doc] = s.title])
          /\ UNCHANGED <<vars, cache, links, queries>>
    BY <1>11 DEF ReadBaseline
  <2> HIDE DEF c
  <2> QED BY <1>1, <2>4, <2>5, <2>6, <2>7, ReaderGoesOn
<1>12. CASE RereadPointer(r)
  <2>1. s.ph = "named" /\ s.pr \in Projects
    BY <1>1, <1>12 DEF HasRead, RereadPointer
  <2>2. HasRead([s EXCEPT !.ph = "reread", !.hb = baseline[s.pr], !.he = epoch[s.pr]])
    BY <1>1, <2>1 DEF HasRead, ReaderStates
  <2> QED BY <1>1, <1>12, <2>1, <2>2, StateTypes, ReaderGoesOn DEF RereadPointer
<1>13. CASE Answer(r)
  <2>1. s.ph = "reread" /\ s.doc \in Documents
    BY <1>1, <1>13 DEF HasRead, Answer
  <2>2. [run |-> s.gb, frame |-> s.frame, title |-> s.memo[s.doc]]
          \in [run : Jobs \cup {NoJob}, frame : Provenance, title : Provenance]
    BY <1>1, <2>1 DEF ReaderStates
  <2>3. links' \in [Readers -> SUBSET [run : Jobs \cup {NoJob}, frame : Provenance, title : Provenance]]
    BY <1>13, <2>2 DEF Answer
  <2>4. HasRead([s EXCEPT !.ph = "ready", !.doc = Unread, !.title = Nothing])
    BY <1>1, <2>1 DEF HasRead, ReaderStates
  <2> QED BY <1>1, <1>13, <2>3, <2>4, StateTypes, ReaderGoesOn DEF Answer
<1> QED BY <1>3, <1>4, <1>5, <1>6, <1>7, <1>8, <1>9, <1>10, <1>11, <1>12, <1>13 DEF ReaderStep

LEMMA ReadersInvariant == GuardSpec => [](TypeInv /\ ReadersInv)
<1>1. GuardInit => ReadersInv
  <2> SUFFICES ASSUME GuardInit PROVE ReadersInv
    OBVIOUS
  <2>1. Nothing \in Provenance
    BY DEF Nothing, Provenance
  <2> QED BY <2>1, IdleType DEF GuardInit, ReadersInv, GuardTypeOK, HasRead, Idle
<1>2. TypeInv /\ ReadersInv /\ [GuardNext]_allVars => ReadersInv'
  <2> SUFFICES ASSUME TypeInv, ReadersInv, [GuardNext]_allVars PROVE ReadersInv'
    OBVIOUS
  <2>1. CASE Next /\ UNCHANGED readerVars
    <3>1. GuardTypeOK' /\ rd' = rd /\ [Next]_vars
      BY <2>1 DEF ReadersInv, GuardTypeOK, readerVars
    <3>2. ASSUME NEW r \in Readers PROVE HasRead(rd[r])'
      BY <3>1, BaselineStays DEF ReadersInv, HasRead
    <3> QED BY <3>1, <3>2 DEF ReadersInv
  <2>2. ASSUME NEW pr \in Projects, Evict(pr) PROVE ReadersInv'
    <3>1. Nothing \in Provenance
      BY DEF Nothing, Provenance
    <3>2. baseline' = baseline /\ rd' = rd
      BY <2>2 DEF Evict, vars, snapVars
    <3>3. GuardTypeOK'
      BY <2>2, <3>1 DEF Evict, ReadersInv, GuardTypeOK
    <3> QED BY <3>2, <3>3 DEF ReadersInv, HasRead
  <2>3. CASE UNCHANGED allVars
    BY <2>3 DEF allVars, readerVars, vars, snapVars, ReadersInv, GuardTypeOK, HasRead
  <2> QED BY <2>1, <2>2, <2>3, ReadersStep DEF GuardNext
<1>3. GuardSpec => []TypeInv
  BY QueueBeside, TypeInvariant, PTL
<1> QED BY <1>1, <1>2, <1>3, PTL DEF GuardSpec, allVars

-----------------------------------------------------------------------------
(* The two parts side by side (MCAnswers).                                  *)

\* A behaviour in which one of the parts moves is a behaviour of each of them, so that
\* what holds of a part holds of the whole.
LEMMA EachPartAnswers == AnswersSpec => GuardSpec /\ RunsSpec
<1>1. AnswersInit => GuardInit /\ RunsInit
  BY DEF AnswersInit
<1>2. [AnswersNext]_<<part, vars, readerVars, runsVars>>
        => [GuardNext]_<<vars, readerVars>> /\ [RunsNext]_runsVars
  BY DEF AnswersNext
<1> QED BY <1>1, <1>2, PTL DEF AnswersSpec, GuardSpec, RunsSpec

\* The rows, jobs, pods, readers, questions and requests are such as the tables and the
\* processes can hold, and a request that writes holds the lock of the project, for any
\* number of them and whatever crashes or outages there are.
THEOREM TypesOfAnswers == AnswersSpec => []AnswersTypeOK
<1>1. TypeInv /\ ReadersInv /\ RunsTypeOK => AnswersTypeOK
  BY DEF TypeInv, ReadersInv, AnswersTypeOK
<1> QED BY <1>1, EachPartAnswers, ReadersInvariant, TypesOfRuns, PTL

=============================================================================
