----------------------------- MODULE MCJobQueue -----------------------------
(* The job queue on small instances: pods are interchangeable.             *)
EXTENDS JobQueue, TLC

Symmetry == Permutations(Pods)

\* A project for each job.
ProjectOf == CHOOSE f \in [Jobs -> Projects] : \A j, k \in Jobs : f[j] = f[k] => j = k

\* Two jobs of one project: an index and the index or update after it, or a test run
\* and an index.
Rivals ==
    \A j \in Jobs : status[j] # "absent" =>
        /\ owner[j] = ProjectOf[1]
        /\ \/ j = 1 /\ type[j] # "update"
           \/ j = 2 /\ type[j] = "index"
           \/ j = 2 /\ type[j] = "update" /\ type[1] = "index"

\* An index job of every project, of which none begins its work: as many rows as
\* the pods can be made to count and claim at once, some of them cancelled or left
\* by a crash or an outage.
Crowd ==
    \A j \in Jobs : status[j] # "absent" =>
        /\ type[j] = "index" /\ owner[j] = ProjectOf[j]
        /\ stage[j] \in {"none", "claimed", "spawned", "gone"}

\* Every step but a submission, of which the rivals make no third.
Proceeds ==
    \/ \E j \in Jobs : CancelQueued(j) \/ CancelRunning(j)
    \/ \E p \in Pods : ReconcileScan(p) \/ Count(p) \/ LoopStep(p) \/ Environment(p)
    \/ \E j \in Jobs : ExecutorStep(j) \/ RunStep(j) \/ Beat(j) \/ PollCancel(j) \/ Expire(j)

RacingNext ==
    \/ Rivals /\ status[2] # "absent" /\ Proceeds
    \/ ~(Rivals /\ status[2] # "absent") /\ Next /\ (Rivals' \/ Crowd')

RacingSpec == Init /\ [][RacingNext]_vars

\* Of two jobs one is a test run.
OneOfEach == \A j, k \in Jobs : j # k /\ status'[k] # "absent" => type'[j] # type'[k]
=============================================================================
