---------------------------- MODULE JobLifecycle ----------------------------
(***************************************************************************)
(* What the job queue of graphrag-web-ui promises, with the pods, the      *)
(* runner loop, the heartbeats and the crashes left out.                   *)
(*                                                                         *)
(* A job of a project is queued, starts, and comes to one conclusion, which*)
(* is final.  A project never has two jobs in flight.  The baseline of a   *)
(* project, the evidence its documents are judged by, moves only in the    *)
(* step that records the success of the job it is taken from.              *)
(***************************************************************************)
EXTENDS Naturals

CONSTANTS
    Projects,   \* the projects of the installation
    NoProject,  \* the project of a job that has not been inserted
    MaxJobs     \* how many jobs a behaviour may queue

ASSUME ProjectsAssumption == NoProject \notin Projects
ASSUME MaxJobsAssumption  == MaxJobs \in Nat

Jobs  == 1..MaxJobs
NoJob == 0

\* domain/jobs.py: ACTIVE_STATUSES and TERMINAL_STATUSES.
ActiveStatuses   == {"queued", "running"}
TerminalStatuses == {"succeeded", "failed", "failed(interrupted)", "cancelled"}
Statuses         == {"absent"} \cup ActiveStatuses \cup TerminalStatuses

VARIABLES
    status,     \* status of each job row; "absent" before it is inserted
    owner,      \* the project of each job
    baseline    \* the job whose baseline row each project points at

lifecycleVars == <<status, owner, baseline>>

InFlight(pr) == {j \in Jobs : status[j] \in ActiveStatuses /\ owner[j] = pr}

LifecycleInit ==
    /\ status = [j \in Jobs |-> "absent"]
    /\ owner = [j \in Jobs |-> NoProject]
    /\ baseline = [pr \in Projects |-> NoJob]

Submit(j, pr) ==
    /\ status[j] = "absent"
    /\ InFlight(pr) = {}
    /\ status' = [status EXCEPT ![j] = "queued"]
    /\ owner' = [owner EXCEPT ![j] = pr]
    /\ UNCHANGED baseline

Start(j) ==
    /\ status[j] = "queued"
    /\ status' = [status EXCEPT ![j] = "running"]
    /\ UNCHANGED <<owner, baseline>>

\* A job that never ran can only be cancelled.
Withdraw(j) ==
    /\ status[j] = "queued"
    /\ status' = [status EXCEPT ![j] = "cancelled"]
    /\ UNCHANGED <<owner, baseline>>

Conclude(j, s) ==
    /\ status[j] = "running"
    /\ status' = [status EXCEPT ![j] = s]
    /\ \/ UNCHANGED baseline
       \/ s = "succeeded" /\ baseline' = [baseline EXCEPT ![owner[j]] = j]
    /\ UNCHANGED owner

LifecycleNext ==
    \E j \in Jobs :
        \/ \E pr \in Projects : Submit(j, pr)
        \/ Start(j)
        \/ Withdraw(j)
        \/ \E s \in TerminalStatuses : Conclude(j, s)

LifecycleSpec == LifecycleInit /\ [][LifecycleNext]_lifecycleVars

LifecycleTypeOK ==
    /\ status \in [Jobs -> Statuses]
    /\ owner \in [Jobs -> Projects \cup {NoProject}]
    /\ baseline \in [Projects -> Jobs \cup {NoJob}]

\* The baseline is always the record of a success of its own project: what
\* the file list and the citation links are judged by never comes from a run
\* that failed, was cancelled or belongs to another project.
BaselineIsASuccess ==
    \A pr \in Projects :
        baseline[pr] # NoJob =>
            status[baseline[pr]] = "succeeded" /\ owner[baseline[pr]] = pr

\* A job comes to one conclusion: no late result, cancel or reconciliation
\* rewrites a terminal status.
ConclusionIsFinal ==
    [][\A j \in Jobs : status[j] \in TerminalStatuses => status'[j] = status[j]]_lifecycleVars
=============================================================================
