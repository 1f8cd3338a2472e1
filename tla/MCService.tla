----------------------------- MODULE MCService ------------------------------
(***************************************************************************)
(* What the api serves beside its jobs, checked side by side: sessions,    *)
(* accounts, permissions, projects, queries, the stream of a log and the   *)
(* limiters.  The parts share no variable, and a behaviour is one of them  *)
(* while the others stay as they began, so that the reachable states of    *)
(* the parts add up and do not multiply.                                   *)
(***************************************************************************)
EXTENDS Sessions, UserManagers, Provisioning, Access, Projects, Queries, LogTail, Limits, TLC

VARIABLE part  \* the part that moves

FramesOf == [m \in Methods |-> IF m = "basic" THEN {CHOOSE t \in Tables : TRUE} ELSE Tables]
Sizes == <<2, 4>>
Symmetry == Permutations(Requests)

sessionVars == <<vars, tabVars>>
streamVars == <<cacheVars, queryVars>>
peopleVars == <<managerVars, provisionVars, accessVars, projectVars>>
servingVars == <<streamVars, tailVars, limitVars>>

ServiceInit ==
    /\ part \in {"sessions", "managers", "provisioning", "access", "projects", "queries", "tail", "limits"}
    /\ SessionsInit /\ ManagersInit /\ ProvisioningInit /\ AccessInit /\ ProjectsInit
    /\ QueriesInit /\ TailInit /\ LimitsInit
    /\ part # "sessions" => ~anyClient
    /\ part # "provisioning" => listed = {}
    /\ part # "limits" => limiter = "query"

\* Of arbitrary clients two are served at a time.
SessionsStep ==
    /\ SessionsNext
    /\ anyClient => Cardinality({r \in Requests : req'[r].ph # "idle"}) <= 2
    /\ UNCHANGED <<peopleVars, servingVars>>
ManagersStep == ManagersNext /\ UNCHANGED <<sessionVars, provisionVars, accessVars, projectVars, servingVars>>
ProvisioningStep == ProvisioningNext /\ UNCHANGED <<sessionVars, managerVars, accessVars, projectVars, servingVars>>
AccessStep == AccessNext /\ UNCHANGED <<sessionVars, managerVars, provisionVars, projectVars, servingVars>>
ProjectsStep == ProjectsNext /\ UNCHANGED <<sessionVars, managerVars, provisionVars, accessVars, servingVars>>
QueriesStep == QueriesNext /\ UNCHANGED <<sessionVars, peopleVars, tailVars, limitVars>>
TailStep == TailNext /\ UNCHANGED <<sessionVars, peopleVars, streamVars, limitVars>>
LimitsStep == LimitsNext /\ UNCHANGED <<sessionVars, peopleVars, streamVars, tailVars>>

ServiceNext ==
    /\ UNCHANGED part
    /\ \/ part = "sessions" /\ SessionsStep
       \/ part = "managers" /\ ManagersStep
       \/ part = "provisioning" /\ ProvisioningStep
       \/ part = "access" /\ AccessStep
       \/ part = "projects" /\ ProjectsStep
       \/ part = "queries" /\ QueriesStep
       \/ part = "tail" /\ TailStep
       \/ part = "limits" /\ LimitsStep

ServiceSpec == ServiceInit /\ [][ServiceNext]_<<part, sessionVars, peopleVars, servingVars>>

\* The variables of every part hold such values as the tables, the file system and
\* the processes can, and what refers to a row refers to one that exists.
ServiceTypeOK ==
    CASE part = "sessions"     -> SessionsTypeOK
      [] part = "managers"     -> ManagersTypeOK
      [] part = "provisioning" -> ProvisioningTypeOK
      [] part = "access"       -> AccessTypeOK
      [] part = "projects"     -> ProjectsTypeOK
      [] part = "queries"      -> QueriesTypeOK
      [] part = "tail"         -> TailTypeOK
      [] part = "limits"       -> LimitsTypeOK
=============================================================================
