------------------------------ MODULE Projects ------------------------------
(***************************************************************************)
(* The projects of an installation: a row, and a workspace directory made  *)
(* before the row is committed and removed after it is deleted             *)
(* (services/projects.py).  Uploads, enqueues and cache clearing meet the  *)
(* deletion at the project lock (services/project_lock.py), or just miss   *)
(* it; the jobs are those of JobLifecycle.                                 *)
(*                                                                         *)
(* All projects are created under one name, so that their slugs collide.   *)
(***************************************************************************)
EXTENDS JobLifecycle

CONSTANTS
    Callers,   \* requests that may be under way together
    NoCaller

ASSUME CallersAssumption == NoCaller \notin Callers

VARIABLES
    projectRow,    \* the project's row: "none", "pending", "live" or "gone"
    slug,          \* "base" or "suffixed"
    dir,           \* the workspace directory: "none", "partial" or "ready"
    files,         \* a user's file is in input/
    kept,          \* history: the removal of the directory failed or was cut short
    projectLock,   \* who holds the FOR UPDATE lock of the row
    caller         \* the requests [op, project, ph]

projectVars == <<projectRow, slug, dir, files, kept, projectLock, caller, lifecycleVars>>
dirVars == <<dir, files, kept>>

NoCall == [op |-> "none", project |-> NoProject, ph |-> "idle"]
CallGoes(c, ph) == caller' = [caller EXCEPT ![c].ph = ph]
Leaves(c) == caller' = [caller EXCEPT ![c] = NoCall]
Is(c, op, ph) == caller[c].op = op /\ caller[c].ph = ph
Of(c) == caller[c].project

ProjectsInit ==
    /\ LifecycleInit
    /\ projectRow = [p \in Projects |-> "none"]
    /\ slug = [p \in Projects |-> "base"]
    /\ dir = [p \in Projects |-> "none"]
    /\ files = [p \in Projects |-> FALSE]
    /\ kept = [p \in Projects |-> FALSE]
    /\ projectLock = [p \in Projects |-> NoCaller]
    /\ caller = [c \in Callers |-> NoCall]

-----------------------------------------------------------------------------
(* create_project *)

Taken(s) == s = "base" /\ \E p \in Projects : projectRow[p] = "live" /\ slug[p] = "base"

\* _unique_slug: a new id, and the slug as the committed rows leave it.
Create(c, p) ==
    /\ caller[c] = NoCall /\ projectRow[p] = "none"
    /\ \A d \in Callers : caller[d].project # p
    /\ caller' = [caller EXCEPT ![c] = [op |-> "create", project |-> p, ph |-> "named"]]
    /\ slug' = [slug EXCEPT ![p] = IF Taken("base") THEN "suffixed" ELSE "base"]
    /\ UNCHANGED <<projectRow, projectLock, dirVars, lifecycleVars>>

\* _insert_project: the flush waits for a pending row with the slug; when that was
\* committed, the insert is retried once with a suffix.
InsertProject(c) ==
    /\ Is(c, "create", "named")
    /\ \A p \in Projects : projectRow[p] = "pending" => slug[p] = "suffixed" \/ slug[Of(c)] = "suffixed"
    /\ slug' = [slug EXCEPT ![Of(c)] = IF Taken(@) THEN "suffixed" ELSE @]
    /\ projectRow' = [projectRow EXCEPT ![Of(c)] = "pending"]
    /\ dir' = [dir EXCEPT ![Of(c)] = "partial"]
    /\ CallGoes(c, "init")
    /\ UNCHANGED <<files, kept, projectLock, lifecycleVars>>

\* graphrag init wrote the workspace.
Initialise(c) ==
    /\ Is(c, "create", "init")
    /\ dir' = [dir EXCEPT ![Of(c)] = "ready"]
    /\ CallGoes(c, "commit")
    /\ UNCHANGED <<projectRow, slug, files, kept, projectLock, lifecycleVars>>

CommitProject(c) ==
    /\ Is(c, "create", "commit")
    /\ projectRow' = [projectRow EXCEPT ![Of(c)] = "live"]
    /\ Leaves(c)
    /\ UNCHANGED <<slug, projectLock, dirVars, lifecycleVars>>

\* WorkspaceInitError: rolled back, then the directory goes too.
InitFails(c) ==
    /\ Is(c, "create", "init")
    /\ projectRow' = [projectRow EXCEPT ![Of(c)] = "gone"]
    /\ CallGoes(c, "sweep")
    /\ UNCHANGED <<slug, projectLock, dirVars, lifecycleVars>>

SweepFailedInit(c) ==
    /\ Is(c, "create", "sweep")
    /\ dir' \in {dir, [dir EXCEPT ![Of(c)] = "none"]}
    /\ Leaves(c)
    /\ UNCHANGED <<projectRow, slug, files, kept, projectLock, lifecycleVars>>

\* Any other failure, the commit's included, leaves an orphan directory.
CreateFails(c) ==
    /\ caller[c].op = "create" /\ caller[c].ph \in {"init", "commit"}
    /\ projectRow' = [projectRow EXCEPT ![Of(c)] = "gone"]
    /\ Leaves(c)
    /\ UNCHANGED <<slug, projectLock, dirVars, lifecycleVars>>

-----------------------------------------------------------------------------
(* Requests on a project: each found the row before it did anything else. *)

BeginCall(c, p, op) ==
    /\ caller[c] = NoCall /\ projectRow[p] = "live"
    /\ caller' = [caller EXCEPT ![c] = [op |-> op, project |-> p, ph |-> "begun"]]
    /\ UNCHANGED <<projectRow, slug, projectLock, dirVars, lifecycleVars>>

\* Mutant: nobody waits for the lock.
NoLock(p) == TRUE

\* lock_project; a row that is gone is locked by nobody.
Unlocked(p) == projectLock[p] = NoCaller

\* delete_project: no job of any type may be active.
LockForDelete(c) ==
    /\ Is(c, "delete", "begun") /\ Unlocked(Of(c))
    /\ IF InFlight(Of(c)) # {} THEN Leaves(c) /\ UNCHANGED projectLock
       ELSE /\ CallGoes(c, "locked")
            /\ projectLock' = IF projectRow[Of(c)] = "live" THEN [projectLock EXCEPT ![Of(c)] = c] ELSE projectLock
    /\ UNCHANGED <<projectRow, slug, dirVars, lifecycleVars>>

Released(c) == [p \in Projects |-> IF projectLock[p] = c THEN NoCaller ELSE projectLock[p]]

\* The row goes with all that refers to it; the directory follows the commit.  A
\* second deletion finds no row and removes the directory once more.
CommitDelete(c) ==
    /\ Is(c, "delete", "locked")
    /\ projectRow' = [projectRow EXCEPT ![Of(c)] = "gone"]
    /\ baseline' = [baseline EXCEPT ![Of(c)] = NoJob]
    /\ status' = [j \in Jobs |-> IF owner[j] = Of(c) THEN "absent" ELSE status[j]]
    /\ owner' = [j \in Jobs |-> IF owner[j] = Of(c) THEN NoProject ELSE owner[j]]
    /\ projectLock' = Released(c)
    /\ CallGoes(c, "rmtree")
    /\ UNCHANGED <<slug, dirVars>>

\* The tree goes, or what is left of it stays behind with a warning.
RemoveTree(c) ==
    /\ Is(c, "delete", "rmtree")
    /\ \/ /\ dir' = [dir EXCEPT ![Of(c)] = "none"]
          /\ files' = [files EXCEPT ![Of(c)] = FALSE]
          /\ UNCHANGED kept
       \/ /\ dir[Of(c)] # "none"
          /\ dir' = [dir EXCEPT ![Of(c)] = "partial"]
          /\ kept' = [kept EXCEPT ![Of(c)] = TRUE]
          /\ UNCHANGED files
    /\ Leaves(c)
    /\ UNCHANGED <<projectRow, slug, projectLock, lifecycleVars>>

\* save_file makes input/ and its temporary file without the lock, also after a
\* deletion has removed the workspace.
Stream(c) ==
    /\ Is(c, "upload", "begun")
    /\ dir' = [dir EXCEPT ![Of(c)] = IF @ = "none" THEN "partial" ELSE @]
    /\ CallGoes(c, "streamed")
    /\ UNCHANGED <<projectRow, slug, files, kept, projectLock, lifecycleVars>>

\* The flush of project_files refuses a project that is gone (foreign key); then
\* the file is renamed, if its temporary file has not been removed meanwhile.
Renames(p) == projectRow[p] = "live" /\ dir[p] # "none"

CommitUpload(c) ==
    /\ Is(c, "upload", "streamed") /\ Unlocked(Of(c))
    /\ files' \in {files, [files EXCEPT ![Of(c)] = @ \/ Renames(Of(c))]}
    /\ Leaves(c)
    /\ UNCHANGED <<projectRow, slug, dir, kept, projectLock, lifecycleVars>>

\* enqueue: the insert fails on the one-active-job index or on a project that is
\* gone, and both are a conflict.
Enqueue(c) ==
    /\ Is(c, "enqueue", "begun") /\ Unlocked(Of(c))
    /\ \/ projectRow[Of(c)] = "live" /\ \E j \in Jobs : Submit(j, Of(c))
       \/ (projectRow[Of(c)] # "live" \/ InFlight(Of(c)) # {}) /\ UNCHANGED lifecycleVars
    /\ Leaves(c)
    /\ UNCHANGED <<projectRow, slug, projectLock, dirVars>>

\* clear_cache holds the lock while a thread empties cache/.
LockForClear(c) ==
    /\ Is(c, "clear", "begun") /\ Unlocked(Of(c))
    /\ IF InFlight(Of(c)) # {} THEN Leaves(c) /\ UNCHANGED projectLock
       ELSE /\ CallGoes(c, "emptying")
            /\ projectLock' = IF projectRow[Of(c)] = "live" THEN [projectLock EXCEPT ![Of(c)] = c] ELSE projectLock
    /\ UNCHANGED <<projectRow, slug, dirVars, lifecycleVars>>

Cleared(c) ==
    /\ Is(c, "clear", "emptying")
    /\ projectLock' = Released(c)
    /\ Leaves(c)
    /\ UNCHANGED <<projectRow, slug, dirVars, lifecycleVars>>

-----------------------------------------------------------------------------
\* The api stops: its transactions are rolled back, its threads cut short.
Crash ==
    /\ \E c \in Callers : caller[c] # NoCall
    /\ projectRow' = [p \in Projects |-> IF projectRow[p] = "pending" THEN "gone" ELSE projectRow[p]]
    /\ kept' = [p \in Projects |-> kept[p] \/ \E c \in Callers : Is(c, "delete", "rmtree") /\ Of(c) = p]
    /\ projectLock' = [p \in Projects |-> NoCaller]
    /\ caller' = [c \in Callers |-> NoCall]
    /\ UNCHANGED <<slug, dir, files, lifecycleVars>>

\* What the runner does with the jobs, as far as the projects can tell.
RunJobs ==
    /\ \E j \in Jobs : Start(j) \/ Withdraw(j) \/ \E s \in TerminalStatuses : Conclude(j, s)
    /\ UNCHANGED <<projectRow, slug, projectLock, caller, dirVars>>

Operations == {"delete", "upload", "enqueue", "clear"}

ProjectsNext ==
    \/ \E c \in Callers, p \in Projects : Create(c, p) \/ \E op \in Operations : BeginCall(c, p, op)
    \/ \E c \in Callers :
        \/ InsertProject(c) \/ Initialise(c) \/ CommitProject(c)
        \/ InitFails(c) \/ SweepFailedInit(c) \/ CreateFails(c)
        \/ LockForDelete(c) \/ CommitDelete(c) \/ RemoveTree(c)
        \/ Stream(c) \/ CommitUpload(c) \/ Enqueue(c) \/ LockForClear(c) \/ Cleared(c)
    \/ Crash
    \/ RunJobs

ProjectsSpec == ProjectsInit /\ [][ProjectsNext]_projectVars

ProjectsTypeOK ==
    /\ LifecycleTypeOK
    /\ projectRow \in [Projects -> {"none", "pending", "live", "gone"}]
    /\ slug \in [Projects -> {"base", "suffixed"}]
    /\ dir \in [Projects -> {"none", "partial", "ready"}]
    /\ files \in [Projects -> BOOLEAN] /\ kept \in [Projects -> BOOLEAN]
    /\ projectLock \in [Projects -> Callers \cup {NoCaller}]
    /\ \A c \in Callers : caller[c].project \in Projects \cup {NoProject}

\* However creations, deletions, uploads, enqueues, cache clearing and a crash
\* interleave: a project that can be seen has its whole workspace; a job in flight
\* has its project, and its cache is not being emptied; and a user's files outlive
\* their project only while the removal is under way or after it failed.
WorkspacesFollowTheRows ==
    /\ \A p \in Projects : projectRow[p] = "live" => dir[p] = "ready"
    /\ \A p \in Projects :
        InFlight(p) # {} =>
            /\ projectRow[p] = "live"
            /\ \A c \in Callers : Of(c) = p => caller[c].ph # "emptying"
    /\ \A p \in Projects :
        files[p] /\ projectRow[p] = "gone" =>
            kept[p] \/ \E c \in Callers : Is(c, "delete", "rmtree") /\ Of(c) = p
=============================================================================
