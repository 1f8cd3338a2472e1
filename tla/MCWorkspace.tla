---------------------------- MODULE MCWorkspace ----------------------------
(***************************************************************************)
(* The parts of a project's workspace and of its jobs that share no        *)
(* variable, checked side by side: a behaviour is one of input/, of the    *)
(* snapshots, of the configuration or of the retention sweep, and the      *)
(* others stay as they began.  The reachable states of the parts add up    *)
(* and do not multiply.                                                    *)
(***************************************************************************)
EXTENDS InputFiles, IndexSnapshots, WorkspaceConfig, Retention, TLC

CONSTANTS plain, keyed, a, b

VARIABLE part  \* the part that moves

KeyedReferences == [c \in Contents |-> IF c = keyed THEN Keys ELSE {}]
PlaceOfNames == [n \in Names |-> IF n = a THEN 1 ELSE 2]
Symmetry == Permutations(Clients \cup Editors) \cup Permutations(Keys) \cup Permutations(Texts)

sweepVars == <<retentionVars, lifecycleVars>>

WorkspaceInit ==
    /\ part \in {"files", "snapshots", "config", "retention"}
    /\ FilesInit /\ SnapshotsInit /\ ConfigInit /\ RetentionInit
    /\ part # "files" => OnDisk = {} /\ \A q \in Quotas : quota <= q

FilesStep == FilesNext /\ UNCHANGED <<snapshotVars, configVars, sweepVars>>
SnapshotsStep == SnapshotsNext /\ UNCHANGED <<filesVars, configVars, sweepVars>>

\* Loads meet writers and each other, but one query at a time and none beside an
\* indexing job, under which the files are frozen.
LoadsApart ==
    /\ \A d, e \in Editors : edit[d].op = "query" /\ edit[e].op = "query" => d = e
    /\ indexing => \A e \in Editors : edit[e].op \notin {"query", "test_run"}

SettingsStep == ConfigNext /\ LoadsApart' /\ UNCHANGED <<filesVars, snapshotVars, sweepVars>>
RetentionStep == RetentionNext /\ UNCHANGED <<filesVars, snapshotVars, configVars>>

WorkspaceNext ==
    /\ UNCHANGED part
    /\ \/ part = "files" /\ FilesStep
       \/ part = "snapshots" /\ SnapshotsStep
       \/ part = "config" /\ SettingsStep
       \/ part = "retention" /\ RetentionStep

WorkspaceSpec ==
    WorkspaceInit /\ [][WorkspaceNext]_<<part, filesVars, snapshotVars, configVars, sweepVars>>

\* The rows, files, stamps and requests of every part are such as the tables,
\* the file system and the processes can hold, and a lock has one holder.
WorkspaceTypeOK ==
    CASE part = "files"     -> FilesTypeOK
      [] part = "snapshots" -> SnapshotsTypeOK
      [] part = "config"    -> ConfigTypeOK
      [] part = "retention" -> RetentionTypeOK
=============================================================================
