-------------------------- MODULE WorkspaceConfig --------------------------
(***************************************************************************)
(* settings.yaml and .env of one project (services/settings.py,            *)
(* services/env_file.py, services/project_lock.py), the enqueue that checks*)
(* them (services/jobs.py) and the queries and test runs that load them    *)
(* (adapters/graphrag_search.py, services/test_run_worker.py).             *)
(*                                                                         *)
(* Writers take the project lock, re-check inside it, replace the file and *)
(* commit.  Loads and the checks before the lock read the files without    *)
(* it, one after the other.  A content is known by the keys it references. *)
(*                                                                         *)
(* A file carries the tick in which it was last replaced.  Two versions of *)
(* one tick may have the same (inode, mtime, size); a version is settled   *)
(* once its tick, the racy window, is over.  A missing file has stamp 0.    *)
(***************************************************************************)
EXTENDS Naturals, FiniteSets

CONSTANTS
    Editors,      \* concurrent requests and workers
    NoEditor,
    Contents,     \* contents of settings.yaml
    References,   \* the keys each content references
    FirstContent, \* what graphrag init wrote
    Keys,         \* keys of the .env
    Values,       \* values a key may be given
    Operations,   \* the operations of a run
    MaxTicks,     \* bound: the last racy window
    MaxMishaps    \* bound: commits that fail, and removals by hand

Missing == "missing"  \* no settings.yaml: its hash is MISSING_HASH
Unset   == "unset"    \* no line for the key

ASSUME EditorsAssumption == IsFiniteSet(Editors) /\ NoEditor \notin Editors
ASSUME ContentsAssumption ==
    /\ Missing \notin Contents /\ FirstContent \in Contents
    /\ References \in [Contents -> SUBSET Keys] /\ References[FirstContent] = {}
ASSUME ValuesAssumption == Unset \notin Values
ASSUME ConfigBounds == MaxTicks \in Nat \ {0, 1} /\ MaxMishaps \in Nat

VARIABLES
    settings, \* settings.yaml
    env,      \* .env
    tick,     \* the racy window of now
    locked,   \* who holds the project lock
    indexing, \* an index or update job is active
    listed,   \* the settings_versions row that the history lists first, if it was committed
              \* last as well
    elders,   \* saves under way that began before a save, or before that of `listed`
    edit,     \* the requests and workers
    memo,     \* the memoised config of the workspace
    mishaps   \* failed commits and removals by hand so far

fileVars   == <<settings, env>>
historyVars == <<listed, elders>>
configVars == <<settings, env, tick, locked, indexing, listed, elders, edit, memo, mishaps>>

Lines   == [Keys -> Values \cup {Unset}]
Stamps  == (0..MaxTicks) \X (0..MaxTicks)
NoStamp == <<MaxTicks + 1, MaxTicks + 1>>
Config  == [content : Contents \cup {Missing}, lines : Lines]

\* `base` is what a request set out from (the content its editor shows, what a test
\* run digested), `read` what it has read or is about to write.
Edit == [op : {"none", "save", "set", "delete", "enqueue", "query", "test_run"},
         ph : {"idle", "open", "submitted", "checked", "asking", "written", "checking", "cleared",
               "stat", "missed", "env_read", "read", "loaded"},
         base : Config, read : Config, key : Keys \cup {Unset}, val : Values \cup {Unset},
         stamps : Stamps \cup {NoStamp}]

\* A row is dated by the start of its transaction, so that the history follows the
\* order in which saves began and not that of their commits.
NoVersion == Missing
Elders    == [Editors \cup {NoEditor} -> SUBSET Editors]

ConfigOnDisk == [content |-> settings.content, lines |-> env.lines]

FirstConfig == [content |-> FirstContent, lines |-> [k \in Keys |-> Unset]]
AtRest == [op |-> "none", ph |-> "idle", base |-> FirstConfig, read |-> FirstConfig,
           key |-> Unset, val |-> Unset, stamps |-> NoStamp]

\* The types, and who holds the project lock: a writer until its commit and a
\* test run until its config is loaded, no two of them at once.
ConfigTypeOK ==
    /\ settings \in [content : Contents \cup {Missing}, stamp : 0..MaxTicks]
    /\ env \in [lines : Lines, stamp : 0..MaxTicks]
    /\ tick \in 0..MaxTicks /\ mishaps \in 0..MaxMishaps
    /\ locked \in Editors \cup {NoEditor} /\ indexing \in BOOLEAN
    /\ listed \in Contents \cup {NoVersion} /\ elders \in Elders
    /\ edit \in [Editors -> Edit]
    /\ memo \in [stamps : Stamps \cup {NoStamp}, config : Config]
    /\ \A e \in Editors :
          locked = e <=> edit[e].ph = "written" \/ edit[e].op = "test_run"

ConfigInit ==
    /\ settings = [content |-> FirstContent, stamp |-> 1]
    /\ env = [lines |-> FirstConfig.lines, stamp |-> 1]
    /\ tick = 2 /\ mishaps = 0
    /\ locked = NoEditor /\ indexing = FALSE
    /\ listed = NoVersion /\ elders = [e \in Editors \cup {NoEditor} |-> {}]
    /\ edit = [e \in Editors |-> AtRest]
    /\ memo = [stamps |-> NoStamp, config |-> FirstConfig]

Becomes(e, s) == edit' = [edit EXCEPT ![e] = s]
Leaves(e)     == Becomes(e, AtRest)
Idle(e, op)   == edit[e].ph = "idle" /\ op \in Operations

\* validate_settings_content: the placeholders resolve.  That the document is
\* YAML, confined to the workspace, with its input type unchanged is granted.
Accepts(c) ==
    /\ c.content # Missing
    /\ \A k \in References[c.content] : c.lines[k] # Unset

\* Mutant: writers do not wait for each other.
LockIgnored == TRUE
LockIsFree  == locked = NoEditor

\* Mutant: the freeze is not re-checked inside the lock.
FreezeIgnored == TRUE
\* assert_input_unfrozen.
Unfrozen == ~indexing

-----------------------------------------------------------------------------
(* settings.yaml.                                                          *)

\* The editor loads the file.
OpenEditor(e) ==
    /\ Idle(e, "save")
    /\ Becomes(e, [AtRest EXCEPT !.op = "save", !.ph = "open", !.base.content = settings.content])
    /\ UNCHANGED <<fileVars, tick, locked, indexing, historyVars, memo, mishaps>>

Saving(e) == edit[e].op = "save" /\ edit[e].ph \in {"submitted", "checked", "written"}

\* The transaction of e begins, and ends.
Begins(e) == elders' = [elders EXCEPT ![e] = {d \in Editors : Saving(d)}]
Ceases(e) == elders' = [d \in Editors \cup {NoEditor} |-> IF d = e THEN {} ELSE elders[d] \ {e}]

\* save_project_settings, where the transaction begins, and the early hash check of
\* write_settings ...
SubmitSettings(e, c) ==
    /\ edit[e].op = "save" /\ edit[e].ph = "open"
    /\ \/ /\ settings.content = edit[e].base.content
          /\ Becomes(e, [edit[e] EXCEPT !.ph = "submitted", !.read.content = c])
          /\ Begins(e)
       \/ settings.content # edit[e].base.content /\ Leaves(e) /\ UNCHANGED elders
    /\ UNCHANGED <<fileVars, tick, locked, indexing, listed, memo, mishaps>>

\* ... and its validation, which reads the .env, before the lock.
ValidateSettings(e) ==
    LET new == [edit[e].read EXCEPT !.lines = env.lines] IN
    /\ edit[e].ph = "submitted"
    /\ \/ Accepts(new) /\ Becomes(e, [edit[e] EXCEPT !.ph = "checked"]) /\ UNCHANGED elders
       \/ ~Accepts(new) /\ Leaves(e) /\ Ceases(e)
    /\ UNCHANGED <<fileVars, tick, locked, indexing, listed, memo, mishaps>>

\* Mutant: the hash is compared before the lock only.
HashCheckedEarly(e) == TRUE
\* The hash comparison inside the lock.
HashAsExpected(e) == settings.content = edit[e].base.content

\* _commit_settings up to the replacement of the file.
WriteSettings(e) ==
    /\ edit[e].op = "save" /\ edit[e].ph = "checked" /\ LockIsFree
    /\ \/ /\ Unfrozen /\ HashAsExpected(e)
          /\ settings' = [content |-> edit[e].read.content, stamp |-> tick]
          /\ locked' = e
          /\ Becomes(e, [edit[e] EXCEPT !.ph = "written", !.base = FirstConfig])
          /\ UNCHANGED elders
       \/ /\ ~(Unfrozen /\ HashAsExpected(e))
          /\ Leaves(e) /\ Ceases(e)
          /\ UNCHANGED <<settings, locked>>
    /\ UNCHANGED <<env, tick, indexing, listed, memo, mishaps>>

-----------------------------------------------------------------------------
(* .env.                                                                   *)

\* set_env_key and delete_env_key, waiting for the lock.
AskKey(e, k, v) ==
    LET op == IF v = Unset THEN "delete" ELSE "set" IN
    /\ Idle(e, op)
    /\ Becomes(e, [AtRest EXCEPT !.op = op, !.ph = "asking", !.key = k, !.val = v])
    /\ UNCHANGED <<fileVars, tick, locked, indexing, historyVars, memo, mishaps>>

\* _read_lines, inside the lock.
LinesRead == env.lines

\* _assert_not_referenced and the missing key.
Removable(e) ==
    /\ LinesRead[edit[e].key] # Unset
    /\ settings.content # Missing => edit[e].key \notin References[settings.content]

WriteKey(e) ==
    LET ok == Unfrozen /\ (edit[e].op = "delete" => Removable(e)) IN
    /\ edit[e].ph = "asking" /\ LockIsFree
    /\ \/ /\ ok
          /\ env' = [lines |-> [LinesRead EXCEPT ![edit[e].key] = edit[e].val], stamp |-> tick]
          /\ locked' = e
          /\ Becomes(e, [AtRest EXCEPT !.op = edit[e].op, !.ph = "written"])
       \/ /\ ~ok
          /\ Leaves(e)
          /\ UNCHANGED <<env, locked>>
    /\ UNCHANGED <<settings, tick, indexing, historyVars, memo, mishaps>>

\* list_versions, "newest first": where the row of e comes.
Lists(e) ==
    IF e \in elders[NoEditor]
    THEN listed' = NoVersion /\ Ceases(e)
    ELSE /\ listed' = edit[e].read.content
         /\ elders' = [d \in Editors \cup {NoEditor} |->
                          IF d = e THEN {} ELSE IF d = NoEditor THEN elders[e] ELSE elders[d] \ {e}]

\* input_mutation commits, and the lock is released.
Commit(e) ==
    /\ edit[e].ph = "written"
    /\ IF edit[e].op = "save" THEN Lists(e) ELSE UNCHANGED historyVars
    /\ locked' = NoEditor
    /\ Leaves(e)
    /\ UNCHANGED <<fileVars, tick, indexing, memo, mishaps>>

\* The commit fails or the pod dies: the change stays on disk without its rows.
CommitFails(e) ==
    /\ edit[e].ph = "written"
    /\ mishaps < MaxMishaps /\ mishaps' = mishaps + 1
    /\ locked' = NoEditor
    /\ Leaves(e) /\ Ceases(e)
    /\ UNCHANGED <<fileVars, tick, indexing, listed, memo>>

\* The workspace belongs to its user as well.
RemoveByHand ==
    /\ settings.content # Missing
    /\ mishaps < MaxMishaps /\ mishaps' = mishaps + 1
    /\ settings' = [content |-> Missing, stamp |-> 0]
    /\ UNCHANGED <<env, tick, locked, indexing, historyVars, edit, memo>>

-----------------------------------------------------------------------------
(* enqueue.                                                                *)

\* check_workspace_settings reads one file ...
CheckSettings(e) ==
    /\ Idle(e, "enqueue")
    /\ Becomes(e, [AtRest EXCEPT !.op = "enqueue", !.ph = "checking",
                                 !.read.content = settings.content])
    /\ UNCHANGED <<fileVars, tick, locked, indexing, historyVars, memo, mishaps>>

\* ... and then the other.
CheckEnv(e) ==
    LET c == [edit[e].read EXCEPT !.lines = env.lines] IN
    /\ edit[e].ph = "checking"
    /\ \/ Accepts(c) /\ Becomes(e, [AtRest EXCEPT !.op = "enqueue", !.ph = "cleared"])
       \/ ~Accepts(c) /\ Leaves(e)
    /\ UNCHANGED <<fileVars, tick, locked, indexing, historyVars, memo, mishaps>>

\* lock_project, insert_job and the commit; beside an active job the insert is
\* refused.
InsertJob(e) ==
    /\ edit[e].ph = "cleared" /\ LockIsFree
    /\ indexing' = TRUE
    /\ Leaves(e)
    /\ UNCHANGED <<fileVars, tick, locked, historyVars, memo, mishaps>>

JobEnds ==
    /\ indexing
    /\ indexing' = FALSE
    /\ UNCHANGED <<fileVars, tick, locked, historyVars, edit, memo, mishaps>>

-----------------------------------------------------------------------------
(* Loads.                                                                  *)

BeginQuery(e) ==
    /\ Idle(e, "query")
    /\ Becomes(e, [AtRest EXCEPT !.op = "query", !.ph = "stat"])
    /\ UNCHANGED <<fileVars, tick, locked, indexing, historyVars, memo, mishaps>>

\* execute_test_run holds the lock over the digest and the load.
BeginTestRun(e) ==
    /\ Idle(e, "test_run") /\ LockIsFree
    /\ locked' = e
    /\ Becomes(e, [AtRest EXCEPT !.op = "test_run", !.ph = "stat", !.base = ConfigOnDisk])
    /\ UNCHANGED <<fileVars, tick, indexing, historyVars, memo, mishaps>>

\* Mutant: a version counts however young it is.
StampsAtOnce == <<settings.stamp, env.stamp>>
\* _file_versions.
FileVersions ==
    IF settings.stamp < tick /\ env.stamp < tick THEN <<settings.stamp, env.stamp>> ELSE NoStamp

\* What a request keeps of the config c it has: a query goes on with it, and a test
\* run holds it against what it recorded.
Loaded(e, c) ==
    IF edit[e].op = "test_run" THEN [edit[e] EXCEPT !.ph = "loaded", !.read = c, !.stamps = NoStamp]
    ELSE AtRest

StatFiles(e) ==
    LET v == FileVersions IN
    /\ edit[e].ph = "stat"
    /\ \/ /\ v # NoStamp /\ memo.stamps = v
          /\ Becomes(e, Loaded(e, memo.config))
       \/ /\ ~(v # NoStamp /\ memo.stamps = v)
          /\ Becomes(e, [edit[e] EXCEPT !.ph = "missed", !.stamps = v])
    /\ UNCHANGED <<fileVars, tick, locked, indexing, historyVars, memo, mishaps>>

\* _load_config_uncached.
LoadEnv(e) ==
    /\ edit[e].ph = "missed"
    /\ Becomes(e, [edit[e] EXCEPT !.ph = "env_read", !.read.lines = env.lines])
    /\ UNCHANGED <<fileVars, tick, locked, indexing, historyVars, memo, mishaps>>

Release(e) == locked' = IF locked = e THEN NoEditor ELSE locked

LoadSettings(e) ==
    LET c == [edit[e].read EXCEPT !.content = settings.content] IN
    /\ edit[e].ph = "env_read"
    /\ \/ Accepts(c) /\ Becomes(e, [edit[e] EXCEPT !.ph = "read", !.read = c]) /\ UNCHANGED locked
       \/ ~Accepts(c) /\ Leaves(e) /\ Release(e)
    /\ UNCHANGED <<fileVars, tick, indexing, historyVars, memo, mishaps>>

\* What was read is memoised unless a file has changed since.
Memoise(e) ==
    LET v == edit[e].stamps IN
    /\ edit[e].ph = "read"
    /\ memo' = IF v # NoStamp /\ v = FileVersions THEN [stamps |-> v, config |-> edit[e].read]
               ELSE memo
    /\ Becomes(e, Loaded(e, edit[e].read))
    /\ UNCHANGED <<fileVars, tick, locked, indexing, historyVars, mishaps>>

\* The run has its config and goes on without the lock.
UseConfig(e) ==
    /\ edit[e].ph = "loaded"
    /\ Leaves(e) /\ Release(e)
    /\ UNCHANGED <<fileVars, tick, indexing, historyVars, memo, mishaps>>

Tick ==
    /\ tick < MaxTicks
    /\ tick' = tick + 1
    /\ UNCHANGED <<fileVars, locked, indexing, historyVars, edit, memo, mishaps>>

-----------------------------------------------------------------------------
ConfigStep(e) ==
    \/ OpenEditor(e) \/ (\E c \in Contents : SubmitSettings(e, c)) \/ ValidateSettings(e)
    \/ WriteSettings(e)
    \/ (\E k \in Keys, v \in Values \cup {Unset} : AskKey(e, k, v)) \/ WriteKey(e)
    \/ Commit(e) \/ CommitFails(e)
    \/ CheckSettings(e) \/ CheckEnv(e) \/ InsertJob(e)
    \/ BeginQuery(e) \/ BeginTestRun(e)
    \/ StatFiles(e) \/ LoadEnv(e) \/ LoadSettings(e) \/ Memoise(e) \/ UseConfig(e)

ConfigNext == (\E e \in Editors : ConfigStep(e)) \/ RemoveByHand \/ JobEnds \/ Tick

ConfigSpec == ConfigInit /\ [][ConfigNext]_configVars

-----------------------------------------------------------------------------
\* Of two editors that opened the same settings.yaml one saves and the other is
\* told of the conflict: a save replaces the content its editor was shown.  And of
\* two requests that change different keys of the .env both take effect.
NoEditIsLost ==
    [][ /\ \A e \in Editors :
              edit[e].op = "save" /\ edit[e].ph = "checked" /\ edit'[e].ph = "written"
                  => settings.content = edit[e].base.content
        /\ \A k, l \in Keys :
              env'.lines[k] # env.lines[k] /\ env'.lines[l] # env.lines[l] => k = l ]_configVars

\* From its enqueue to its end an indexing job runs on one configuration:
\* only a removal by hand changes the files under it.
FrozenWhileIndexing ==
    [][ indexing /\ indexing' /\ mishaps' = mishaps => UNCHANGED fileVars ]_configVars

\* The row that the history lists first is the file, unless a commit failed after the
\* file was replaced or the file was removed - or a save that had begun before that of
\* the row was committed after it: "newest first" goes by the start of a transaction.
HistoryEndsWithTheFile ==
    mishaps = 0 /\ listed # NoVersion /\ locked = NoEditor => listed = settings.content

\* The memoised config is the one on disk whenever it would be used: the key that was
\* saved is the key in use.  A settings.yaml that was missing when a load began, came
\* back while it was read and was removed again before it was compared is the one
\* exception: a missing file has no version to tell the two absences apart.
MemoIsCurrent ==
    FileVersions # NoStamp /\ memo.stamps = FileVersions
        => memo.config = ConfigOnDisk \/ (settings.content = Missing /\ mishaps > 1)

\* The revision a test run records describes the configuration it loaded, a
\* removal by hand aside.
RunConfigMatchesRevision ==
    \A e \in Editors :
        edit[e].op = "test_run" /\ edit[e].ph = "loaded" /\ mishaps = 0 => edit[e].read = edit[e].base

\* "removing a key it references would leave the workspace unloadable at the
\* next query - refuse": whatever is saved and deleted, the settings on disk
\* reference keys that are set.
ReferencedKeysAreSet ==
    settings.content # Missing =>
        \A k \in References[settings.content] : env.lines[k] # Unset
=============================================================================
