------------------------ MODULE WorkspaceConfigProofs ------------------------
(***************************************************************************)
(* Theorems about settings.yaml and .env, for every number of editors,     *)
(* contents, keys, ticks and mishaps.                                      *)
(***************************************************************************)
EXTENDS WorkspaceConfig, TLAPS

-----------------------------------------------------------------------------
(* The inductive invariant.                                                 *)

\* Where a request of each operation can be.
EditorPhases ==
    {<<"none", "idle">>, <<"save", "open">>, <<"save", "submitted">>, <<"save", "checked">>,
     <<"save", "written">>, <<"enqueue", "checking">>, <<"enqueue", "cleared">>, <<"test_run", "loaded">>}
    \cup ({"set", "delete"} \X {"asking", "written"})
    \cup ({"query", "test_run"} \X {"stat", "missed", "env_read", "read"})

\* A save between the replacement of the file and its commit; who holds the lock.
SaveWritten(s) == s.op = "save" /\ s.ph = "written"
Holds(s)       == s.ph = "written" \/ s.op = "test_run"

\* Versions that were settled when they were taken: a file that still carries its
\* version has not been replaced since.
Settled(v) == v # NoStamp => v[1] < tick /\ v[2] < tick /\ (v[1] = 0 => mishaps >= 1)

LinesAgree(v, c) == v # NoStamp /\ v[2] = env.stamp => c.lines = env.lines

\* Content that was read and accepted was there: for a version without a file the file
\* must have come back, and if there is none it has been removed once more.
ContentAgrees(v, c) ==
    v # NoStamp =>
        /\ v[1] = settings.stamp /\ v[1] # 0 => c.content = settings.content
        /\ v[1] = 0 /\ settings.content = Missing => mishaps >= 2

\* What a load has read is of the versions it began with, as far as they still are.
LoadFollows(s) ==
    /\ s.ph \in {"missed", "env_read", "read"} => Settled(s.stamps)
    /\ s.ph \in {"env_read", "read"} => LinesAgree(s.stamps, s.read)
    /\ s.ph = "read" => ContentAgrees(s.stamps, s.read)

\* A test run holds the lock from its digest to the end of its load.
RunFollows(s) ==
    mishaps = 0 /\ s.op = "test_run" =>
        /\ s.base = ConfigOnDisk
        /\ s.ph \in {"env_read", "read", "loaded"} => s.read.lines = env.lines
        /\ s.ph \in {"read", "loaded"} => s.read.content = settings.content

EditorOK(s) ==
    /\ <<s.op, s.ph>> \in EditorPhases
    /\ s.op = "save" /\ s.ph \in {"submitted", "checked", "written"} => s.read.content # Missing
    /\ mishaps = 0 /\ SaveWritten(s) => s.read.content = settings.content
    /\ LoadFollows(s)
    /\ RunFollows(s)

\* Without a mishap the file is what the row listed first says if that was committed
\* last, but for a save that has not committed yet.
HistoryFollows ==
    mishaps = 0 /\ listed # NoVersion /\ (\A e \in Editors : ~SaveWritten(edit[e]))
        => listed = settings.content

\* A stamp is of the past or of now, and only a missing file, which somebody has
\* removed, has none.
StampsOK ==
    /\ tick # 0 /\ settings.stamp <= tick /\ env.stamp <= tick
    /\ settings.stamp = 0 <=> settings.content = Missing
    /\ settings.content = Missing => mishaps >= 1

MemoFollows ==
    /\ Settled(memo.stamps)
    /\ LinesAgree(memo.stamps, memo.config) /\ ContentAgrees(memo.stamps, memo.config)

ConfigInv ==
    /\ ConfigTypeOK /\ (\A e \in Editors : EditorOK(edit[e]))
    /\ HistoryFollows /\ StampsOK /\ MemoFollows

-----------------------------------------------------------------------------
(* Steps that leave the files, the history and the memo alone.              *)

\* A request goes to the state s, and takes, keeps or gives up the lock with it.
Moves(e, s) ==
    /\ Becomes(e, s)
    /\ Holds(s) => locked \in {NoEditor, e}
    /\ locked' = IF Holds(s) THEN e ELSE IF locked = e THEN NoEditor ELSE locked

\* One editor moves.
LEMMA MovesOne ==
    ASSUME ConfigTypeOK, NEW e \in Editors, NEW s \in Edit, Moves(e, s)
    PROVE  /\ edit' \in [Editors -> Edit] /\ edit'[e] = s
           /\ \A d \in Editors : d # e => edit'[d] = edit[d]
           /\ locked' \in Editors \cup {NoEditor}
           /\ \A d \in Editors : locked' = d <=> Holds(edit'[d])
<1>1. /\ edit' \in [Editors -> Edit] /\ edit'[e] = s
      /\ \A d \in Editors : d # e => edit'[d] = edit[d]
  BY DEF ConfigTypeOK, Moves, Becomes
<1>2. \A d \in Editors : locked = d <=> Holds(edit[d])
  BY DEF ConfigTypeOK, Holds
<1>3. \A d \in Editors : locked' = d <=> Holds(edit'[d])
  BY <1>1, <1>2, EditorsAssumption DEF Moves
<1>4. locked' \in Editors \cup {NoEditor}
  BY DEF Moves, ConfigTypeOK
<1> QED BY <1>1, <1>3, <1>4

\* An editor moves that touches nothing.
LEMMA QuietStep ==
    ASSUME ConfigInv, NEW e \in Editors, NEW s \in Edit, Moves(e, s), EditorOK(s),
           UNCHANGED <<fileVars, tick, listed, memo, mishaps>>, elders' \in Elders, indexing' \in BOOLEAN,
           ~SaveWritten(s), ~SaveWritten(edit[e])
    PROVE  ConfigInv'
<1> USE DEF ConfigInv, fileVars
<1>1. /\ edit' \in [Editors -> Edit] /\ edit'[e] = s
      /\ \A d \in Editors : d # e => edit'[d] = edit[d]
      /\ locked' \in Editors \cup {NoEditor}
      /\ \A d \in Editors : locked' = d <=> Holds(edit'[d])
  BY MovesOne
<1>2. ConfigTypeOK'
  BY <1>1 DEF ConfigTypeOK, Holds
<1>3. ASSUME NEW d \in Editors
      PROVE  EditorOK(edit[d])'
  <2>1. EditorOK(edit'[d])
    BY <1>1
  <2> QED BY <2>1 DEF EditorOK, LoadFollows, RunFollows, Settled, LinesAgree, ContentAgrees,
             SaveWritten, ConfigOnDisk
<1>4. HistoryFollows'
  <2>1. \A d \in Editors : SaveWritten(edit[d]) => SaveWritten(edit'[d])
    BY <1>1
  <2> QED BY <2>1 DEF HistoryFollows, SaveWritten
<1>5. StampsOK' /\ MemoFollows'
  BY DEF StampsOK, MemoFollows, Settled, LinesAgree, ContentAgrees
<1> QED BY <1>2, <1>3, <1>4, <1>5

\* An editor at rest promises nothing.
LEMMA AtRestOK == AtRest \in Edit /\ EditorOK(AtRest) /\ ~Holds(AtRest)
<1>1. FirstConfig \in Config
  BY ContentsAssumption DEF FirstConfig, Config, Lines
<1> QED BY <1>1 DEF AtRest, Edit, EditorOK, EditorPhases, SaveWritten, Holds, LoadFollows, RunFollows

\* A step that leaves the lock as it is, of a request that holds it before and after
\* or neither.
LEMMA KeepsLock ==
    ASSUME ConfigTypeOK, NEW e \in Editors, NEW s, Becomes(e, s), UNCHANGED locked,
           Holds(s) <=> Holds(edit[e])
    PROVE  Moves(e, s)
<1>1. locked = e <=> Holds(edit[e])
  BY DEF ConfigTypeOK, Holds
<1> QED BY <1>1 DEF Moves

\* What the invariant says of an editor.
LEMMA EditorFacts ==
    ASSUME ConfigInv, NEW e \in Editors
    PROVE  edit[e] \in Edit /\ EditorOK(edit[e]) /\ <<edit[e].op, edit[e].ph>> \in EditorPhases
BY DEF ConfigInv, ConfigTypeOK, EditorOK

\* The stamps of the files.
LEMMA StampTypes ==
    ASSUME ConfigInv
    PROVE  /\ listed \in Contents \cup {NoVersion} /\ elders \in Elders
           /\ settings.stamp \in 0..MaxTicks /\ env.stamp \in 0..MaxTicks /\ tick \in 0..MaxTicks
           /\ settings.content \in Contents \cup {Missing} /\ env.lines \in Lines
           /\ mishaps \in Nat /\ MaxTicks \in Nat /\ ConfigOnDisk \in Config
           /\ FileVersions \in Stamps \cup {NoStamp} /\ Settled(FileVersions)
           /\ FileVersions # NoStamp => FileVersions = <<settings.stamp, env.stamp>>
<1>1. /\ settings.stamp \in 0..MaxTicks /\ env.stamp \in 0..MaxTicks /\ tick \in 0..MaxTicks
      /\ settings.content \in Contents \cup {Missing} /\ env.lines \in Lines
      /\ mishaps \in Nat /\ MaxTicks \in Nat /\ listed \in Contents \cup {NoVersion} /\ elders \in Elders
  BY ConfigBounds DEF ConfigInv, ConfigTypeOK
<1>2. FileVersions # NoStamp => FileVersions = <<settings.stamp, env.stamp>>
  BY DEF FileVersions
<1>3. FileVersions \in Stamps \cup {NoStamp}
  BY <1>1 DEF FileVersions, Stamps
<1>4. Settled(FileVersions)
  BY <1>1, <1>2 DEF Settled, FileVersions, ConfigInv, StampsOK
<1>5. ConfigOnDisk \in Config
  BY <1>1 DEF ConfigOnDisk, Config
<1> QED BY <1>1, <1>2, <1>3, <1>4, <1>5

\* A request that is dropped.
LEMMA DropKeeps ==
    ASSUME ConfigInv, NEW e \in Editors, Leaves(e), UNCHANGED locked, ~Holds(edit[e]),
           UNCHANGED <<fileVars, tick, listed, memo, mishaps>>, elders' \in Elders, indexing' \in BOOLEAN
    PROVE  ConfigInv'
<1>1. Moves(e, AtRest)
  BY AtRestOK, KeepsLock DEF Leaves, ConfigInv
<1> QED BY <1>1, AtRestOK, QuietStep DEF historyVars, SaveWritten, Holds

\* The saves under way stay in order.
LEMMA SavesInOrder ==
    ASSUME ConfigInv, NEW e \in Editors, Begins(e) \/ Ceases(e) \/ UNCHANGED elders
    PROVE  elders' \in Elders
<1>1. elders \in Elders
  BY DEF ConfigInv, ConfigTypeOK
<1>2. CASE Begins(e)
  BY <1>1, <1>2 DEF Begins, Elders
<1>3. CASE Ceases(e)
  BY <1>1, <1>3 DEF Ceases, Elders
<1> QED BY <1>1, <1>2, <1>3

\* An editor is opened, a save of what it shows submitted, and validated.
LEMMA SaveStepsKeep ==
    ASSUME ConfigInv, NEW e \in Editors,
           OpenEditor(e) \/ (\E c \in Contents : SubmitSettings(e, c)) \/ ValidateSettings(e)
    PROVE  ConfigInv'
<1> USE EditorFacts, StampTypes
<1>1. indexing \in BOOLEAN
  BY DEF ConfigInv, ConfigTypeOK
<1>2. CASE OpenEditor(e)
  <2> DEFINE s == [AtRest EXCEPT !.op = "save", !.ph = "open", !.base.content = settings.content]
  <2>1. s \in Edit
    BY AtRestOK, ContentsAssumption, ZenonT(60) DEF AtRest, Edit, Config, FirstConfig, Lines
  <2>2. s.op = "save" /\ s.ph = "open"
    BY DEF AtRest
  <2>3. edit[e].ph = "idle" /\ ~Holds(edit[e])
    BY <1>2 DEF OpenEditor, Idle, Holds, EditorPhases
  <2> HIDE DEF s
  <2>4. EditorOK(s) /\ ~Holds(s)
    BY <2>2 DEF EditorOK, EditorPhases, SaveWritten, LoadFollows, RunFollows, Holds
  <2>5. Becomes(e, s)
    BY <1>2 DEF OpenEditor, s
  <2>6. Moves(e, s)
    BY <1>2, <2>3, <2>4, <2>5, KeepsLock DEF OpenEditor, ConfigInv
  <2> QED BY <1>1, <1>2, <2>1, <2>3, <2>4, <2>6, QuietStep DEF historyVars, OpenEditor, SaveWritten, Holds
<1>3. ASSUME NEW c \in Contents, SubmitSettings(e, c)
      PROVE  ConfigInv'
  <2> DEFINE s == [edit[e] EXCEPT !.ph = "submitted", !.read.content = c]
  <2>1. /\ edit[e].op = "save" /\ edit[e].ph = "open" /\ ~Holds(edit[e])
        /\ UNCHANGED <<fileVars, tick, locked, indexing, listed, memo, mishaps>>
    BY <1>3 DEF SubmitSettings, Holds
  <2>2. elders' \in Elders
    BY <1>3, SavesInOrder DEF SubmitSettings
  <2>3. CASE Leaves(e)
    BY <1>1, <2>1, <2>2, <2>3, DropKeeps
  <2>4. CASE Becomes(e, s)
    <3>1. s \in Edit
      <4>1. [edit[e].read EXCEPT !.content = c] \in Config
        BY DEF Edit, Config
      <4> QED BY <4>1 DEF Edit
    <3>2. s.op = "save" /\ s.ph = "submitted" /\ s.read.content = c
      BY <2>1 DEF Edit, Config
    <3> HIDE DEF s
    <3>3. EditorOK(s) /\ ~Holds(s)
      BY <3>2, ContentsAssumption
         DEF EditorOK, EditorPhases, SaveWritten, LoadFollows, RunFollows, Holds
    <3>4. Moves(e, s)
      BY <2>1, <2>4, <3>3, KeepsLock DEF ConfigInv
    <3> QED BY <1>1, <2>1, <2>2, <3>1, <3>3, <3>4, QuietStep DEF SaveWritten, Holds
  <2> QED BY <1>3, <2>3, <2>4 DEF SubmitSettings
<1>4. CASE ValidateSettings(e)
  <2> DEFINE s == [edit[e] EXCEPT !.ph = "checked"]
  <2>1. /\ edit[e].op = "save" /\ edit[e].ph = "submitted" /\ ~Holds(edit[e])
        /\ UNCHANGED <<fileVars, tick, locked, indexing, listed, memo, mishaps>>
    BY <1>4 DEF ValidateSettings, Holds, EditorPhases
  <2>2. elders' \in Elders
    BY <1>4, SavesInOrder DEF ValidateSettings
  <2>3. CASE Leaves(e)
    BY <1>1, <2>1, <2>2, <2>3, DropKeeps
  <2>4. CASE Becomes(e, s)
    <3>1. s \in Edit /\ s.op = "save" /\ s.ph = "checked" /\ s.read = edit[e].read
      BY <2>1 DEF Edit
    <3> HIDE DEF s
    <3>2. EditorOK(s) /\ ~Holds(s)
      BY <2>1, <3>1 DEF EditorOK, EditorPhases, SaveWritten, LoadFollows, RunFollows, Holds
    <3>3. Moves(e, s)
      BY <2>1, <2>4, <3>2, KeepsLock DEF ConfigInv
    <3> QED BY <1>1, <2>1, <2>2, <3>1, <3>2, <3>3, QuietStep DEF SaveWritten, Holds
  <2> QED BY <1>4, <2>3, <2>4 DEF ValidateSettings
<1> QED BY <1>2, <1>3, <1>4

\* A change of a key, and an enqueue, before they write.
LEMMA KeyAndEnqueueStepsKeep ==
    ASSUME ConfigInv, NEW e \in Editors,
           \/ \E k \in Keys, v \in Values \cup {Unset} : AskKey(e, k, v)
           \/ CheckSettings(e) \/ CheckEnv(e) \/ InsertJob(e)
    PROVE  ConfigInv'
<1> USE EditorFacts, StampTypes
<1>1. indexing \in BOOLEAN
  BY DEF ConfigInv, ConfigTypeOK
<1>2. ASSUME NEW s \in Edit, Becomes(e, s), UNCHANGED <<locked, indexing>>,
             UNCHANGED <<fileVars, tick, historyVars, memo, mishaps>>,
             <<s.op, s.ph>> \in ({"set", "delete"} \X {"asking"})
                                \cup {<<"enqueue", "checking">>, <<"enqueue", "cleared">>},
             edit[e].ph \in {"idle", "checking"}
      PROVE  ConfigInv'
  <2>1. edit[e].op \in {"none", "enqueue"}
    BY <1>2 DEF EditorPhases
  <2>2. EditorOK(s) /\ ~Holds(s)
    BY <1>2 DEF EditorOK, EditorPhases, SaveWritten, LoadFollows, RunFollows, Holds
  <2>3. ~Holds(edit[e])
    BY <1>2, <2>1 DEF Holds
  <2>4. Moves(e, s)
    BY <1>2, <2>2, <2>3, KeepsLock DEF ConfigInv
  <2> QED BY <1>1, <1>2, <2>2, <2>3, <2>4, QuietStep DEF historyVars, SaveWritten, Holds
<1>3. ASSUME NEW k \in Keys, NEW v \in Values \cup {Unset}, AskKey(e, k, v)
      PROVE  ConfigInv'
  <2> DEFINE op == IF v = Unset THEN "delete" ELSE "set"
             s == [AtRest EXCEPT !.op = op, !.ph = "asking", !.key = k, !.val = v]
  <2>0. op \in {"set", "delete"}
    OBVIOUS
  <2>2. Becomes(e, s) /\ edit[e].ph = "idle"
    BY <1>3 DEF AskKey, Idle
  <2> HIDE DEF op
  <2>1. s \in Edit /\ s.op \in {"set", "delete"} /\ s.ph = "asking"
    BY <2>0, AtRestOK DEF Edit, AtRest
  <2> HIDE DEF s
  <2> QED BY <1>2, <1>3, <2>1, <2>2 DEF AskKey
<1>4. CASE CheckSettings(e)
  <2> DEFINE s == [AtRest EXCEPT !.op = "enqueue", !.ph = "checking",
                                 !.read.content = settings.content]
  <2>1. s \in Edit /\ s.op = "enqueue" /\ s.ph = "checking"
    BY AtRestOK, ContentsAssumption DEF AtRest, Edit, Config, FirstConfig, Lines
  <2>2. Becomes(e, s) /\ edit[e].ph = "idle"
    BY <1>4 DEF CheckSettings, Idle
  <2> HIDE DEF s
  <2> QED BY <1>2, <1>4, <2>1, <2>2 DEF CheckSettings
<1>5. CASE CheckEnv(e)
  <2> DEFINE s == [AtRest EXCEPT !.op = "enqueue", !.ph = "cleared"]
  <2>1. s \in Edit /\ s.op = "enqueue" /\ s.ph = "cleared"
    BY AtRestOK DEF AtRest, Edit
  <2>2. edit[e].ph = "checking" /\ ~Holds(edit[e])
    BY <1>5 DEF CheckEnv, Holds, EditorPhases
  <2>3. CASE Leaves(e)
    BY <1>1, <1>5, <2>2, <2>3, DropKeeps DEF historyVars, CheckEnv
  <2>4. CASE Becomes(e, s)
    BY <1>2, <1>5, <2>1, <2>2, <2>4 DEF CheckEnv
  <2> QED BY <1>5, <2>3, <2>4 DEF CheckEnv
<1>6. CASE InsertJob(e)
  <2>1. ~Holds(edit[e])
    BY <1>6 DEF InsertJob, Holds, EditorPhases
  <2> QED BY <1>6, <2>1, DropKeeps DEF historyVars, InsertJob
<1> QED BY <1>3, <1>4, <1>5, <1>6

-----------------------------------------------------------------------------
(* Loads.                                                                   *)

\* A memo of the versions on disk holds what is on disk.
LEMMA MemoOfTheDisk ==
    ASSUME ConfigInv, FileVersions # NoStamp, memo.stamps = FileVersions
    PROVE  memo.config = ConfigOnDisk \/ (settings.content = Missing /\ mishaps > 1)
<1> USE StampTypes
<1>1. memo.stamps = <<settings.stamp, env.stamp>>
  OBVIOUS
<1>2. memo.config.lines = env.lines
  BY <1>1 DEF ConfigInv, MemoFollows, LinesAgree
<1>3. CASE settings.stamp = 0
  BY <1>1, <1>3 DEF ConfigInv, MemoFollows, ContentAgrees, StampsOK
<1>4. CASE settings.stamp # 0
  <2>1. memo.config.content = settings.content
    BY <1>1, <1>4 DEF ConfigInv, MemoFollows, ContentAgrees
  <2> QED BY <1>2, <2>1 DEF ConfigInv, ConfigTypeOK, Config, ConfigOnDisk
<1> QED BY <1>3, <1>4

\* A query or a test run begins to load.
LEMMA BeginLoadKeeps ==
    ASSUME ConfigInv, NEW e \in Editors, BeginQuery(e) \/ BeginTestRun(e)
    PROVE  ConfigInv'
<1> USE EditorFacts, StampTypes
<1>1. indexing \in BOOLEAN
  BY DEF ConfigInv, ConfigTypeOK
<1>2. edit[e].ph = "idle" /\ ~Holds(edit[e]) /\ ~SaveWritten(edit[e])
  BY DEF BeginQuery, BeginTestRun, Idle, Holds, EditorPhases, SaveWritten
<1>3. CASE BeginQuery(e)
  <2> DEFINE s == [AtRest EXCEPT !.op = "query", !.ph = "stat"]
  <2>1. s \in Edit /\ s.op = "query" /\ s.ph = "stat"
    BY AtRestOK DEF AtRest, Edit
  <2> HIDE DEF s
  <2>2. EditorOK(s) /\ ~Holds(s) /\ ~SaveWritten(s)
    BY <2>1 DEF EditorOK, EditorPhases, SaveWritten, LoadFollows, RunFollows, Holds
  <2>3. Becomes(e, s)
    BY <1>3 DEF BeginQuery, s
  <2>4. Moves(e, s)
    BY <1>2, <1>3, <2>2, <2>3, KeepsLock DEF BeginQuery, ConfigInv
  <2> QED BY <1>1, <1>2, <1>3, <2>1, <2>2, <2>4, QuietStep DEF historyVars, BeginQuery
<1>4. CASE BeginTestRun(e)
  <2> DEFINE s == [AtRest EXCEPT !.op = "test_run", !.ph = "stat", !.base = ConfigOnDisk]
  <2>1. s \in Edit /\ s.op = "test_run" /\ s.ph = "stat" /\ s.base = ConfigOnDisk
    BY AtRestOK DEF AtRest, Edit
  <2> HIDE DEF s
  <2>2. EditorOK(s) /\ Holds(s) /\ ~SaveWritten(s)
    BY <2>1 DEF EditorOK, EditorPhases, SaveWritten, LoadFollows, RunFollows, Holds
  <2>3. Becomes(e, s) /\ locked' = e /\ locked = NoEditor
    BY <1>4 DEF BeginTestRun, LockIsFree, s
  <2>4. Moves(e, s)
    BY <2>2, <2>3 DEF Moves
  <2> QED BY <1>1, <1>2, <1>4, <2>1, <2>2, <2>4, QuietStep DEF historyVars, BeginTestRun
<1> QED BY <1>3, <1>4

\* What a request with a config c goes on as: a query is done, a test run keeps it.
LEMMA LoadedOK ==
    ASSUME ConfigInv, NEW e \in Editors, NEW c \in Config,
           edit[e].ph \in {"stat", "read"}, mishaps = 0 /\ edit[e].op = "test_run" => c = ConfigOnDisk
    PROVE  /\ Loaded(e, c) \in Edit /\ EditorOK(Loaded(e, c)) /\ ~SaveWritten(Loaded(e, c))
           /\ Holds(Loaded(e, c)) <=> Holds(edit[e])
<1> USE EditorFacts
<1>1. edit[e].op \in {"query", "test_run"}
  BY DEF EditorPhases
<1>2. CASE edit[e].op = "query"
  <2>1. Loaded(e, c) = AtRest /\ ~Holds(edit[e])
    BY <1>2 DEF Loaded, Holds
  <2> QED BY <2>1, AtRestOK DEF SaveWritten, Holds
<1>3. CASE edit[e].op = "test_run"
  <2> DEFINE s == [edit[e] EXCEPT !.ph = "loaded", !.read = c, !.stamps = NoStamp]
  <2>1. /\ s \in Edit /\ s.op = "test_run" /\ s.ph = "loaded" /\ s.read = c
        /\ s.base = edit[e].base
    BY <1>3 DEF Edit
  <2>2. Loaded(e, c) = s
    BY <1>3 DEF Loaded
  <2> HIDE DEF s
  <2>3. mishaps = 0 => s.base = ConfigOnDisk
    BY <1>3, <2>1 DEF EditorOK, RunFollows
  <2>4. EditorOK(s) /\ ~SaveWritten(s) /\ Holds(s) /\ Holds(edit[e])
    BY <1>3, <2>1, <2>3 DEF EditorOK, EditorPhases, SaveWritten, LoadFollows, RunFollows, Holds, ConfigOnDisk
  <2> QED BY <2>1, <2>2, <2>4
<1> QED BY <1>1, <1>2, <1>3

\* It stats the two files: the memo answers, or it goes on to read.
LEMMA StatFilesKeeps ==
    ASSUME ConfigInv, NEW e \in Editors, StatFiles(e)
    PROVE  ConfigInv'
<1> USE EditorFacts, StampTypes
<1>1. indexing \in BOOLEAN /\ memo.config \in Config
  BY DEF ConfigInv, ConfigTypeOK
<1>2. edit[e].ph = "stat" /\ ~SaveWritten(edit[e])
  BY DEF StatFiles, SaveWritten
<1>3. CASE FileVersions # NoStamp /\ memo.stamps = FileVersions /\ Becomes(e, Loaded(e, memo.config))
  <2>1. mishaps = 0 => memo.config = ConfigOnDisk
    BY <1>3, MemoOfTheDisk
  <2>2. /\ Loaded(e, memo.config) \in Edit /\ EditorOK(Loaded(e, memo.config))
        /\ ~SaveWritten(Loaded(e, memo.config))
        /\ Holds(Loaded(e, memo.config)) <=> Holds(edit[e])
    BY <1>1, <1>2, <2>1, LoadedOK
  <2>3. Moves(e, Loaded(e, memo.config))
    BY <1>3, <2>2, KeepsLock DEF StatFiles, ConfigInv
  <2> QED BY <1>1, <1>2, <2>2, <2>3, QuietStep DEF historyVars, StatFiles
<1>4. CASE Becomes(e, [edit[e] EXCEPT !.ph = "missed", !.stamps = FileVersions])
  <2> DEFINE s == [edit[e] EXCEPT !.ph = "missed", !.stamps = FileVersions]
  <2>1. /\ s \in Edit /\ s.op = edit[e].op /\ s.ph = "missed" /\ s.stamps = FileVersions
        /\ s.base = edit[e].base
    BY DEF Edit
  <2>2. Becomes(e, s)
    BY <1>4
  <2> HIDE DEF s
  <2>3. EditorOK(s) /\ ~SaveWritten(s) /\ (Holds(s) <=> Holds(edit[e]))
    BY <1>2, <2>1 DEF EditorOK, EditorPhases, SaveWritten, LoadFollows, RunFollows, Holds
  <2>4. Moves(e, s)
    BY <2>2, <2>3, KeepsLock DEF StatFiles, ConfigInv
  <2> QED BY <1>1, <1>2, <2>1, <2>3, <2>4, QuietStep DEF historyVars, StatFiles
<1> QED BY <1>3, <1>4 DEF StatFiles

\* It reads the key.
LEMMA LoadEnvKeeps ==
    ASSUME ConfigInv, NEW e \in Editors, LoadEnv(e)
    PROVE  ConfigInv'
<1> USE EditorFacts, StampTypes
<1> DEFINE s == [edit[e] EXCEPT !.ph = "env_read", !.read.lines = env.lines]
<1>1. indexing \in BOOLEAN
  BY DEF ConfigInv, ConfigTypeOK
<1>2. edit[e].ph = "missed" /\ ~SaveWritten(edit[e]) /\ Becomes(e, s)
  BY DEF LoadEnv, SaveWritten
<1>3. [edit[e].read EXCEPT !.lines = env.lines] \in Config
  BY DEF Edit, Config
<1>4. /\ s \in Edit /\ s.op = edit[e].op /\ s.ph = "env_read" /\ s.stamps = edit[e].stamps
      /\ s.base = edit[e].base /\ s.read.lines = env.lines
  BY <1>3, ZenonT(60) DEF Edit, Config
<1> HIDE DEF s
<1>5. EditorOK(s) /\ ~SaveWritten(s) /\ (Holds(s) <=> Holds(edit[e]))
  BY <1>2, <1>4 DEF EditorOK, EditorPhases, SaveWritten, LoadFollows, RunFollows, LinesAgree, Holds
<1>6. Moves(e, s)
  BY <1>2, <1>5, KeepsLock DEF LoadEnv, ConfigInv
<1> QED BY <1>1, <1>2, <1>4, <1>5, <1>6, QuietStep DEF historyVars, LoadEnv

\* What is read after the stamps were taken agrees with them: a file that has been
\* replaced meanwhile carries another stamp.
LEMMA LoadSettingsKeeps ==
    ASSUME ConfigInv, NEW e \in Editors, LoadSettings(e)
    PROVE  ConfigInv'
<1> USE EditorFacts, StampTypes
<1> DEFINE c == [edit[e].read EXCEPT !.content = settings.content]
           s == [edit[e] EXCEPT !.ph = "read", !.read = c]
<1>1. indexing \in BOOLEAN
  BY DEF ConfigInv, ConfigTypeOK
<1>2. edit[e].ph = "env_read" /\ ~SaveWritten(edit[e])
  BY DEF LoadSettings, SaveWritten
<1>3. CASE Accepts(c) /\ Becomes(e, s) /\ UNCHANGED locked
  <2>1. c \in Config /\ c.content = settings.content /\ c.lines = edit[e].read.lines
    BY DEF Edit, Config
  <2> HIDE DEF c
  <2>2. /\ s \in Edit /\ s.op = edit[e].op /\ s.ph = "read" /\ s.stamps = edit[e].stamps
        /\ s.base = edit[e].base /\ s.read = c
    BY <2>1 DEF Edit
  <2>3. settings.content # Missing
    BY <1>3, <2>1 DEF Accepts
  <2>4. Becomes(e, s)
    BY <1>3
  <2> HIDE DEF s
  <2>5. LoadFollows(s)
    BY <1>2, <2>1, <2>2, <2>3 DEF EditorOK, LoadFollows, LinesAgree, ContentAgrees
  <2>6. RunFollows(s)
    BY <1>2, <2>1, <2>2 DEF EditorOK, RunFollows
  <2>7. EditorOK(s) /\ ~SaveWritten(s) /\ (Holds(s) <=> Holds(edit[e]))
    BY <1>2, <2>2, <2>5, <2>6 DEF EditorOK, EditorPhases, SaveWritten, Holds
  <2>8. Moves(e, s)
    BY <1>3, <2>4, <2>7, KeepsLock DEF ConfigInv
  <2> QED BY <1>1, <1>2, <2>2, <2>7, <2>8, QuietStep DEF historyVars, LoadSettings
<1>4. CASE Leaves(e) /\ Release(e)
  <2>1. Moves(e, AtRest)
    BY <1>4, AtRestOK DEF Moves, Leaves, Release
  <2> QED BY <1>1, <1>2, <2>1, AtRestOK, QuietStep DEF historyVars, LoadSettings, SaveWritten, Holds
<1> QED BY <1>3, <1>4 DEF LoadSettings

\* It has its configuration and goes on without the lock.
LEMMA UseConfigKeeps ==
    ASSUME ConfigInv, NEW e \in Editors, UseConfig(e)
    PROVE  ConfigInv'
<1>1. Moves(e, AtRest)
  BY AtRestOK DEF UseConfig, Moves, Leaves, Release
<1>2. indexing' \in BOOLEAN /\ ~SaveWritten(edit[e])
  BY DEF ConfigInv, ConfigTypeOK, UseConfig, SaveWritten
<1> QED BY <1>1, <1>2, StampTypes, AtRestOK, QuietStep DEF historyVars, UseConfig, SaveWritten, Holds

-----------------------------------------------------------------------------
(* Steps that write the files, the history or the memo.                     *)

\* The memo gets what was read if the versions are still those it was read of.
LEMMA MemoiseKeeps ==
    ASSUME ConfigInv, NEW e \in Editors, Memoise(e)
    PROVE  ConfigInv'
<1> USE EditorFacts, StampTypes
<1> DEFINE v == edit[e].stamps
           c == edit[e].read
           s == Loaded(e, c)
<1>1. indexing \in BOOLEAN /\ c \in Config /\ v \in Stamps \cup {NoStamp}
  BY DEF ConfigInv, ConfigTypeOK, Edit
<1>2. edit[e].ph = "read" /\ ~SaveWritten(edit[e]) /\ Becomes(e, s)
  BY DEF Memoise, SaveWritten
<1>3. mishaps = 0 /\ edit[e].op = "test_run" => c = ConfigOnDisk
  BY <1>1, <1>2 DEF EditorOK, RunFollows, ConfigOnDisk, Config
<1>4. s \in Edit /\ EditorOK(s) /\ ~SaveWritten(s) /\ (Holds(s) <=> Holds(edit[e]))
  BY <1>1, <1>2, <1>3, LoadedOK
<1>5. Settled(v) /\ LinesAgree(v, c) /\ ContentAgrees(v, c)
  BY <1>2 DEF EditorOK, LoadFollows
<1> HIDE DEF s
<1>6. Moves(e, s)
  BY <1>2, <1>4, KeepsLock DEF Memoise, ConfigInv
<1>7. /\ edit' \in [Editors -> Edit] /\ edit'[e] = s
      /\ \A d \in Editors : d # e => edit'[d] = edit[d]
      /\ locked' \in Editors \cup {NoEditor}
      /\ \A d \in Editors : locked' = d <=> Holds(edit'[d])
  BY <1>4, <1>6, MovesOne DEF ConfigInv
<1>8. memo' = memo \/ memo' = [stamps |-> v, config |-> c]
  BY DEF Memoise
<1>9. ConfigTypeOK'
  BY <1>1, <1>7, <1>8 DEF ConfigInv, ConfigTypeOK, Memoise, Holds, fileVars, historyVars
<1>10. ASSUME NEW d \in Editors
       PROVE  EditorOK(edit[d])'
  <2>1. EditorOK(edit'[d])
    BY <1>4, <1>7 DEF ConfigInv
  <2> QED BY <2>1 DEF EditorOK, LoadFollows, RunFollows, Settled, LinesAgree, ContentAgrees,
             SaveWritten, ConfigOnDisk, Memoise, fileVars, historyVars
<1>11. HistoryFollows'
  <2>1. \A d \in Editors : SaveWritten(edit[d]) => SaveWritten(edit'[d])
    BY <1>2, <1>7
  <2> QED BY <2>1 DEF ConfigInv, HistoryFollows, SaveWritten, Memoise, fileVars, historyVars
<1>12. StampsOK'
  BY DEF ConfigInv, StampsOK, Memoise, fileVars, historyVars
<1>13. MemoFollows'
  <2> HIDE DEF v, c
  <2>1. /\ Settled(memo'.stamps) /\ LinesAgree(memo'.stamps, memo'.config)
        /\ ContentAgrees(memo'.stamps, memo'.config)
    BY <1>5, <1>8 DEF ConfigInv, MemoFollows
  <2> QED BY <2>1 DEF MemoFollows, Settled, LinesAgree, ContentAgrees, Memoise, fileVars, historyVars
<1> QED BY <1>9, <1>10, <1>11, <1>12, <1>13 DEF ConfigInv

\* Nobody is between a write and its commit, and no test run is loading, when a
\* request finds the lock free.
LEMMA FreeLock ==
    ASSUME ConfigInv, LockIsFree
    PROVE  \A d \in Editors : ~Holds(edit[d]) /\ ~SaveWritten(edit[d]) /\ edit[d].op # "test_run"
BY EditorsAssumption DEF ConfigInv, ConfigTypeOK, LockIsFree, Holds, SaveWritten

\* A save replaces settings.yaml.
LEMMA WriteSettingsKeeps ==
    ASSUME ConfigInv, NEW e \in Editors, WriteSettings(e)
    PROVE  ConfigInv'
<1> USE EditorFacts, StampTypes
<1>1. /\ indexing \in BOOLEAN /\ LockIsFree /\ edit[e].op = "save" /\ edit[e].ph = "checked"
      /\ UNCHANGED <<env, tick, indexing, listed, memo, mishaps>> /\ elders' \in Elders
  BY SavesInOrder DEF ConfigInv, ConfigTypeOK, WriteSettings
<1>2. \A d \in Editors : ~Holds(edit[d]) /\ ~SaveWritten(edit[d]) /\ edit[d].op # "test_run"
  BY <1>1, FreeLock
<1>3. CASE Leaves(e) /\ UNCHANGED <<settings, locked>>
  BY <1>1, <1>2, <1>3, DropKeeps DEF historyVars, fileVars
<1>4. CASE /\ settings' = [content |-> edit[e].read.content, stamp |-> tick]
           /\ locked' = e
           /\ Becomes(e, [edit[e] EXCEPT !.ph = "written", !.base = FirstConfig])
  <2> DEFINE s == [edit[e] EXCEPT !.ph = "written", !.base = FirstConfig]
  <2>1. /\ s \in Edit /\ s.op = "save" /\ s.ph = "written" /\ s.read = edit[e].read
    BY <1>1, AtRestOK DEF Edit, AtRest
  <2>2. Becomes(e, s)
    BY <1>4
  <2> HIDE DEF s
  <2>3. Moves(e, s)
    BY <1>1, <1>4, <2>1, <2>2 DEF Moves, Holds, LockIsFree
  <2>4. /\ edit' \in [Editors -> Edit] /\ edit'[e] = s
        /\ \A d \in Editors : d # e => edit'[d] = edit[d]
        /\ locked' \in Editors \cup {NoEditor}
        /\ \A d \in Editors : locked' = d <=> Holds(edit'[d])
    BY <2>1, <2>3, MovesOne DEF ConfigInv
  <2>5. /\ edit[e].read.content \in Contents \cup {Missing} /\ edit[e].read.content # Missing
    BY <1>1 DEF Edit, Config, EditorOK
  <2>6. settings'.content = edit[e].read.content /\ settings'.stamp = tick
    BY <1>4
  <2>7. ConfigTypeOK'
    BY <1>1, <1>4, <2>4, <2>5 DEF ConfigInv, ConfigTypeOK, Holds
  <2>8. \A v \in Stamps \cup {NoStamp}, c \in Config :
           /\ Settled(v) => Settled(v)'
           /\ LinesAgree(v, c) => LinesAgree(v, c)'
           /\ Settled(v) => ContentAgrees(v, c)'
    BY <1>1, <2>5, <2>6 DEF Settled, LinesAgree, ContentAgrees
  <2>9. ASSUME NEW d \in Editors
        PROVE  EditorOK(edit[d])'
    <3>1. CASE d = e
      BY <2>1, <2>4, <2>5, <2>6, <3>1
         DEF EditorOK, EditorPhases, SaveWritten, LoadFollows, RunFollows
    <3>2. CASE d # e
      <4>1. edit[d]' = edit[d]
        BY <2>4, <3>2
      <4>2. edit[d].stamps \in Stamps \cup {NoStamp} /\ edit[d].read \in Config
        BY DEF Edit
      <4>3. LoadFollows(edit[d])'
        BY <2>8, <4>1, <4>2 DEF EditorOK, LoadFollows
      <4>4. RunFollows(edit[d])'
        BY <1>2, <4>1 DEF RunFollows
      <4> QED BY <1>2, <4>1, <4>3, <4>4 DEF EditorOK, SaveWritten
    <3> QED BY <3>1, <3>2
  <2>10. HistoryFollows'
    <3>1. SaveWritten(edit'[e])
      BY <2>1, <2>4 DEF SaveWritten
    <3> QED BY <3>1 DEF HistoryFollows, SaveWritten
  <2>11. StampsOK'
    BY <1>1, <2>5, <2>6 DEF ConfigInv, StampsOK
  <2>12. MemoFollows'
    <3>1. memo.stamps \in Stamps \cup {NoStamp} /\ memo.config \in Config /\ memo' = memo
      BY <1>1 DEF ConfigInv, ConfigTypeOK
    <3> QED BY <2>8, <3>1 DEF ConfigInv, MemoFollows
  <2> QED BY <2>7, <2>9, <2>10, <2>11, <2>12 DEF ConfigInv
<1> QED BY <1>3, <1>4 DEF WriteSettings

\* A change of a key replaces .env.
LEMMA WriteKeyKeeps ==
    ASSUME ConfigInv, NEW e \in Editors, WriteKey(e)
    PROVE  ConfigInv'
<1> USE EditorFacts, StampTypes
<1>1. /\ indexing \in BOOLEAN /\ LockIsFree /\ edit[e].op \in {"set", "delete"}
      /\ edit[e].ph = "asking" /\ UNCHANGED <<settings, tick, indexing, listed, elders, memo, mishaps>>
  BY DEF ConfigInv, ConfigTypeOK, WriteKey, EditorPhases, historyVars
<1>2. \A d \in Editors : ~Holds(edit[d]) /\ ~SaveWritten(edit[d]) /\ edit[d].op # "test_run"
  BY <1>1, FreeLock
<1>3. CASE Leaves(e) /\ UNCHANGED <<env, locked>>
  BY <1>1, <1>2, <1>3, DropKeeps DEF historyVars, fileVars
<1>4. CASE /\ env' = [lines |-> [LinesRead EXCEPT ![edit[e].key] = edit[e].val], stamp |-> tick]
           /\ locked' = e
           /\ Becomes(e, [AtRest EXCEPT !.op = edit[e].op, !.ph = "written"])
  <2> DEFINE s == [AtRest EXCEPT !.op = edit[e].op, !.ph = "written"]
  <2>1. /\ s \in Edit /\ s.op \in {"set", "delete"} /\ s.ph = "written"
    BY <1>1, AtRestOK DEF Edit, AtRest
  <2>2. Becomes(e, s)
    BY <1>4
  <2> HIDE DEF s
  <2>3. Moves(e, s)
    BY <1>1, <1>4, <2>1, <2>2 DEF Moves, Holds, LockIsFree
  <2>4. /\ edit' \in [Editors -> Edit] /\ edit'[e] = s
        /\ \A d \in Editors : d # e => edit'[d] = edit[d]
        /\ locked' \in Editors \cup {NoEditor}
        /\ \A d \in Editors : locked' = d <=> Holds(edit'[d])
    BY <2>1, <2>3, MovesOne DEF ConfigInv
  <2>5. [LinesRead EXCEPT ![edit[e].key] = edit[e].val] \in Lines
    <3>1. edit[e].val \in Values \cup {Unset}
      BY DEF Edit
    <3> QED BY <3>1 DEF LinesRead, Lines
  <2>6. env'.stamp = tick /\ env'.lines \in Lines /\ env' \in [lines : Lines, stamp : 0..MaxTicks]
    BY <1>4, <2>5
  <2>7. ConfigTypeOK'
    BY <1>1, <2>4, <2>6 DEF ConfigInv, ConfigTypeOK, Holds
  <2>8. \A v \in Stamps \cup {NoStamp}, c \in Config :
           /\ Settled(v) => Settled(v)' /\ LinesAgree(v, c)'
           /\ ContentAgrees(v, c) => ContentAgrees(v, c)'
    BY <1>1, <2>6 DEF Settled, LinesAgree, ContentAgrees
  <2>9. ASSUME NEW d \in Editors
        PROVE  EditorOK(edit[d])'
    <3>1. CASE d = e
      BY <2>1, <2>4, <3>1 DEF EditorOK, EditorPhases, SaveWritten, LoadFollows, RunFollows
    <3>2. CASE d # e
      <4>1. edit[d]' = edit[d]
        BY <2>4, <3>2
      <4>2. edit[d].stamps \in Stamps \cup {NoStamp} /\ edit[d].read \in Config
        BY DEF Edit
      <4>3. LoadFollows(edit[d])'
        BY <2>8, <4>1, <4>2 DEF EditorOK, LoadFollows
      <4>4. RunFollows(edit[d])'
        BY <1>2, <4>1 DEF RunFollows
      <4> QED BY <1>2, <4>1, <4>3, <4>4 DEF EditorOK, SaveWritten
    <3> QED BY <3>1, <3>2
  <2>10. HistoryFollows'
    BY <1>1, <1>2 DEF ConfigInv, HistoryFollows
  <2>11. StampsOK'
    BY <1>1, <2>6 DEF ConfigInv, StampsOK
  <2>12. MemoFollows'
    <3>1. memo.stamps \in Stamps \cup {NoStamp} /\ memo.config \in Config /\ memo' = memo
      BY <1>1 DEF ConfigInv, ConfigTypeOK
    <3> QED BY <2>8, <3>1 DEF ConfigInv, MemoFollows
  <2> QED BY <2>7, <2>9, <2>10, <2>11, <2>12 DEF ConfigInv
<1> QED BY <1>3, <1>4 DEF WriteKey

\* The history row is committed and the lock given back.
LEMMA CommitEditKeeps ==
    ASSUME ConfigInv, NEW e \in Editors, Commit(e) \/ CommitFails(e)
    PROVE  ConfigInv'
<1> USE EditorFacts, StampTypes
<1>1. /\ indexing \in BOOLEAN /\ edit[e].ph = "written" /\ Becomes(e, AtRest) /\ locked' = NoEditor
      /\ UNCHANGED <<settings, env, tick, indexing, memo>>
  BY DEF ConfigInv, ConfigTypeOK, Commit, CommitFails, Leaves, fileVars
<1>2. /\ \/ /\ mishaps' = mishaps
            /\ \/ edit[e].op # "save" /\ listed' = listed
               \/ edit[e].op = "save" /\ listed' \in {NoVersion, edit[e].read.content}
         \/ mishaps' = mishaps + 1 /\ mishaps' \in 0..MaxMishaps /\ listed' = listed
      /\ listed' \in Contents \cup {NoVersion} /\ elders' \in Elders
  <2>1. CASE Commit(e) /\ edit[e].op # "save"
    BY <2>1 DEF Commit, historyVars
  <2>2. CASE Commit(e) /\ edit[e].op = "save" /\ e \in elders[NoEditor]
    <3>1. listed' = NoVersion /\ Ceases(e) /\ mishaps' = mishaps
      BY <2>2 DEF Commit, Lists
    <3> QED BY <2>2, <3>1, SavesInOrder
  <2>3. CASE Commit(e) /\ edit[e].op = "save" /\ e \notin elders[NoEditor]
    <3>1. /\ listed' = edit[e].read.content /\ mishaps' = mishaps
          /\ elders' = [d \in Editors \cup {NoEditor} |->
                          IF d = e THEN {} ELSE IF d = NoEditor THEN elders[e] ELSE elders[d] \ {e}]
      BY <2>3 DEF Commit, Lists
    <3>2. listed' \in Contents \cup {NoVersion}
      BY <3>1 DEF NoVersion, Edit, Config
    <3>3. elders' \in Elders
      BY <3>1 DEF Elders
    <3> QED BY <2>3, <3>1, <3>2, <3>3
  <2>4. CASE CommitFails(e)
    BY <2>4, ConfigBounds, SavesInOrder DEF CommitFails, ConfigInv, ConfigTypeOK
  <2> QED BY <2>1, <2>2, <2>3, <2>4
<1>3. edit[e].op \in {"save", "set", "delete"} /\ locked = e
  BY <1>1 DEF EditorPhases, ConfigInv, ConfigTypeOK
<1>4. Moves(e, AtRest)
  BY <1>1, <1>3, AtRestOK DEF Moves
<1>5. /\ edit' \in [Editors -> Edit] /\ edit'[e] = AtRest
      /\ \A d \in Editors : d # e => edit'[d] = edit[d]
      /\ \A d \in Editors : locked' = d <=> Holds(edit'[d])
  BY <1>4, AtRestOK, MovesOne DEF ConfigInv
<1>6. \A d \in Editors : ~Holds(edit'[d]) /\ ~SaveWritten(edit'[d]) /\ edit'[d].op # "test_run"
  BY <1>1, <1>5, EditorsAssumption DEF Holds, SaveWritten
<1>7. ConfigTypeOK'
  BY <1>1, <1>2, <1>5 DEF ConfigInv, ConfigTypeOK, Holds, Edit, Config
<1>8. mishaps \in Nat /\ mishaps' \in Nat /\ mishaps' >= mishaps
  BY <1>2
<1>9. ASSUME NEW d \in Editors
      PROVE  EditorOK(edit[d])'
  <2>1. EditorOK(edit'[d])
    BY <1>5, AtRestOK DEF ConfigInv
  <2>2. LoadFollows(edit[d])'
    BY <1>1, <1>8, <2>1 DEF EditorOK, LoadFollows, Settled, LinesAgree, ContentAgrees
  <2>3. RunFollows(edit[d])'
    BY <1>6 DEF RunFollows
  <2> QED BY <1>6, <2>1, <2>2, <2>3 DEF EditorOK, SaveWritten
<1>10. HistoryFollows'
  <2>1. SUFFICES ASSUME mishaps' = 0, listed' # NoVersion
                 PROVE  listed' = settings.content
    BY <1>1 DEF HistoryFollows
  <2>2. mishaps = 0 /\ mishaps' = mishaps
    BY <1>2, <1>8, <2>1
  <2>3. CASE edit[e].op = "save"
    <3>1. listed' = edit[e].read.content
      BY <1>2, <1>8, <2>1, <2>2, <2>3
    <3>2. EditorOK(edit[e]) /\ SaveWritten(edit[e])
      BY <1>1, <2>3 DEF SaveWritten
    <3> QED BY <2>2, <3>1, <3>2 DEF EditorOK
  <2>4. CASE edit[e].op # "save"
    <3>1. \A d \in Editors : ~SaveWritten(edit[d])
      BY <1>5, <1>6, <2>4 DEF SaveWritten
    <3> QED BY <1>2, <2>1, <2>2, <2>4, <3>1 DEF ConfigInv, HistoryFollows
  <2> QED BY <2>3, <2>4
<1>11. StampsOK' /\ MemoFollows'
  BY <1>1, <1>8 DEF ConfigInv, StampsOK, MemoFollows, Settled, LinesAgree, ContentAgrees
<1> QED BY <1>7, <1>9, <1>10, <1>11 DEF ConfigInv

\* Somebody removes a file.
LEMMA RemoveByHandKeeps ==
    ASSUME ConfigInv, RemoveByHand
    PROVE  ConfigInv'
<1> USE EditorFacts, StampTypes
<1>1. /\ settings' = [content |-> Missing, stamp |-> 0] /\ mishaps' = mishaps + 1
      /\ mishaps' \in 0..MaxMishaps /\ mishaps' # 0 /\ UNCHANGED <<env, tick, locked, indexing, listed, elders, edit, memo>>
  BY ConfigBounds DEF ConfigInv, ConfigTypeOK, RemoveByHand, historyVars
<1>2. settings'.content = Missing /\ settings'.stamp = 0
  BY <1>1
<1>3. ConfigTypeOK'
  BY <1>1 DEF ConfigInv, ConfigTypeOK
<1>4. \A v \in Stamps \cup {NoStamp}, c \in Config :
         Settled(v) => Settled(v)' /\ (LinesAgree(v, c) => LinesAgree(v, c)') /\ ContentAgrees(v, c)'
  BY <1>1, <1>2 DEF Settled, LinesAgree, ContentAgrees
<1>5. ASSUME NEW d \in Editors
      PROVE  EditorOK(edit[d])'
  <2>1. edit[d].stamps \in Stamps \cup {NoStamp} /\ edit[d].read \in Config
    BY DEF Edit
  <2>2. LoadFollows(edit[d])'
    BY <1>1, <1>4, <2>1 DEF EditorOK, LoadFollows
  <2> QED BY <1>1, <2>2 DEF EditorOK, RunFollows, SaveWritten
<1>6. HistoryFollows' /\ StampsOK'
  BY <1>1, <1>2 DEF ConfigInv, HistoryFollows, StampsOK
<1>7. MemoFollows'
  <2>1. memo.stamps \in Stamps \cup {NoStamp} /\ memo.config \in Config
    BY DEF ConfigInv, ConfigTypeOK
  <2> QED BY <1>1, <1>4, <2>1 DEF ConfigInv, MemoFollows
<1> QED BY <1>3, <1>5, <1>6, <1>7 DEF ConfigInv

\* The indexing job ends.
LEMMA JobEndsKeeps ==
    ASSUME ConfigInv, JobEnds \/ UNCHANGED configVars
    PROVE  ConfigInv'
<1>1. UNCHANGED <<settings, env, tick, locked, listed, elders, edit, memo, mishaps>> /\ indexing' \in BOOLEAN
  BY DEF JobEnds, configVars, historyVars, fileVars, ConfigInv, ConfigTypeOK
<1>2. ConfigTypeOK'
  BY <1>1 DEF ConfigInv, ConfigTypeOK
<1>3. ASSUME NEW d \in Editors
      PROVE  EditorOK(edit[d])'
  <2>1. EditorOK(edit[d])
    BY DEF ConfigInv
  <2>2. LoadFollows(edit[d])'
    BY <1>1, <2>1 DEF EditorOK, LoadFollows, Settled, LinesAgree, ContentAgrees
  <2>3. RunFollows(edit[d])'
    BY <1>1, <2>1 DEF EditorOK, RunFollows, ConfigOnDisk
  <2> QED BY <1>1, <2>1, <2>2, <2>3 DEF EditorOK, SaveWritten
<1>4. HistoryFollows' /\ StampsOK'
  BY <1>1 DEF ConfigInv, HistoryFollows, StampsOK, SaveWritten
<1>5. MemoFollows'
  BY <1>1 DEF ConfigInv, MemoFollows, Settled, LinesAgree, ContentAgrees
<1> QED BY <1>2, <1>3, <1>4, <1>5 DEF ConfigInv

\* A window that is over settles more versions, and unsettles none.
LEMMA TickKeeps ==
    ASSUME ConfigInv, Tick
    PROVE  ConfigInv'
<1> USE EditorFacts, StampTypes
<1>1. /\ tick' = tick + 1 /\ tick' \in 0..MaxTicks
      /\ UNCHANGED <<settings, env, locked, indexing, listed, elders, edit, memo, mishaps>>
  BY DEF Tick, fileVars, historyVars
<1>2. ConfigTypeOK'
  BY <1>1 DEF ConfigInv, ConfigTypeOK
<1>3. \A v \in Stamps \cup {NoStamp} : Settled(v) => Settled(v)'
  BY <1>1 DEF Settled, Stamps
<1>4. ASSUME NEW d \in Editors
      PROVE  EditorOK(edit[d])'
  <2>1. edit[d].stamps \in Stamps \cup {NoStamp}
    BY DEF Edit
  <2>2. LoadFollows(edit[d])'
    BY <1>1, <1>3, <2>1 DEF EditorOK, LoadFollows, LinesAgree, ContentAgrees
  <2>3. RunFollows(edit[d])'
    BY <1>1 DEF EditorOK, RunFollows, ConfigOnDisk
  <2>4. EditorOK(edit[d])
    BY DEF ConfigInv
  <2> QED BY <1>1, <2>2, <2>3, <2>4 DEF EditorOK, SaveWritten
<1>5. HistoryFollows'
  BY <1>1 DEF ConfigInv, HistoryFollows, SaveWritten
<1>6. StampsOK'
  BY <1>1 DEF ConfigInv, StampsOK
<1>7. MemoFollows'
  <2>1. memo.stamps \in Stamps \cup {NoStamp}
    BY DEF ConfigInv, ConfigTypeOK
  <2> QED BY <1>1, <1>3, <2>1 DEF ConfigInv, MemoFollows, LinesAgree, ContentAgrees
<1> QED BY <1>2, <1>4, <1>5, <1>6, <1>7 DEF ConfigInv

-----------------------------------------------------------------------------
(* The invariant.                                                           *)

\* The invariant holds at the start.
LEMMA ConfigStart == ConfigInit => ConfigInv
<1> SUFFICES ASSUME ConfigInit PROVE ConfigInv
  OBVIOUS
<1>1. FirstConfig \in Config /\ MaxTicks \in Nat /\ 1 \in 0..MaxTicks /\ 2 \in 0..MaxTicks
      /\ 0 \in 0..MaxMishaps
  BY ContentsAssumption, ConfigBounds DEF FirstConfig, Config, Lines
<1>2. \A e \in Editors : edit[e] = AtRest
  BY DEF ConfigInit
<1>3. ConfigTypeOK
  BY <1>1, <1>2, AtRestOK, ContentsAssumption, EditorsAssumption
     DEF ConfigInit, ConfigTypeOK, Config, FirstConfig, Holds, NoVersion, Elders
<1>4. \A e \in Editors : EditorOK(edit[e])
  BY <1>2, AtRestOK
<1>5. HistoryFollows /\ StampsOK /\ MemoFollows
  BY ContentsAssumption DEF ConfigInit, NoVersion, HistoryFollows, StampsOK, MemoFollows, Settled, LinesAgree,
     ContentAgrees
<1> QED BY <1>3, <1>4, <1>5 DEF ConfigInv

\* Every step keeps the invariant.
LEMMA ConfigStepKeeps == ConfigInv /\ [ConfigNext]_configVars => ConfigInv'
<1> SUFFICES ASSUME ConfigInv, [ConfigNext]_configVars PROVE ConfigInv'
  OBVIOUS
<1>1. ASSUME NEW e \in Editors, ConfigStep(e)
      PROVE  ConfigInv'
  BY <1>1, SaveStepsKeep, KeyAndEnqueueStepsKeep, WriteSettingsKeeps, WriteKeyKeeps, CommitEditKeeps,
     BeginLoadKeeps, StatFilesKeeps, LoadEnvKeeps, LoadSettingsKeeps, MemoiseKeeps, UseConfigKeeps
     DEF ConfigStep
<1> QED BY <1>1, RemoveByHandKeeps, JobEndsKeeps, TickKeeps DEF ConfigNext

\* The invariant of WorkspaceConfig.
LEMMA ConfigInvariant == ConfigSpec => []ConfigInv
BY ConfigStart, ConfigStepKeeps, PTL DEF ConfigSpec

-----------------------------------------------------------------------------
(* Theorems.                                                                *)

\* The files, their stamps and the requests are such as they can be, and the project
\* lock is held by the one request that writes or that loads for a test run.
THEOREM ConfigTypes == ConfigSpec => []ConfigTypeOK
<1>1. ConfigInv => ConfigTypeOK
  BY DEF ConfigInv
<1> QED BY <1>1, ConfigInvariant, PTL

\* Without a mishap the row the history lists first is the file, as long as no save that
\* had begun before it was committed after it.
THEOREM HistoryIsTheFile == ConfigSpec => []HistoryEndsWithTheFile
<1>1. ConfigInv => HistoryEndsWithTheFile
  BY FreeLock DEF ConfigInv, HistoryFollows, HistoryEndsWithTheFile, LockIsFree
<1> QED BY <1>1, ConfigInvariant, PTL

\* The memo never answers with a configuration that is not on disk, however loads,
\* saves and the racy window interleave; of two absences of settings.yaml alone it
\* cannot tell one from the other.
THEOREM MemoAnswersForTheDisk == ConfigSpec => []MemoIsCurrent
<1>1. ConfigInv => MemoIsCurrent
  BY MemoOfTheDisk DEF MemoIsCurrent
<1> QED BY <1>1, ConfigInvariant, PTL

\* A test run has loaded what its revision says.
THEOREM RunsLoadTheirRevision == ConfigSpec => []RunConfigMatchesRevision
<1>1. ConfigInv => RunConfigMatchesRevision
  <2> SUFFICES ASSUME ConfigInv, NEW e \in Editors, edit[e].op = "test_run", edit[e].ph = "loaded",
                      mishaps = 0
               PROVE  edit[e].read = edit[e].base
    BY DEF RunConfigMatchesRevision
  <2>1. edit[e] \in Edit /\ RunFollows(edit[e])
    BY EditorFacts DEF EditorOK
  <2> QED BY <2>1 DEF RunFollows, Edit, Config, ConfigOnDisk
<1> QED BY <1>1, ConfigInvariant, PTL

\* A save replaces what its editor was shown, and a change of the .env one key.
THEOREM EditsAreNotLost == ConfigSpec => NoEditIsLost
<1>1. ConfigInv /\ [ConfigNext]_configVars =>
        [/\ \A e \in Editors :
              edit[e].op = "save" /\ edit[e].ph = "checked" /\ edit'[e].ph = "written"
                  => settings.content = edit[e].base.content
         /\ \A k, l \in Keys :
              env'.lines[k] # env.lines[k] /\ env'.lines[l] # env.lines[l] => k = l]_configVars
  <2> SUFFICES ASSUME ConfigInv, ConfigNext
               PROVE  /\ \A e \in Editors :
                            edit[e].op = "save" /\ edit[e].ph = "checked" /\ edit'[e].ph = "written"
                                => settings.content = edit[e].base.content
                      /\ \A k, l \in Keys :
                            env'.lines[k] # env.lines[k] /\ env'.lines[l] # env.lines[l] => k = l
    OBVIOUS
  <2>1. \A d \in Editors : \A s : Becomes(d, s) => \A e \in Editors : edit'[e] = IF e = d THEN s ELSE edit[e]
    BY DEF Becomes, ConfigInv, ConfigTypeOK
  <2>2. ASSUME NEW e \in Editors, edit[e].op = "save", edit[e].ph = "checked", edit'[e].ph = "written"
        PROVE  settings.content = edit[e].base.content
    <3>0. PICK d \in Editors : ConfigStep(d)
      BY <2>2 DEF ConfigNext, RemoveByHand, JobEnds, Tick
    <3>1. d # e \/ WriteSettings(e)
      <4>1. SUFFICES ASSUME d = e PROVE WriteSettings(e)
        OBVIOUS
      <4>2. Becomes(e, AtRest) => edit'[e].ph # "written"
        BY <2>1 DEF AtRest
      <4>3. ~CheckSettings(e) /\ ~CheckEnv(e) /\ ~InsertJob(e) /\ ~Commit(e) /\ ~CommitFails(e)
        BY <2>2 DEF CheckSettings, CheckEnv, InsertJob, Commit, CommitFails, Idle
      <4>4. ~StatFiles(e) /\ ~LoadEnv(e) /\ ~LoadSettings(e) /\ ~Memoise(e) /\ ~UseConfig(e)
        BY <2>2 DEF StatFiles, LoadEnv, LoadSettings, Memoise, UseConfig
      <4>5. ~BeginQuery(e) /\ ~BeginTestRun(e) /\ ~WriteKey(e) /\ ~OpenEditor(e)
        BY <2>2 DEF BeginQuery, BeginTestRun, Idle, WriteKey, OpenEditor
      <4>6. ~ValidateSettings(e) /\ \A c \in Contents : ~SubmitSettings(e, c)
        BY <2>2 DEF SubmitSettings, ValidateSettings
      <4>7. \A k \in Keys, v \in Values \cup {Unset} : ~AskKey(e, k, v)
        BY <2>2 DEF AskKey, Idle
      <4> QED BY <3>0, <4>1, <4>3, <4>4, <4>5, <4>6, <4>7 DEF ConfigStep
    <3>2. ASSUME d # e
          PROVE  edit'[e] = edit[e]
      <4>1. \E s : Becomes(d, s)
        BY <3>0 DEF ConfigStep, OpenEditor, SubmitSettings, ValidateSettings, AskKey, WriteKey, Commit, WriteSettings,
           CommitFails, CheckSettings, CheckEnv, InsertJob, BeginQuery, BeginTestRun, StatFiles,
           LoadEnv, LoadSettings, Memoise, UseConfig, Leaves
      <4> QED BY <2>1, <3>2, <4>1
    <3>3. WriteSettings(e)
      BY <2>2, <3>1, <3>2
    <3>4. Becomes(e, AtRest) => edit'[e].ph # "written"
      BY <2>1 DEF AtRest
    <3> QED BY <2>2, <3>3, <3>4 DEF WriteSettings, HashAsExpected, Leaves
  <2>3. ASSUME NEW k \in Keys, NEW l \in Keys,
               env'.lines[k] # env.lines[k], env'.lines[l] # env.lines[l]
        PROVE  k = l
    <3>1. env' # env
      BY <2>3
    <3>2. PICK d \in Editors : WriteKey(d)
      BY <3>1 DEF ConfigNext, ConfigStep, OpenEditor, SubmitSettings, ValidateSettings, AskKey, WriteSettings, Commit,
         CommitFails, CheckSettings, CheckEnv, InsertJob, BeginQuery, BeginTestRun, StatFiles, LoadEnv,
         LoadSettings, Memoise, UseConfig, RemoveByHand, JobEnds, Tick, fileVars
    <3>3. env'.lines = [env.lines EXCEPT ![edit[d].key] = edit[d].val]
      BY <3>1, <3>2 DEF WriteKey, LinesRead
    <3>4. env.lines \in Lines
      BY StampTypes
    <3> QED BY <2>3, <3>3, <3>4 DEF Lines
  <2> QED BY <2>2, <2>3
<1> QED BY <1>1, ConfigInvariant, PTL DEF ConfigSpec, NoEditIsLost

\* While an indexing job is active no request writes the files.
THEOREM ConfigIsFrozen == ConfigSpec => FrozenWhileIndexing
<1>1. ConfigInv /\ [ConfigNext]_configVars =>
        [indexing /\ indexing' /\ mishaps' = mishaps => UNCHANGED fileVars]_configVars
  <2> SUFFICES ASSUME ConfigInv, ConfigNext, indexing, mishaps' = mishaps
               PROVE  UNCHANGED fileVars
    OBVIOUS
  <2>1. mishaps \in Nat
    BY StampTypes
  <2>2. CASE \E e \in Editors : WriteSettings(e) \/ WriteKey(e)
    BY <2>2 DEF WriteSettings, WriteKey, Unfrozen, fileVars
  <2>3. CASE RemoveByHand
    BY <2>1, <2>3 DEF RemoveByHand
  <2>4. CASE JobEnds \/ Tick
    BY <2>4 DEF JobEnds, Tick
  <2>5. ASSUME NEW e \in Editors, ConfigStep(e), ~WriteSettings(e), ~WriteKey(e)
        PROVE  UNCHANGED fileVars
    BY <2>5 DEF ConfigStep, OpenEditor, SubmitSettings, ValidateSettings, AskKey, Commit, CommitFails, CheckSettings,
       CheckEnv, InsertJob, BeginQuery, BeginTestRun, StatFiles, LoadEnv, LoadSettings, Memoise,
       UseConfig
  <2> QED BY <2>2, <2>3, <2>4, <2>5 DEF ConfigNext
<1> QED BY <1>1, ConfigInvariant, PTL DEF ConfigSpec, FrozenWhileIndexing
-----------------------------------------------------------------------------
(* A save and a removal of the key it refers to.                            *)

\* A save that has been validated still resolves, and a key that is set is given a value.
SavesResolve ==
    \A e \in Editors :
        /\ edit[e].op = "save" /\ edit[e].ph = "checked" =>
              \A k \in References[edit[e].read.content] : env.lines[k] # Unset
        /\ edit[e].op = "set" /\ edit[e].ph = "asking" => edit[e].val # Unset

\* No removal of a key waits for the lock beside a save that has been validated.
NoDeleteBesideASave ==
    \A d, e \in Editors :
        edit[d].op = "delete" /\ edit[d].ph = "asking"
            => ~(edit[e].op = "save" /\ edit[e].ph = "checked")

KeysInv == ReferencedKeysAreSet /\ SavesResolve

\* What a step that leaves the files alone does to a request: it stays, rests, asks for a
\* key, has its save validated, or goes on with one that was.
LEMMA RequestsMoveOn ==
    ASSUME ConfigInv, KeysInv, NEW d \in Editors, ConfigStep(d), ~WriteSettings(d), ~WriteKey(d)
    PROVE  KeysInv'
<1> USE EditorFacts, StampTypes
<1>1. UNCHANGED fileVars
  BY DEF ConfigStep, OpenEditor, SubmitSettings, ValidateSettings, AskKey, Commit, CommitFails, CheckSettings, CheckEnv,
     InsertJob, BeginQuery, BeginTestRun, StatFiles, LoadEnv, LoadSettings, Memoise, UseConfig
<1>2. ReferencedKeysAreSet'
  BY <1>1 DEF KeysInv, ReferencedKeysAreSet, fileVars
<1> DEFINE Fine(s) ==
      /\ s.op = "save" /\ s.ph = "checked" => \A k \in References[s.read.content] : env.lines[k] # Unset
      /\ s.op = "set" /\ s.ph = "asking" => s.val # Unset
<1>3. \A e \in Editors : Fine(edit[e])
  BY DEF KeysInv, SavesResolve
<1>4. Fine(AtRest)
  BY DEF AtRest
<1>5. \E s : Becomes(d, s) /\ Fine(s)
  <2>1. CASE OpenEditor(d) \/ CheckSettings(d) \/ BeginQuery(d) \/ BeginTestRun(d) \/ Commit(d)
             \/ CommitFails(d) \/ InsertJob(d) \/ UseConfig(d)
    <3>1. CASE Leaves(d)
      BY <1>4, <3>1 DEF Leaves
    <3>2. CASE OpenEditor(d)
      <4> DEFINE s == [AtRest EXCEPT !.op = "save", !.ph = "open", !.base.content = settings.content]
      <4>1. Becomes(d, s) /\ s.op = "save" /\ s.ph = "open"
        BY <3>2 DEF OpenEditor, AtRest
      <4> HIDE DEF s
      <4> QED BY <4>1
    <3>3. CASE CheckSettings(d)
      <4> DEFINE s == [AtRest EXCEPT !.op = "enqueue", !.ph = "checking",
                                     !.read.content = settings.content]
      <4>1. Becomes(d, s) /\ s.op = "enqueue"
        BY <3>3 DEF CheckSettings, AtRest
      <4> HIDE DEF s
      <4> QED BY <4>1
    <3>4. CASE BeginQuery(d)
      <4> DEFINE s == [AtRest EXCEPT !.op = "query", !.ph = "stat"]
      <4>1. Becomes(d, s) /\ s.op = "query"
        BY <3>4 DEF BeginQuery, AtRest
      <4> HIDE DEF s
      <4> QED BY <4>1
    <3>5. CASE BeginTestRun(d)
      <4> DEFINE s == [AtRest EXCEPT !.op = "test_run", !.ph = "stat", !.base = ConfigOnDisk]
      <4>1. Becomes(d, s) /\ s.op = "test_run"
        BY <3>5 DEF BeginTestRun, AtRest
      <4> HIDE DEF s
      <4> QED BY <4>1
    <3> QED BY <2>1, <3>1, <3>2, <3>3, <3>4, <3>5 DEF Commit, CommitFails, InsertJob, UseConfig
  <2>2. ASSUME NEW c \in Contents, SubmitSettings(d, c)
        PROVE  \E s : Becomes(d, s) /\ Fine(s)
    <3>1. CASE Leaves(d)
      BY <1>4, <3>1 DEF Leaves
    <3>2. CASE Becomes(d, [edit[d] EXCEPT !.ph = "submitted", !.read.content = c])
      <4> DEFINE s == [edit[d] EXCEPT !.ph = "submitted", !.read.content = c]
      <4>1. s.ph = "submitted" /\ Becomes(d, s)
        BY <3>2 DEF Edit
      <4> HIDE DEF s
      <4> QED BY <4>1
    <3> QED BY <2>2, <3>1, <3>2 DEF SubmitSettings
  <2>6. CASE ValidateSettings(d)
    <3>1. CASE Leaves(d)
      BY <1>4, <3>1 DEF Leaves
    <3>2. CASE Accepts([edit[d].read EXCEPT !.lines = env.lines])
               /\ Becomes(d, [edit[d] EXCEPT !.ph = "checked"])
      <4> DEFINE s == [edit[d] EXCEPT !.ph = "checked"]
      <4>1. s.op = "save" /\ s.read = edit[d].read
        BY <2>6 DEF ValidateSettings, EditorPhases, Edit
      <4>2. \A k \in References[edit[d].read.content] : env.lines[k] # Unset
        BY <3>2 DEF Accepts, Edit, Config
      <4>3. Becomes(d, s)
        BY <3>2
      <4> HIDE DEF s
      <4> QED BY <4>1, <4>2, <4>3
    <3> QED BY <2>6, <3>1, <3>2 DEF ValidateSettings
  <2>3. ASSUME NEW k \in Keys, NEW v \in Values \cup {Unset}, AskKey(d, k, v)
        PROVE  \E s : Becomes(d, s) /\ Fine(s)
    <3> DEFINE op == IF v = Unset THEN "delete" ELSE "set"
               s == [AtRest EXCEPT !.op = op, !.ph = "asking", !.key = k, !.val = v]
    <3>1. Becomes(d, s)
      BY <2>3 DEF AskKey
    <3>2. s.op = op /\ s.val = v
      BY DEF AtRest
    <3> HIDE DEF s
    <3> QED BY <3>1, <3>2
  <2>4. CASE CheckEnv(d)
    <3> DEFINE s == [AtRest EXCEPT !.op = "enqueue", !.ph = "cleared"]
    <3>1. s.op = "enqueue"
      BY DEF AtRest
    <3>2. Becomes(d, s) \/ Becomes(d, AtRest)
      BY <2>4 DEF CheckEnv, Leaves
    <3> HIDE DEF s
    <3> QED BY <1>4, <3>1, <3>2
  <2>5. CASE StatFiles(d) \/ LoadEnv(d) \/ LoadSettings(d) \/ Memoise(d)
    <3>1. edit[d].op \in {"query", "test_run"}
      BY <2>5 DEF StatFiles, LoadEnv, LoadSettings, Memoise, EditorPhases
    <3>2. \A c : Fine(Loaded(d, c))
      <4>1. \A c : Loaded(d, c) = AtRest \/ Loaded(d, c).op = edit[d].op
        BY DEF Loaded, Edit
      <4> QED BY <1>4, <3>1, <4>1
    <3>3. CASE StatFiles(d)
      <4> DEFINE s == [edit[d] EXCEPT !.ph = "missed", !.stamps = FileVersions]
      <4>1. s.op = edit[d].op
        BY DEF Edit
      <4>2. Becomes(d, s) \/ Becomes(d, Loaded(d, memo.config))
        BY <3>3 DEF StatFiles
      <4> HIDE DEF s
      <4> QED BY <3>1, <3>2, <4>1, <4>2
    <3>4. CASE LoadEnv(d)
      <4> DEFINE s == [edit[d] EXCEPT !.ph = "env_read", !.read.lines = env.lines]
      <4>1. s.op = edit[d].op /\ Becomes(d, s)
        BY <3>4 DEF LoadEnv, Edit
      <4> HIDE DEF s
      <4> QED BY <3>1, <4>1
    <3>5. CASE LoadSettings(d)
      <4> DEFINE c == [edit[d].read EXCEPT !.content = settings.content]
                 s == [edit[d] EXCEPT !.ph = "read", !.read = c]
      <4>1. s.op = edit[d].op
        BY DEF Edit
      <4>2. Becomes(d, s) \/ Becomes(d, AtRest)
        BY <3>5 DEF LoadSettings, Leaves
      <4> HIDE DEF s
      <4> QED BY <1>4, <3>1, <4>1, <4>2
    <3>6. CASE Memoise(d)
      BY <3>2, <3>6 DEF Memoise
    <3> QED BY <2>5, <3>3, <3>4, <3>5, <3>6
  <2> QED BY <2>1, <2>2, <2>3, <2>4, <2>5, <2>6 DEF ConfigStep
<1>6. PICK s : Becomes(d, s) /\ Fine(s)
  BY <1>5
<1>7. \A e \in Editors : Fine(edit'[e])
  <2>1. \A e \in Editors : edit'[e] = IF e = d THEN s ELSE edit[e]
    BY <1>6 DEF Becomes, ConfigInv, ConfigTypeOK
  <2> HIDE DEF Fine
  <2> QED BY <1>3, <1>6, <2>1
<1>8. SavesResolve'
  BY <1>1, <1>7 DEF SavesResolve, fileVars
<1> QED BY <1>2, <1>8 DEF KeysInv

\* A save replaces the settings by what was validated.
LEMMA SavesKeepKeys ==
    ASSUME ConfigInv, KeysInv, NEW d \in Editors, WriteSettings(d)
    PROVE  KeysInv'
<1> USE EditorFacts, StampTypes
<1>1. env' = env /\ edit[d].op = "save" /\ edit[d].ph = "checked"
  BY DEF WriteSettings
<1>2. ReferencedKeysAreSet'
  <2>1. CASE settings' = settings
    BY <1>1, <2>1 DEF KeysInv, ReferencedKeysAreSet
  <2>2. CASE settings'.content = edit[d].read.content
    BY <1>1, <2>2 DEF KeysInv, SavesResolve, ReferencedKeysAreSet
  <2> QED BY <2>1, <2>2 DEF WriteSettings
<1>3. \E s : Becomes(d, s) /\ s.op \in {"none", "save"} /\ s.ph # "checked"
  <2> DEFINE w == [edit[d] EXCEPT !.ph = "written", !.base = FirstConfig]
  <2>1. w.op = "save" /\ w.ph = "written" /\ AtRest.op = "none" /\ AtRest.ph = "idle"
    BY <1>1 DEF AtRest, Edit
  <2>2. Becomes(d, w) \/ Becomes(d, AtRest)
    BY DEF WriteSettings, Leaves
  <2> HIDE DEF w
  <2> QED BY <2>1, <2>2
<1>4. PICK s : Becomes(d, s) /\ s.op \in {"none", "save"} /\ s.ph # "checked"
  BY <1>3
<1>5. \A e \in Editors : edit'[e] = IF e = d THEN s ELSE edit[e]
  BY <1>4 DEF Becomes, ConfigInv, ConfigTypeOK
<1>6. SavesResolve'
  BY <1>1, <1>4, <1>5 DEF KeysInv, SavesResolve
<1> QED BY <1>2, <1>6 DEF KeysInv

\* A key that is set is missing nowhere, and one that is removed is referenced neither by
\* the file nor by a save, of which there is none.
LEMMA KeysKeepKeys ==
    ASSUME ConfigInv, KeysInv, NoDeleteBesideASave, NEW d \in Editors, WriteKey(d)
    PROVE  KeysInv'
<1> USE EditorFacts, StampTypes
<1>1. settings' = settings /\ edit[d].op \in {"set", "delete"} /\ edit[d].ph = "asking"
  BY DEF WriteKey, EditorPhases
<1>2. \E s : Becomes(d, s) /\ s.op \in {"none", edit[d].op} /\ s.ph # "asking"
  <2> DEFINE w == [AtRest EXCEPT !.op = edit[d].op, !.ph = "written"]
  <2>1. w.op = edit[d].op /\ w.ph = "written" /\ AtRest.op = "none" /\ AtRest.ph = "idle"
    BY DEF AtRest
  <2>2. Becomes(d, w) \/ Becomes(d, AtRest)
    BY DEF WriteKey, Leaves
  <2> HIDE DEF w
  <2> QED BY <2>1, <2>2
<1>3. PICK s : Becomes(d, s) /\ s.op \in {"none", edit[d].op} /\ s.ph # "asking"
  BY <1>2
<1>4. \A e \in Editors : edit'[e] = IF e = d THEN s ELSE edit[e]
  BY <1>3 DEF Becomes, ConfigInv, ConfigTypeOK
<1> DEFINE Needed(k) ==
      \/ settings.content # Missing /\ k \in References[settings.content]
      \/ \E e \in Editors \ {d} : /\ edit[e].op = "save" /\ edit[e].ph = "checked"
                                  /\ k \in References[edit[e].read.content]
<1>5. ASSUME NEW k \in Keys, Needed(k) PROVE env'.lines[k] # Unset
  <2>1. env.lines[k] # Unset
    BY <1>5 DEF KeysInv, SavesResolve, ReferencedKeysAreSet
  <2>2. CASE env' = env
    BY <2>1, <2>2
  <2>3. CASE /\ edit[d].op = "delete" => Removable(d)
             /\ env'.lines = [env.lines EXCEPT ![edit[d].key] = edit[d].val]
    <3>1. env'.lines[k] = IF k = edit[d].key THEN edit[d].val ELSE env.lines[k]
      BY <2>3 DEF Lines
    <3>2. CASE edit[d].op = "set"
      BY <1>1, <2>1, <3>1, <3>2 DEF KeysInv, SavesResolve
    <3>3. CASE edit[d].op = "delete"
      <4>1. settings.content # Missing /\ k \in References[settings.content]
        BY <1>1, <1>5, <3>3 DEF NoDeleteBesideASave
      <4>2. k # edit[d].key
        BY <2>3, <3>3, <4>1 DEF Removable
      <4> QED BY <2>1, <3>1, <4>2
    <3> QED BY <1>1, <3>2, <3>3
  <2> QED BY <2>2, <2>3 DEF WriteKey, LinesRead
<1>6. \A c \in Contents : References[c] \subseteq Keys
  BY ContentsAssumption
<1>7. ReferencedKeysAreSet'
  BY <1>1, <1>5, <1>6 DEF ReferencedKeysAreSet
<1>8. ASSUME NEW e \in Editors, edit'[e].op = "save", edit'[e].ph = "checked",
             NEW k \in References[edit'[e].read.content]
      PROVE  env'.lines[k] # Unset
  <2>1. e # d /\ edit'[e] = edit[e]
    BY <1>1, <1>3, <1>4, <1>8
  <2>2. edit[e].read.content \in Contents
    BY <1>8, <2>1 DEF EditorOK, Edit, Config
  <2> QED BY <1>5, <1>6, <1>8, <2>1, <2>2
<1>9. SavesResolve'
  BY <1>1, <1>3, <1>4, <1>8 DEF KeysInv, SavesResolve
<1> QED BY <1>7, <1>9 DEF KeysInv

\* "removing a key it references would leave the workspace unloadable at the next query -
\* refuse": true of any number of editors, failed commits and removals by hand as long as
\* no removal of a key waits for the lock beside a save that was validated without it.
\* The race of the two (`config_loadable`) is all that is left.
THEOREM ReferencedKeysStaySet ==
    ConfigSpec /\ []NoDeleteBesideASave => []ReferencedKeysAreSet
<1>1. ConfigInit => KeysInv
  <2> SUFFICES ASSUME ConfigInit PROVE KeysInv
    OBVIOUS
  <2>1. ReferencedKeysAreSet
    BY ContentsAssumption DEF ConfigInit, ReferencedKeysAreSet
  <2>2. SavesResolve
    BY DEF ConfigInit, SavesResolve, AtRest
  <2> QED BY <2>1, <2>2 DEF KeysInv
<1>2. ConfigInv /\ KeysInv /\ NoDeleteBesideASave /\ [ConfigNext]_configVars => KeysInv'
  <2> SUFFICES ASSUME ConfigInv, KeysInv, NoDeleteBesideASave, [ConfigNext]_configVars PROVE KeysInv'
    OBVIOUS
  <2>1. ASSUME NEW d \in Editors, ConfigStep(d) PROVE KeysInv'
    BY <2>1, RequestsMoveOn, SavesKeepKeys, KeysKeepKeys
  <2>2. CASE RemoveByHand
    BY <2>2 DEF RemoveByHand, KeysInv, ReferencedKeysAreSet, SavesResolve
  <2>3. CASE JobEnds \/ Tick \/ UNCHANGED configVars
    BY <2>3 DEF JobEnds, Tick, configVars, fileVars, KeysInv, ReferencedKeysAreSet, SavesResolve
  <2> QED BY <2>1, <2>2, <2>3 DEF ConfigNext
<1>3. KeysInv => ReferencedKeysAreSet
  BY DEF KeysInv
<1> QED BY <1>1, <1>2, <1>3, ConfigInvariant, PTL DEF ConfigSpec
=============================================================================
