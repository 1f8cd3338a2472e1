--------------------------- MODULE IndexSnapshots ---------------------------
(***************************************************************************)
(* The evidence the state of a document is computed from: the snapshots of *)
(* services/index_snapshots.py, the rule of domain/files.py and the union  *)
(* listing of services/file_listing.py, against what graphrag ingested.    *)
(*                                                                         *)
(* A file is known by its text, which is its hash as well, and a document  *)
(* of the index by its title and the file and text it was made of.         *)
(* graphrag, which is external, rebuilds the index (`index`) or adds the   *)
(* files whose title it does not know (`update`), and may drop a file in   *)
(* silence.  A title is the file's name, or with `input.title_column` the  *)
(* data of a row, that is, of its text.                                    *)
(*                                                                         *)
(* The job mutex and the input freeze (JobQueue, InputFiles) are taken for *)
(* granted: one run at a time, and nothing moves under it.                 *)
(***************************************************************************)
EXTENDS Documents

CONSTANT MaxRuns  \* bound: index and update runs

ASSUME SnapshotBounds == MaxRuns \in Nat

VARIABLES
    input,       \* the files in input/
    column,      \* settings.yaml sets input.title_column
    docs,        \* the documents of output/documents.parquet
    produced,    \* output/documents.parquet exists
    epoch,       \* projects.artifact_epoch
    baselineRow, \* the snapshot projects.baseline_snapshot_id points at
    attempt,     \* the index or update run, with its start snapshot
    runs,        \* runs so far
    mixed        \* since the last full index, documents came from a run that was
                 \* not promoted, or from the other title rule

snapshotVars == <<input, column, docs, produced, epoch, baselineRow, attempt, runs, mixed>>

Document == [title : Names \cup Texts, name : Names, text : Texts]

NoBaseline == [exists |-> FALSE, entries |-> Nothing, attributable |-> {},
               recovery |-> TRUE, epoch |-> 0]
NoAttempt  == [type |-> "none", ph |-> "idle", entries |-> Nothing, attributable |-> {},
               recovery |-> TRUE]

SnapshotsTypeOK ==
    /\ input \in Entries /\ column \in BOOLEAN /\ mixed \in BOOLEAN
    /\ docs \subseteq Document /\ produced \in BOOLEAN
    /\ epoch \in 0..runs /\ runs \in 0..MaxRuns
    /\ baselineRow \in [exists : BOOLEAN, entries : Entries, attributable : SUBSET Names,
                     recovery : BOOLEAN, epoch : 0..runs]
    /\ attempt \in [type : {"none", "index", "update"},
                    ph : {"idle", "captured", "spawned", "wrote"},
                    entries : Entries, attributable : SUBSET Names, recovery : BOOLEAN]
    /\ baselineRow.attributable \subseteq Named(baselineRow.entries)

SnapshotsInit ==
    /\ input = Nothing /\ column = FALSE /\ mixed = FALSE
    /\ docs = {} /\ produced = FALSE
    /\ epoch = 0 /\ runs = 0
    /\ baselineRow = NoBaseline /\ attempt = NoAttempt

-----------------------------------------------------------------------------
(* Between two runs.                                                       *)

Resting == attempt.ph = "idle"

\* An upload, a deletion, or a file copied or removed by hand.
ChangeInput(n, t) ==
    /\ Resting /\ input[n] # t
    /\ input' = [input EXCEPT ![n] = t]
    /\ UNCHANGED <<column, docs, produced, epoch, baselineRow, attempt, runs, mixed>>

\* A save of settings.yaml that sets or removes input.title_column.
ChangeTitleColumn ==
    /\ Resting
    /\ column' = ~column
    /\ UNCHANGED <<input, docs, produced, epoch, baselineRow, attempt, runs, mixed>>

\* output/ is removed by hand.
RemoveOutput ==
    /\ Resting /\ produced
    /\ produced' = FALSE /\ docs' = {}
    /\ UNCHANGED <<input, column, epoch, baselineRow, attempt, runs, mixed>>

-----------------------------------------------------------------------------
(* A run.                                                                  *)

\* recover_filenames: the candidates some title can be attributed to, none
\* under a title column.
Recovered(ds, candidates) ==
    IF column THEN {} ELSE {n \in candidates : \E d \in ds : d.title = n}

CaptureStart(t) ==
    /\ Resting /\ runs < MaxRuns /\ runs' = runs + 1
    /\ attempt' = [type |-> t, ph |-> "captured", entries |-> input,
                   attributable |-> Recovered(docs, Named(baselineRow.entries) \cup Named(input)),
                   recovery |-> ~column]
    /\ UNCHANGED <<input, column, docs, produced, epoch, baselineRow, mixed>>

BumpEpoch ==
    /\ attempt.ph = "captured"
    /\ epoch' = epoch + 1
    /\ attempt' = [attempt EXCEPT !.ph = "spawned"]
    /\ UNCHANGED <<input, column, docs, produced, baselineRow, runs, mixed>>

Title(n) == IF column THEN input[n] ELSE n

\* graphrag index: a new index of the files it does not drop.
CliIndexes ==
    /\ attempt.ph = "spawned" /\ attempt.type = "index"
    /\ \E ingested \in SUBSET Named(input) :
          docs' = {[title |-> Title(n), name |-> n, text |-> input[n]] : n \in ingested}
    /\ mixed' = FALSE

\* graphrag update: of the files whose title is not in the index those it does
\* not drop; a changed or removed file is left as it was.
CliUpdates ==
    /\ attempt.ph = "spawned" /\ attempt.type = "update" /\ produced
    /\ \E ingested \in SUBSET {n \in Named(input) : \A d \in docs : d.title # Title(n)} :
          docs' = docs \cup {[title |-> Title(n), name |-> n, text |-> input[n]] : n \in ingested}
    /\ mixed' = (mixed \/ ~baselineRow.exists \/ baselineRow.epoch + 1 # epoch
                       \/ column \/ ~baselineRow.recovery)

CliWrites ==
    /\ CliIndexes \/ CliUpdates
    /\ produced' = TRUE
    /\ attempt' = [attempt EXCEPT !.ph = "wrote"]
    /\ UNCHANGED <<input, column, epoch, baselineRow, runs>>

\* Mutant: the start snapshot replaces the entries whatever the index knows.
AdvanceToStart(previous, start, pre) ==
    [n \in Names |-> IF start[n] # Absent THEN start[n] ELSE previous[n]]
\* Names that are not in `start` are kept: they are still in the index.
AdvanceEntries(previous, start, pre) ==
    [n \in Names |-> IF start[n] # Absent /\ (previous[n] = Absent \/ n \notin pre)
                     THEN start[n] ELSE previous[n]]

\* What promote writes; `update` learns nothing without a baseline.
PromotedEntries ==
    IF attempt.type = "index" THEN attempt.entries
    ELSE IF baselineRow.recovery /\ attempt.recovery
         THEN AdvanceEntries(baselineRow.entries, attempt.entries, attempt.attributable)
         ELSE baselineRow.entries

AttributableAtEnd(entries)   == Recovered(docs, Named(entries))

Succeed ==
    /\ attempt.ph = "wrote"
    /\ baselineRow' = IF attempt.type = "update" /\ ~baselineRow.exists THEN baselineRow
                   ELSE [exists |-> TRUE, entries |-> PromotedEntries,
                         attributable |-> AttributableAtEnd(PromotedEntries),
                         recovery |-> ~column, epoch |-> epoch]
    /\ attempt' = NoAttempt
    /\ UNCHANGED <<input, column, docs, produced, epoch, runs, mixed>>

\* The run fails, is cancelled or is lost with its pod: nothing is promoted.
Fail ==
    /\ attempt.ph # "idle"
    /\ attempt' = NoAttempt
    /\ UNCHANGED <<input, column, docs, produced, epoch, baselineRow, runs, mixed>>

-----------------------------------------------------------------------------
SnapshotsNext ==
    \/ \E n \in Names, t \in Texts \cup {Absent} : ChangeInput(n, t)
    \/ ChangeTitleColumn \/ RemoveOutput
    \/ \E t \in {"index", "update"} : CaptureStart(t)
    \/ BumpEpoch \/ CliWrites \/ Succeed \/ Fail

SnapshotsSpec == SnapshotsInit /\ [][SnapshotsNext]_snapshotVars

-----------------------------------------------------------------------------
(* What the Documents page shows.                                          *)

ArtifactsStale == baselineRow.exists /\ baselineRow.epoch # epoch
IngestCheck    == baselineRow.exists /\ baselineRow.recovery /\ produced

\* index_state.
IndexState(n) ==
    IF baselineRow.entries[n] = Absent THEN "new"
    ELSE IF input[n] = Absent THEN "removed"
    ELSE IF input[n] # baselineRow.entries[n] THEN "modified"
    ELSE IF IngestCheck /\ n \notin baselineRow.attributable THEN "skipped"
    ELSE "indexed"

Listed == Named(input) \cup Named(baselineRow.entries)

\* The listing speaks of the index as it is: no run is under way, none was lost
\* since the baseline, and skipped files can be told apart.
Reliable == Resting /\ IngestCheck /\ ~ArtifactsStale

InTheIndex(n, t) == \E d \in docs : d.name = n /\ d.text = t

\* The mirror of index_snapshots.py: over any sequence of edits, runs, drops,
\* failures and changes of title_column, what a document is shown as is what
\* graphrag holds of it, and every document of the index is listed, its file gone
\* or not: what can be cited can be explained.  This holds as long as every
\* document in the index came from a promoted run by the names of the files.
StatesMirrorTheIndex ==
    Reliable /\ ~mixed =>
        /\ \A d \in docs : d.name \in Listed
        /\ \A n \in Listed :
            CASE IndexState(n) = "indexed"  -> InTheIndex(n, input[n])
              [] IndexState(n) = "modified" -> ~InTheIndex(n, input[n])
              [] IndexState(n) = "skipped"  -> \A d \in docs : d.name # n
              [] IndexState(n) = "new"      -> \A d \in docs : d.name # n
              [] IndexState(n) = "removed"  ->
                    n \in baselineRow.attributable => InTheIndex(n, baselineRow.entries[n])

\* A file that is shown as indexed is in the index with the text it has.
IndexedMeansIngested ==
    Reliable => \A n \in Named(input) : IndexState(n) = "indexed" => InTheIndex(n, input[n])
=============================================================================
