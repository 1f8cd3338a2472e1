------------------------------ MODULE LogTail ------------------------------
(***************************************************************************)
(* The live log of one job: graphrag writes the file, the api tails it     *)
(* until the row is terminal and the file is drained (adapters/job_logs.py,*)
(* services/jobs.py log_events), and the viewer of the browser appends what*)
(* arrives (frontend JobLogViewer.tsx).                                    *)
(*                                                                         *)
(* A byte is the number of bytes of the character it begins, or 0 when it  *)
(* continues one.                                                          *)
(***************************************************************************)
EXTENDS Naturals, SequencesExt

CONSTANTS
    Widths,      \* widths of the characters graphrag prints, in bytes
    MaxLog,      \* bytes a behaviour may write
    ChunkBytes   \* bytes of one read

ASSUME ChunkAssumption == ChunkBytes \in Nat /\ ChunkBytes >= 4 /\ MaxLog \in Nat /\ Widths \subseteq 1..4

VARIABLES
    log,         \* the bytes of the file; the runner opened it before the spawn
    logKept,     \* the file has not been unlinked
    writing,     \* the child writes
    jobRow,      \* "running", "terminal" or "gone"
    due,         \* history: bytes in the file when the row ended
    stream,      \* the EventSource: "open", "retrying", "lost", "done"
    url,         \* the offset in its URL; NoOffset when it has none
    tail,        \* tail_log of the open stream: [pos, draining, empty]
    last,        \* lastIdRef, the offset of the last chunk received
    shown,       \* how much of the log the pane shows without a gap
    again,       \* history: the pane shows some bytes twice
    resumed      \* history: a native retry was made of a resumed stream

tailVars == <<log, logKept, writing, jobRow, due, stream, url, tail, last, shown, again, resumed>>
jobVars == <<log, logKept, writing, jobRow, due>>
viewVars == <<stream, url, last, shown, again, resumed>>

NoOffset == MaxLog + 1
Bytes == Widths \cup {0}

-----------------------------------------------------------------------------
\* _read: a file that is gone reads as nothing.
ReadAt(pos) ==
    IF logKept THEN SubSeq(log, pos + 1, IF pos + ChunkBytes < Len(log) THEN pos + ChunkBytes ELSE Len(log))
    ELSE <<>>

\* _complete_utf8: a character whose tail is not all here is held back; three
\* bytes at most, and bytes that continue nothing pass through.
CompleteUtf8(chunk) ==
    LET leads == {back \in 1..4 : back <= Len(chunk) /\ chunk[Len(chunk) - back + 1] # 0}
        back == CHOOSE b \in leads : \A c \in leads : b <= c
    IN  IF leads = {} \/ back >= chunk[Len(chunk) - back + 1] THEN Len(chunk) ELSE Len(chunk) - back

\* What tail_log passes on: a job that died inside a character still drains.
Cut(chunk, draining) ==
    LET cut == CompleteUtf8(chunk)
    IN  IF cut = 0 /\ chunk # <<>> /\ (draining \/ Len(chunk) >= 4) THEN Len(chunk) ELSE cut

Due(bytes) == {k \in DOMAIN bytes : bytes[k] # 0 /\ k + bytes[k] - 1 > Len(bytes)}
Boundary(pos) == IF pos = Len(log) THEN Due(log) = {} ELSE log[pos + 1] # 0

Fresh(pos) == [pos |-> pos, draining |-> FALSE, empty |-> FALSE]

TailInit ==
    /\ log = <<>> /\ logKept = TRUE /\ writing = TRUE /\ jobRow = "running" /\ due = 0
    /\ stream = "open" /\ url = NoOffset /\ tail = Fresh(0)
    /\ last = 0 /\ shown = 0 /\ again = FALSE /\ resumed = FALSE

-----------------------------------------------------------------------------
(* The job *)

\* The child writes the log itself, byte after byte as far as a reader can tell.
Write ==
    /\ writing /\ Len(log) < MaxLog
    /\ IF Due(log) # {} THEN log' = Append(log, 0)
       ELSE \E w \in Widths : log' = Append(log, w)
    /\ UNCHANGED <<logKept, writing, jobRow, due, tail, viewVars>>

\* The child ends, or is killed inside a character.
StopWriting ==
    /\ writing /\ writing' = FALSE
    /\ UNCHANGED <<log, logKept, jobRow, due, tail, viewVars>>

\* The runner writes the conclusion after proc.wait(); a reconciliation gives the
\* row up while the child of a dead or silent runner may still write.
End ==
    /\ jobRow = "running"
    /\ jobRow' = "terminal"
    /\ due' = Len(log)
    /\ UNCHANGED <<log, logKept, writing, tail, viewVars>>

\* Retention unlinks an expired log, a deletion of the project takes the row too.
Unlink ==
    /\ jobRow = "terminal" /\ ~writing /\ logKept
    /\ logKept' = FALSE
    /\ jobRow' \in {"terminal", "gone"}
    /\ UNCHANGED <<log, writing, due, tail, viewVars>>

-----------------------------------------------------------------------------
(* tail_log and log_events *)

\* Mutant: the stream ends with the answer that the job is over.
EndAtOnce(from) ==
    /\ tail' = Fresh(from.pos)
    /\ stream' = IF jobRow # "running" THEN "done" ELSE stream

\* finished() is asked at most every finished_every_s, and only when the file had
\* nothing new; the yes is followed by another read.
AskFinished(from) ==
    /\ tail' \in {Fresh(from.pos), [Fresh(from.pos) EXCEPT !.draining = jobRow # "running"]}
    /\ UNCHANGED stream

\* A read in a worker thread.  What it found is passed on at once; nothing while
\* draining ends the stream with the `done` event.
ReadChunk ==
    /\ stream = "open" /\ ~tail.empty
    /\ LET chunk == ReadAt(tail.pos)
           to == tail.pos + Cut(chunk, tail.draining)
       IN  IF to > tail.pos
           THEN /\ tail' = [tail EXCEPT !.pos = to]
                /\ last' = to
                /\ shown' = IF to > shown THEN to ELSE shown
                /\ again' = (again \/ tail.pos < shown)
                /\ UNCHANGED stream
           ELSE /\ IF tail.draining THEN stream' = "done" /\ UNCHANGED tail
                   ELSE tail' = [tail EXCEPT !.empty = TRUE] /\ UNCHANGED stream
                /\ UNCHANGED <<last, shown, again>>
    /\ UNCHANGED <<jobVars, url, resumed>>

AskDone ==
    /\ stream = "open" /\ tail.empty
    /\ AskFinished(tail)
    /\ UNCHANGED <<jobVars, url, last, shown, again, resumed>>

-----------------------------------------------------------------------------
(* The viewer *)

\* The connection drops; the browser tries again by itself.
Drop ==
    /\ stream = "open"
    /\ stream' = "retrying"
    /\ UNCHANGED <<jobVars, tail, url, last, shown, again, resumed>>

\* stream_job_logs: an offset in the URL wins over the Last-Event-ID header.
StartOf(offset, header) == IF offset = NoOffset THEN header ELSE offset

\* The same URL once more, with the last id as a header; a ticket that has
\* expired, or a job that is gone, is refused and the stream is lost.
Retry ==
    /\ stream = "retrying"
    /\ \/ /\ jobRow # "gone"
          /\ stream' = "open" /\ tail' = Fresh(StartOf(url, last)) /\ resumed' = (resumed \/ url # NoOffset)
       \/ stream' = "lost" /\ UNCHANGED <<tail, resumed>>
    /\ UNCHANGED <<jobVars, url, last, shown, again>>

\* Reconnect: a new stream with a fresh ticket at the last offset, if there is one.
Reconnect ==
    /\ stream = "lost" /\ jobRow # "gone"
    /\ url' = IF last = 0 THEN NoOffset ELSE last
    /\ tail' = Fresh(StartOf(url', 0))
    /\ stream' = "open"
    /\ UNCHANGED <<jobVars, last, shown, again, resumed>>

\* The drawer is closed and opened: the pane is emptied and the log replayed.
Reopen ==
    /\ jobRow # "gone"
    /\ stream' = "open" /\ url' = NoOffset /\ tail' = Fresh(0)
    /\ last' = 0 /\ shown' = 0 /\ again' = FALSE /\ resumed' = FALSE
    /\ UNCHANGED jobVars

TailNext ==
    \/ Write \/ StopWriting \/ End \/ Unlink
    \/ ReadChunk \/ AskDone
    \/ Drop \/ Retry \/ Reconnect \/ Reopen

TailSpec == TailInit /\ [][TailNext]_tailVars

-----------------------------------------------------------------------------
TailTypeOK ==
    /\ log \in Seq(Bytes) /\ Len(log) <= MaxLog
    /\ logKept \in BOOLEAN /\ writing \in BOOLEAN
    /\ jobRow \in {"running", "terminal", "gone"} /\ due \in 0..MaxLog
    /\ stream \in {"open", "retrying", "lost", "done"}
    /\ url \in 0..NoOffset /\ last \in 0..MaxLog /\ shown \in 0..MaxLog
    /\ tail \in [pos : 0..MaxLog, draining : BOOLEAN, empty : BOOLEAN]
    /\ again \in BOOLEAN /\ resumed \in BOOLEAN

\* A viewer that was told the job is done shows every byte that was in the log when
\* the row ended, however the last writes, the last read and the answer interleave,
\* unless the log was unlinked; while the job runs every offset to resume from is
\* the boundary of a character; and no byte is shown twice unless the browser
\* itself retried a stream that Reconnect had resumed.
TailIsComplete ==
    /\ stream = "done" /\ logKept => shown >= due
    /\ jobRow = "running" => Boundary(last)
    /\ again => resumed
=============================================================================
