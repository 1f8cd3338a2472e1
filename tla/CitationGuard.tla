---------------------------- MODULE CitationGuard ----------------------------
(***************************************************************************)
(* Queries and test runs beside the job queue: the generation guard.       *)
(*                                                                         *)
(* A query holds no lock.  It reads the project's generation (G0), loads   *)
(* the frames of output/ through the cache, answers, resolves the cited    *)
(* documents, reads the generation again (G1) and links a citation only if *)
(* _trustworthy.  A test run reads G0 and the frames once and answers many *)
(* questions, with a memo of resolved titles and of the baseline row.      *)
(*                                                                         *)
(* A reader is one request, or one test run, at a time; between any two of *)
(* its statements the queue takes steps.  The readers are those of one     *)
(* pod, which share one FrameCache.  What is read from output/ is          *)
(* represented by its provenance, the value of JobQueue's `out`.           *)
(***************************************************************************)
EXTENDS JobQueue

CONSTANTS
    Readers,     \* concurrent queries and test runs
    Documents,   \* documents that answers cite
    MaxQueries   \* bound: queries started in a behaviour

ASSUME ReadersAssumption    == IsFiniteSet(Readers)
ASSUME MaxQueriesAssumption == MaxQueries \in Nat

VARIABLES
    rd,      \* the local state of each reader
    cache,   \* FrameCache: the entry of each project, with its validity key
    links,   \* the links of each reader's last answer
    queries  \* queries started so far

readerVars == <<rd, cache, links, queries>>

Provenance == [job : Jobs \cup {NoJob}, complete : BOOLEAN]
Nothing    == [job |-> NoJob, complete |-> FALSE]
Built(j)   == [job |-> j, complete |-> TRUE]
Unread     == "unread"

Idle == [ph |-> "idle", pr |-> NoProject,
         gb |-> NoJob, ge |-> 0, ga |-> FALSE,       \* G0
         hb |-> NoJob, he |-> 0,                     \* G1, first statement
         stat |-> Nothing, frame |-> Nothing,
         doc |-> Unread, title |-> Nothing,          \* what the answer cites
         memo |-> [d \in Documents |-> Nothing],     \* CitationMemo.titles
         base |-> 0]      \* epoch of CitationMemo.baseline, 0 before it is read

Phases == {"idle", "pointer", "guarded", "statted", "ready", "resolved", "named", "reread"}

ReaderStates ==
    [ph : Phases, pr : Projects \cup {NoProject},
     gb : Jobs \cup {NoJob}, ge : Nat, ga : BOOLEAN,
     hb : Jobs \cup {NoJob}, he : Nat,
     stat : Provenance, frame : Provenance,
     doc : Documents \cup {Unread}, title : Provenance,
     memo : [Documents -> Provenance], base : Nat]

GuardTypeOK ==
    /\ rd \in [Readers -> ReaderStates]
    /\ cache \in [Projects -> [validity : Provenance, frame : Provenance]]
    /\ links \in [Readers -> SUBSET [run : Jobs \cup {NoJob}, frame : Provenance,
                                     title : Provenance]]
    /\ queries \in Nat

\* freezing_job: an index or update job is queued or running.
FreezingJob(pr) == \E j \in ActiveOn(pr) : type[j] \in FreezingTypes

GuardInit ==
    /\ Init
    /\ rd = [r \in Readers |-> Idle]
    /\ cache = [pr \in Projects |-> [validity |-> Nothing, frame |-> Nothing]]
    /\ links = [r \in Readers |-> {}]
    /\ queries = 0

Becomes(r, s) == rd' = [rd EXCEPT ![r] = s]

-----------------------------------------------------------------------------
\* G0 is two statements of one READ COMMITTED session: the pointer with the
\* epoch, then the active job.
ReadPointer(r, pr) ==
    /\ rd[r].ph = "idle" /\ queries < MaxQueries
    /\ queries' = queries + 1
    /\ Becomes(r, [Idle EXCEPT !.ph = "pointer", !.pr = pr,
                               !.gb = baseline[pr], !.ge = epoch[pr]])
    /\ UNCHANGED <<vars, cache, links>>

ReadActive(r) ==
    /\ rd[r].ph = "pointer"
    /\ Becomes(r, [rd[r] EXCEPT !.ph = "guarded", !.ga = FreezingJob(rd[r].pr)])
    /\ UNCHANGED <<vars, cache, links, queries>>

\* FrameCache.get: a hit when the stat of the file is the entry's key.
CacheHit(r) ==
    LET pr == rd[r].pr IN
    /\ rd[r].ph = "guarded"
    /\ out[pr] # Nothing /\ cache[pr].validity = out[pr]
    /\ Becomes(r, [rd[r] EXCEPT !.ph = "ready", !.frame = cache[pr].frame])
    /\ UNCHANGED <<vars, cache, links, queries>>

\* A miss drops the entry; the file is read after it was statted.
CacheMiss(r) ==
    LET pr == rd[r].pr IN
    /\ rd[r].ph = "guarded"
    /\ out[pr] # Nothing /\ cache[pr].validity # out[pr]
    /\ cache' = [cache EXCEPT ![pr] = [validity |-> Nothing, frame |-> Nothing]]
    /\ Becomes(r, [rd[r] EXCEPT !.ph = "statted", !.stat = out[pr]])
    /\ UNCHANGED <<vars, links, queries>>

LoadFrame(r) ==
    LET pr == rd[r].pr IN
    /\ rd[r].ph = "statted"
    /\ cache' = [cache EXCEPT ![pr] = [validity |-> rd[r].stat, frame |-> out[pr]]]
    /\ Becomes(r, [rd[r] EXCEPT !.ph = "ready", !.frame = out[pr]])
    /\ UNCHANGED <<vars, links, queries>>

\* WorkspaceNotIndexedError, or any step that raises: no answer, no links.
Abandon(r) ==
    /\ rd[r].ph # "idle"
    /\ Becomes(r, Idle)
    /\ links' = [links EXCEPT ![r] = {}]
    /\ UNCHANGED <<vars, cache, queries>>

\* Frames of other tables push the entry out of the byte budget, or the pod
\* starts anew.
Evict(pr) ==
    /\ cache[pr].validity # Nothing
    /\ cache' = [cache EXCEPT ![pr] = [validity |-> Nothing, frame |-> Nothing]]
    /\ UNCHANGED <<vars, rd, links, queries>>

\* Nothing is resolved without a baseline pointer at G0, or for an answer that
\* cites no text unit.
AnswerUnlinked(r) ==
    /\ rd[r].ph = "ready"
    /\ links' = [links EXCEPT ![r] = {}]
    /\ UNCHANGED <<vars, rd, cache, queries>>

\* An answer cites a document; documents.parquet is read for ids that are not
\* in the memo.  With the baseline row remembered the memo is filled at once.
Resolve(r, d) ==
    LET known == rd[r].memo[d]
        title == IF known # Nothing THEN known ELSE out[rd[r].pr]
        cited == [rd[r] EXCEPT !.doc = d, !.title = title]
    IN
    /\ rd[r].ph = "ready" /\ rd[r].gb # NoJob
    /\ \/ rd[r].base = 0 /\ Becomes(r, [cited EXCEPT !.ph = "resolved"])
       \/ rd[r].base # 0 /\ Becomes(r, [cited EXCEPT !.ph = "named", !.memo[d] = title])
    /\ UNCHANGED <<vars, cache, links, queries>>

\* baseline_row, once per memo.
ReadBaseline(r) ==
    LET b == baseline[rd[r].pr] IN
    /\ rd[r].ph = "resolved"
    /\ Becomes(r, [rd[r] EXCEPT !.ph = "named", !.base = snapEpoch[b],
                                !.memo[rd[r].doc] = rd[r].title])
    /\ UNCHANGED <<vars, cache, links, queries>>

RereadPointer(r) ==
    /\ rd[r].ph = "named"
    /\ Becomes(r, [rd[r] EXCEPT !.ph = "reread", !.hb = baseline[rd[r].pr],
                                !.he = epoch[rd[r].pr]])
    /\ UNCHANGED <<vars, cache, links, queries>>

\* Mutant: without the fourth condition, that G0's epoch is the baseline's.
TrustworthyWithoutEpoch(r, active) ==
    /\ rd[r].gb # NoJob
    /\ rd[r].gb = rd[r].hb /\ rd[r].ge = rd[r].he
    /\ ~rd[r].ga /\ ~active

Trustworthy(r, active) ==
    /\ rd[r].gb # NoJob
    /\ rd[r].gb = rd[r].hb /\ rd[r].ge = rd[r].he
    /\ ~rd[r].ga /\ ~active
    /\ rd[r].ge = rd[r].base

\* The second statement of G1 and the decision.  A test run goes on to its
\* next question, with the same G0, frames and memo.
Answer(r) ==
    /\ rd[r].ph = "reread"
    /\ links' = [links EXCEPT ![r] =
         IF Trustworthy(r, FreezingJob(rd[r].pr))
         THEN {[run |-> rd[r].gb, frame |-> rd[r].frame, title |-> rd[r].memo[rd[r].doc]]}
         ELSE {}]
    /\ Becomes(r, [rd[r] EXCEPT !.ph = "ready", !.doc = Unread, !.title = Nothing])
    /\ UNCHANGED <<vars, cache, queries>>

-----------------------------------------------------------------------------
ReaderStep(r) ==
    \/ \E pr \in Projects : ReadPointer(r, pr)
    \/ ReadActive(r)
    \/ CacheHit(r)
    \/ CacheMiss(r)
    \/ LoadFrame(r)
    \/ Abandon(r)
    \/ AnswerUnlinked(r)
    \/ \E d \in Documents : Resolve(r, d)
    \/ ReadBaseline(r)
    \/ RereadPointer(r)
    \/ Answer(r)

GuardNext ==
    \/ Next /\ UNCHANGED readerVars
    \/ \E r \in Readers : ReaderStep(r)
    \/ \E pr \in Projects : Evict(pr)

GuardSpec == GuardInit /\ [][GuardNext]_<<vars, readerVars>>

-----------------------------------------------------------------------------
\* A link names a document of the build that answered: the frames that
\* answered and the titles that name the document were both written by the
\* run of the baseline, and that run had come to its end (spec 7.4).  Only
\* the guard stands between an answer and a rebuild in place.
LinksAreOfTheBaseline ==
    \A r \in Readers : \A l \in links[r] :
        l.frame = Built(l.run) /\ l.title = Built(l.run)
=============================================================================
