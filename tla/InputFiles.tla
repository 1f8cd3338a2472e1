----------------------------- MODULE InputFiles -----------------------------
(***************************************************************************)
(* input/ of one project and its project_files rows: uploads and deletions *)
(* (services/files.py), the listing that hashes the files and writes back  *)
(* what it learned (services/input_scan.py, services/file_listing.py), the *)
(* enqueue of an index run and its start snapshot                          *)
(* (services/index_snapshots.py).                                          *)
(*                                                                         *)
(* Uploads stream without the project lock and are renamed under it, so    *)
(* that a file's mtime is that of its stream.  Listings take no lock for   *)
(* the rows they refresh and the project lock for those they discover; a   *)
(* row that a transaction has written is locked until it ends, and the rows*)
(* of a listing are written one after the other.                           *)
(*                                                                         *)
(* All files are of one size, and two mtimes of one racy window may be the *)
(* same: `stamp` is the window of the mtime, 0 for none.                   *)
(***************************************************************************)
EXTENDS Documents

CONSTANTS
    Clients,   \* concurrent requests
    NoClient,
    Place,     \* where each name comes in the sorted directory
    Quotas,    \* quotas a project may have, in files
    MaxWindow, \* bound: the last racy window
    MaxAsked,  \* bound: requests
    MaxFailed  \* bound: commits and unlinks that fail

ASSUME ClientsAssumption == IsFiniteSet(Clients) /\ NoClient \notin Clients
ASSUME PlaceAssumption ==
    Place \in [Names -> Nat] /\ \A m, n \in Names : Place[m] = Place[n] => m = n
ASSUME FilesBounds ==
    /\ Quotas \subseteq Nat /\ MaxWindow \in Nat \ {0} /\ MaxAsked \in Nat /\ MaxFailed \in Nat

VARIABLES
    disk,    \* the files of input/
    rows,    \* project_files
    quota,   \* project_quota_mb
    window,  \* the racy window of now
    holder,  \* who holds the project lock
    indexer, \* the active index run: its phase and its start snapshot
    client,  \* the requests
    asked,   \* requests so far
    failed,  \* failures so far
    late     \* a file was renamed in a later window than it was streamed in

filesVars == <<disk, rows, quota, window, holder, indexer, client, asked, failed, late>>

NoFile == [text |-> Absent, stamp |-> 0]
NoRow  == [id |-> 0, text |-> Absent, stamp |-> 0]

File == [text : Texts \cup {Absent}, stamp : 0..MaxWindow]
Row  == [id : 0..MaxAsked, text : Texts \cup {Absent}, stamp : 0..MaxWindow]

\* `todo`: the names an upload, a deletion or a write-back has still to apply;
\* `touched`: the rows it has written and not committed; `known`: the rows a
\* listing set out from; `scan`: what it has found, the stamp being the one the
\* hash may be cached under.
Client ==
    [op : {"none", "upload", "delete", "list", "enqueue"},
     ph : {"idle", "ready", "locked", "applied", "statted", "hashed"},
     id : 0..MaxAsked, todo : SUBSET Names, touched : SUBSET Names, file : File,
     settled : 0..MaxWindow, known : [Names -> Row], scan : [Names -> File]]

Done == [op |-> "none", ph |-> "idle", id |-> 0, todo |-> {}, touched |-> {}, file |-> NoFile,
         settled |-> 0, known |-> [n \in Names |-> NoRow], scan |-> [n \in Names |-> NoFile]]

Texted(files) == [n \in Names |-> files[n].text]

\* The types, and who holds the project lock: an upload or a deletion that
\* has checked the freeze, no two of them at once.
FilesTypeOK ==
    /\ disk \in [Names -> File] /\ rows \in [Names -> Row]
    /\ quota \in Quotas /\ window \in 1..MaxWindow /\ late \in BOOLEAN
    /\ holder \in Clients \cup {NoClient}
    /\ indexer \in [ph : {"none", "queued", "captured"}, start : Entries]
    /\ client \in [Clients -> Client]
    /\ asked \in 0..MaxAsked /\ failed \in 0..MaxFailed
    /\ \A c \in Clients : holder = c <=> client[c].ph \in {"locked", "applied"}

\* Files that were copied in have no row.
FilesInit ==
    /\ \E copied \in SUBSET Names, t \in Texts :
          /\ quota \in Quotas /\ Cardinality(copied) <= quota
          /\ disk = [n \in Names |-> IF n \in copied THEN [text |-> t, stamp |-> 1] ELSE NoFile]
    /\ rows = [n \in Names |-> NoRow]
    /\ window = 1 /\ holder = NoClient /\ late = FALSE
    /\ indexer = [ph |-> "none", start |-> Nothing]
    /\ client = [c \in Clients |-> Done]
    /\ asked = 0 /\ failed = 0

Goes(c, r) == client' = [client EXCEPT ![c] = r]
Ends(c)    == Goes(c, Done)
Asks(c)    == client[c].ph = "idle" /\ asked < MaxAsked /\ asked' = asked + 1

\* Mutant: requests do not wait for each other.
ProjectLockIgnored == TRUE
ProjectLockFree    == holder = NoClient

OnDisk == {n \in Names : disk[n] # NoFile}

\* A row somebody else has written is waited for.
RowsFree(c, ns) == \A d \in Clients \ {c} : client[d].touched \cap ns = {}

-----------------------------------------------------------------------------
(* Uploads and deletions.                                                  *)

\* save_file up to the end of the stream.
Upload(c, n, t) ==
    /\ Asks(c)
    /\ Goes(c, [Done EXCEPT !.op = "upload", !.ph = "ready", !.id = asked + 1, !.todo = {n},
                            !.file = [text |-> t, stamp |-> window]])
    /\ UNCHANGED <<disk, rows, quota, window, holder, indexer, failed, late>>

\* bulk_delete resolves every name before the lock.
Delete(c, ns) ==
    /\ Asks(c)
    /\ ns \subseteq OnDisk /\ ns # {}
    /\ Goes(c, [Done EXCEPT !.op = "delete", !.ph = "ready", !.id = asked + 1, !.todo = ns])
    /\ UNCHANGED <<disk, rows, quota, window, holder, indexer, failed, late>>

\* Mutant: the freeze is not re-checked inside the lock.
InputAlwaysThawed == TRUE
InputThawed == indexer.ph = "none"

\* Mutant: the quota is compared before the lock only.
QuotaAllowsAny(c) == TRUE
\* An overwritten file counts as well.
QuotaAllows(c) == client[c].op = "upload" => Cardinality(OnDisk) + 1 <= quota

\* input_mutation and the quota check inside it.
TakeProjectLock(c) ==
    /\ client[c].ph = "ready" /\ client[c].op \in {"upload", "delete"}
    /\ ProjectLockFree
    /\ \/ /\ InputThawed /\ QuotaAllows(c)
          /\ holder' = c
          /\ Goes(c, [client[c] EXCEPT !.ph = "locked"])
       \/ /\ ~(InputThawed /\ QuotaAllows(c))
          /\ Ends(c) /\ UNCHANGED holder
    /\ UNCHANGED <<disk, rows, quota, window, indexer, asked, failed, late>>

AppliedTo(c, n) ==
    LET r == client[c] IN
    [r EXCEPT !.todo = @ \ {n}, !.touched = @ \cup {n},
              !.ph = IF r.todo = {n} THEN "applied" ELSE "locked"]

\* The row is flushed, then the file renamed into place ...
Replace(c, n) ==
    /\ client[c].op = "upload" /\ client[c].ph = "locked" /\ n \in client[c].todo
    /\ RowsFree(c, {n})
    /\ disk' = [disk EXCEPT ![n] = client[c].file]
    /\ late' = (late \/ client[c].file.stamp # window)
    /\ Goes(c, AppliedTo(c, n))
    /\ UNCHANGED <<rows, quota, window, holder, indexer, asked, failed>>

\* ... or the file removed; what has vanished counts as deleted.
Unlink(c, n) ==
    /\ client[c].op = "delete" /\ client[c].ph = "locked" /\ n \in client[c].todo
    /\ RowsFree(c, {n})
    /\ disk' = [disk EXCEPT ![n] = NoFile]
    /\ Goes(c, AppliedTo(c, n))
    /\ UNCHANGED <<rows, quota, window, holder, indexer, asked, failed, late>>

\* The savepoint of a file that cannot be removed is rolled back.
UnlinkFails(c, n) ==
    /\ client[c].op = "delete" /\ client[c].ph = "locked" /\ n \in client[c].todo
    /\ n \in OnDisk /\ RowsFree(c, {n})
    /\ failed < MaxFailed /\ failed' = failed + 1
    /\ Goes(c, [AppliedTo(c, n) EXCEPT !.touched = client[c].touched])
    /\ UNCHANGED <<disk, rows, quota, window, holder, indexer, asked, late>>

\* _upsert_project_file keeps the id of a row and forgets the hash's mtime.
CommitFiles(c) ==
    LET r == client[c]
        Upserted(n) == [id |-> IF rows[n] = NoRow THEN r.id ELSE rows[n].id,
                        text |-> r.file.text, stamp |-> 0] IN
    /\ r.ph = "applied"
    /\ rows' = [n \in Names |-> IF n \notin r.touched THEN rows[n]
                                ELSE IF r.op = "upload" THEN Upserted(n) ELSE NoRow]
    /\ holder' = NoClient /\ Ends(c)
    /\ UNCHANGED <<disk, quota, window, indexer, asked, failed, late>>

\* The change stays on disk without its rows.
CommitFilesFails(c) ==
    /\ client[c].ph = "applied"
    /\ failed < MaxFailed /\ failed' = failed + 1
    /\ holder' = NoClient /\ Ends(c)
    /\ UNCHANGED <<disk, rows, quota, window, indexer, asked, late>>

-----------------------------------------------------------------------------
(* The listing.                                                            *)

\* file_listings reads the rows and goes to a thread ...
ReadRows(c) ==
    /\ Asks(c)
    /\ Goes(c, [Done EXCEPT !.op = "list", !.ph = "ready", !.id = asked + 1, !.known = rows])
    /\ UNCHANGED <<disk, rows, quota, window, holder, indexer, failed, late>>

\* Mutant: a hash is cached however young the file.
CacheableAtOnce(s, settled) == s
\* The racy window of scan_input.
Cacheable(s, settled) == IF s < settled THEN s ELSE 0

Cached(known, n) == known[n].stamp # 0 /\ known[n].stamp = disk[n].stamp

\* ... where scan_input stats each file ...
Stat(c) ==
    /\ client[c].op = "list" /\ client[c].ph = "ready"
    /\ Goes(c, [client[c] EXCEPT !.ph = "statted", !.settled = window,
                  !.scan = [n \in Names |->
                      [text |-> IF Cached(client[c].known, n) THEN client[c].known[n].text ELSE Absent,
                       stamp |-> disk[n].stamp]]])
    /\ UNCHANGED <<disk, rows, quota, window, holder, indexer, asked, failed, late>>

Found(r)     == {n \in Names : r.scan[n].text # Absent}
Untracked(r) == {n \in Found(r) : r.known[n] = NoRow}
Refreshed(r) == {n \in Found(r) \ Untracked(r) :
                    <<r.known[n].text, r.known[n].stamp>> # <<r.scan[n].text, r.scan[n].stamp>>}

\* ... and hashes those that are not cached; one that has vanished fails the
\* listing.
Hash(c) ==
    LET r == client[c]
        unread == {n \in Names : r.scan[n].stamp # 0 /\ r.scan[n].text = Absent}
        hashed == [r EXCEPT !.ph = "hashed",
                     !.scan = [n \in Names |->
                         [text |-> IF n \in unread THEN disk[n].text ELSE r.scan[n].text,
                          stamp |-> Cacheable(r.scan[n].stamp, r.settled)]]] IN
    /\ r.ph = "statted"
    /\ \/ unread \subseteq OnDisk /\ Goes(c, [hashed EXCEPT !.todo = Refreshed(hashed)])
       \/ ~(unread \subseteq OnDisk) /\ Ends(c)
    /\ UNCHANGED <<disk, rows, quota, window, holder, indexer, asked, failed, late>>

\* The executemany of _sync_file_rows updates the rows in the order of the scan, by
\* id: one that has been deleted, or deleted and made again, is passed over.
ComesNext(r, n) == n \in r.todo /\ \A m \in r.todo : Place[n] <= Place[m]
StillThere(c, n) == rows[n].id = client[c].known[n].id

UpdateRow(c, n) ==
    /\ client[c].ph = "hashed" /\ ComesNext(client[c], n)
    /\ StillThere(c, n) => RowsFree(c, {n})
    /\ Goes(c, [client[c] EXCEPT !.todo = @ \ {n},
                                 !.touched = IF StillThere(c, n) THEN @ \cup {n} ELSE @])
    /\ UNCHANGED <<disk, rows, quota, window, holder, indexer, asked, failed, late>>

Learned(r, n, id) == [id |-> id, text |-> r.scan[n].text, stamp |-> r.scan[n].stamp]

\* Discovery under the project lock, where there is something to discover, and
\* the commit.
Discovers(r) == r.ph = "hashed" /\ r.todo = {} /\ Untracked(r) # {}

FinishListing(c) ==
    LET r == client[c] IN
    /\ r.ph = "hashed" /\ r.todo = {}
    /\ Discovers(r) => ProjectLockFree
    /\ rows' = [n \in Names |->
          IF n \in r.touched THEN Learned(r, n, rows[n].id)
          ELSE IF n \in Untracked(r) /\ rows[n] = NoRow THEN Learned(r, n, r.id)
          ELSE rows[n]]
    /\ Ends(c)
    /\ UNCHANGED <<disk, quota, window, holder, indexer, asked, failed, late>>

-----------------------------------------------------------------------------
(* Index runs.                                                             *)

\* enqueue compares the usage with the quota ...
CheckUsage(c) ==
    /\ Asks(c) /\ Cardinality(OnDisk) <= quota
    /\ Goes(c, [Done EXCEPT !.op = "enqueue", !.ph = "ready"])
    /\ UNCHANGED <<disk, rows, quota, window, holder, indexer, failed, late>>

\* ... and inserts the job under the project lock; beside an active one the
\* insert is refused.
InsertIndexJob(c) ==
    /\ client[c].op = "enqueue" /\ ProjectLockFree
    /\ indexer' = IF indexer.ph = "none" THEN [indexer EXCEPT !.ph = "queued"] ELSE indexer
    /\ Ends(c)
    /\ UNCHANGED <<disk, rows, quota, window, holder, asked, failed, late>>

\* capture_start scans with the cached hashes and leaves the rows alone.
CaptureInput ==
    /\ indexer.ph = "queued"
    /\ indexer' = [ph |-> "captured",
                   start |-> [n \in Names |-> IF Cached(rows, n) THEN rows[n].text ELSE disk[n].text]]
    /\ UNCHANGED <<disk, rows, quota, window, holder, client, asked, failed, late>>

IndexEnds ==
    /\ indexer.ph # "none"
    /\ indexer' = [ph |-> "none", start |-> Nothing]
    /\ UNCHANGED <<disk, rows, quota, window, holder, client, asked, failed, late>>

WindowPasses ==
    /\ window < MaxWindow /\ window' = window + 1
    /\ UNCHANGED <<disk, rows, quota, holder, indexer, client, asked, failed, late>>

-----------------------------------------------------------------------------
(* PostgreSQL.                                                             *)

\* c waits for what d holds: a row, or the project lock.  A deletion unlinks in the
\* order of its request, which may be any.
WaitsForRow(c, d) ==
    \E n \in client[d].touched :
        \/ client[c].ph = "locked" /\ n \in client[c].todo
        \/ client[c].ph = "hashed" /\ ComesNext(client[c], n) /\ StillThere(c, n)
WaitsForLock(c, d) ==
    /\ holder = d
    /\ (client[c].ph = "ready" /\ client[c].op # "list") \/ Discovers(client[c])
Waits(c, d) == c # d /\ (WaitsForRow(c, d) \/ WaitsForLock(c, d))

\* Each waits for another of them, and another for it.
Deadlocked(S) ==
    S # {} /\ \A c \in S : (\E d \in S : Waits(c, d)) /\ (\E d \in S : Waits(d, c))

\* The deadlock detector aborts one of them.
Abort(c) ==
    /\ \E S \in SUBSET Clients : c \in S /\ Deadlocked(S)
    /\ holder' = IF holder = c THEN NoClient ELSE holder
    /\ Ends(c)
    /\ UNCHANGED <<disk, rows, quota, window, indexer, asked, failed, late>>

-----------------------------------------------------------------------------
ClientStep(c) ==
    \/ (\E n \in Names, t \in Texts : Upload(c, n, t)) \/ (\E ns \in SUBSET Names : Delete(c, ns))
    \/ TakeProjectLock(c)
    \/ (\E n \in Names : Replace(c, n) \/ Unlink(c, n) \/ UnlinkFails(c, n) \/ UpdateRow(c, n))
    \/ CommitFiles(c) \/ CommitFilesFails(c)
    \/ ReadRows(c) \/ Stat(c) \/ Hash(c) \/ FinishListing(c)
    \/ CheckUsage(c) \/ InsertIndexJob(c)
    \/ Abort(c)

FilesNext == (\E c \in Clients : ClientStep(c)) \/ CaptureInput \/ IndexEnds \/ WindowPasses

FilesSpec == FilesInit /\ [][FilesNext]_filesVars

-----------------------------------------------------------------------------
\* The hash that stands for a file is the hash of the file, however the
\* listing that cached it was overtaken by uploads and deletions - provided
\* that uploads are renamed in the window in which they were streamed.
CachedHashIsTheFile ==
    ~late => \A n \in OnDisk : Cached(rows, n) => rows[n].text = disk[n].text

\* What the index run reads is what its start snapshot says: nothing is
\* renamed into input/ or removed from it from the capture to the end, and the
\* hashes that the capture reuses are true - provided, as above, that uploads are
\* renamed in the window in which they were streamed (~late): the capture would
\* take the cached hash of the text an upload renamed later had replaced.
StartSnapshotIsTheInput ==
    ~late /\ indexer.ph = "captured" => indexer.start = Texted(disk)

\* Of two uploads that fit alone only one passes.
UploadsStayWithinQuota == Cardinality(OnDisk) <= quota

\* The write-back of refreshed hashes is "lock-free", and no requests wait for each
\* other in a circle.
WriteBackIsLockFree == \A S \in SUBSET Clients : ~Deadlocked(S)
=============================================================================
