----------------------------- MODULE FrameCache -----------------------------
(***************************************************************************)
(* The parquet frames the queries of one project share                     *)
(* (adapters/frame_cache.py).  get() looks a table up on the event loop,   *)
(* reads the file in a worker thread when it has to, and inserts what it   *)
(* read when the thread is done: other queries, a running index and an     *)
(* eviction come between.                                                  *)
(*                                                                         *)
(* A file is the number of the write that produced it, which is also its   *)
(* stamp (mtime_ns and size differ between two writes); 0 when missing.    *)
(***************************************************************************)
EXTENDS Naturals, FiniteSets, SequencesExt

CONSTANTS
    Tables,      \* parquet tables of the workspace
    Askers,      \* queries that may be under way together
    FrameSizes,  \* deep bytes of the frame of each write, a sequence
    Budget       \* bytes the cache may hold

ASSUME CacheAssumption == FrameSizes \in Seq(Nat) /\ Budget \in Nat

VARIABLES
    file,        \* the write each table's file holds
    writes,      \* writes so far
    entries,     \* the cache [table, stamp, version, size], least recent first
    bytes,       \* the byte count the cache keeps
    load         \* the get() of each query for each table

cacheVars == <<file, writes, entries, bytes, load>>

MaxWrites == Len(FrameSizes)
NoLoad == [at |-> "none", stamp |-> 0, version |-> 0]

\* The versions a get() was told of: stamp by its stat, version by its read.
LoadAt(where, stamp, version) == [at |-> where, stamp |-> stamp, version |-> version]

\* The cache is an ordered dictionary: a table has one place in it.
Cached(t) == \E n \in DOMAIN entries : entries[n].table = t
PlaceOf(t) == CHOOSE n \in DOMAIN entries : entries[n].table = t
Without(t) == IF Cached(t) THEN RemoveAt(entries, PlaceOf(t)) ELSE entries
SizeOf(t) == IF Cached(t) THEN entries[PlaceOf(t)].size ELSE 0

\* The bytes of the first n frames, and of all of them.
SizesUpTo(cached) ==
    LET sum[n \in 0..Len(cached)] == IF n = 0 THEN 0 ELSE sum[n - 1] + cached[n].size
    IN  sum
TotalSize(cached) == SizesUpTo(cached)[Len(cached)]

CacheInit ==
    /\ file = [t \in Tables |-> 0] /\ writes = 0
    /\ entries = <<>> /\ bytes = 0
    /\ load = [a \in Askers |-> [t \in Tables |-> NoLoad]]

\* An index run rewrites a table in place; a workspace may lose its output.
WriteTable(t) ==
    /\ writes < MaxWrites
    /\ writes' = writes + 1
    /\ file' = [file EXCEPT ![t] = writes']
    /\ UNCHANGED <<entries, bytes, load>>

DropTable(t) ==
    /\ file[t] # 0
    /\ file' = [file EXCEPT ![t] = 0]
    /\ UNCHANGED <<writes, entries, bytes, load>>

Valid(e, t) == file[t] # 0 /\ e.stamp = file[t]

\* get() up to the read: a valid entry is served and becomes the most recent, any
\* other is removed; a missing file is "not indexed".
Lookup(a, t) ==
    /\ load[a][t].at = "wanted"
    /\ LET hit == Cached(t) /\ Valid(entries[PlaceOf(t)], t)
       IN  /\ entries' = IF hit THEN Append(Without(t), entries[PlaceOf(t)]) ELSE Without(t)
           /\ bytes' = IF hit THEN bytes ELSE bytes - SizeOf(t)
           /\ load' = [load EXCEPT ![a][t] =
                         IF hit THEN LoadAt("have", file[t], entries[PlaceOf(t)].version)
                         ELSE IF file[t] = 0 THEN LoadAt("not_indexed", 0, 0)
                         ELSE LoadAt("reading", file[t], 0)]
    /\ UNCHANGED <<file, writes>>

\* pd.read_parquet: the write that is there by now, a file that is gone, or a
\* parquet that cannot be read.
Read(a, t) ==
    /\ load[a][t].at = "reading"
    /\ load' = [load EXCEPT ![a][t] = IF file[t] = 0 THEN LoadAt("not_indexed", @.stamp, 0) ELSE LoadAt("read", @.stamp, file[t])]
    /\ UNCHANGED <<file, writes, entries, bytes>>

ReadFails(a, t) ==
    /\ load[a][t].at = "reading"
    /\ load' = [load EXCEPT ![a][t] = LoadAt("corrupt", @.stamp, 0)]
    /\ UNCHANGED <<file, writes, entries, bytes>>

\* Mutant: the bytes of the entry that is overwritten stay counted.
InsertOnTop(t, e) ==
    [cached |-> Append(Without(t), e), total |-> bytes + e.size]

\* The entry of a concurrent miss is released before the new one is counted.
Overwriting(t, e) ==
    [cached |-> Append(Without(t), e), total |-> bytes - SizeOf(t) + e.size]

\* The least recent entries go until the rest is within the budget; the frame that
\* came in stays in any case.
Evictions(cached, total) ==
    LET dropped == SizesUpTo(cached)
        enough == {n \in 0..Len(cached) - 1 : total <= Budget + dropped[n]}
        n == IF enough = {} THEN Len(cached) - 1 ELSE CHOOSE m \in enough : \A o \in enough : m <= o
    IN  [cached |-> SubSeq(cached, n + 1, Len(cached)), total |-> total - dropped[n]]

\* The stamp is the one of the stat before the read.
InsertFrame(a, t) ==
    /\ load[a][t].at = "read"
    /\ LET l == load[a][t]
           in == Overwriting(t, [table |-> t, stamp |-> l.stamp, version |-> l.version,
                                 size |-> FrameSizes[l.version]])
           fit == Evictions(in.cached, in.total)
       IN  entries' = fit.cached /\ bytes' = fit.total
    /\ load' = [load EXCEPT ![a][t].at = "have"]
    /\ UNCHANGED <<file, writes>>

CacheStep ==
    \/ \E t \in Tables : WriteTable(t) \/ DropTable(t)
    \/ \E a \in Askers, t \in Tables : Lookup(a, t) \/ Read(a, t) \/ ReadFails(a, t) \/ InsertFrame(a, t)

CacheTypeOK ==
    /\ file \in [Tables -> 0..MaxWrites] /\ writes \in 0..MaxWrites
    /\ \A n \in DOMAIN entries : entries[n].table \in Tables /\ entries[n].version \in 1..MaxWrites
    /\ bytes \in Nat
    /\ \A a \in Askers, t \in Tables :
        load[a][t].at \in {"none", "wanted", "reading", "read", "have", "not_indexed", "corrupt"}

\* However misses, overwrites, evictions and rewrites of one table interleave: an
\* entry that would be served holds what the file holds, a table has one entry,
\* the byte count is the sum of the frames in the cache, and only a single frame
\* may exceed the budget; and a query is never handed an older frame than the file
\* held when it looked.
FramesAreWhatTheyClaim ==
    /\ \A n \in DOMAIN entries : Valid(entries[n], entries[n].table)
                                    => entries[n].version = file[entries[n].table]
    /\ \A n, m \in DOMAIN entries : entries[n].table = entries[m].table => n = m
    /\ bytes = TotalSize(entries)
    /\ bytes <= Budget \/ Len(entries) = 1
    /\ \A a \in Askers, t \in Tables : load[a][t].at = "have" => load[a][t].version >= load[a][t].stamp
=============================================================================
