------------------------------ MODULE Queries ------------------------------
(***************************************************************************)
(* The interactive queries of one project: services/query.py run_query and *)
(* stream_query, and the stream route of api/query_routes.py, over the     *)
(* shared frame cache.  The limiter, the generations and the links of the  *)
(* citations are Limits and CitationGuard; what a query does here is load  *)
(* its frames, search, and answer with a body or with a stream of events.  *)
(***************************************************************************)
EXTENDS FrameCache

CONSTANTS
    Streams,     \* the queries that come by the stream route; the others are POSTs
    Methods,     \* search methods
    TablesFor,   \* tables_for: the tables of each method
    MaxChunks    \* chunks of an answer

ASSUME QueriesAssumption == Streams \subseteq Askers /\ MaxChunks \in Nat

VARIABLES
    phase,       \* "idle", "frames", "search", "tail", "over", "gone" or "cut"
    sent         \* what each stream has answered with

queryVars == <<phase, sent>>

QueriesInit ==
    /\ CacheInit
    /\ phase = [a \in Askers |-> "idle"]
    /\ sent = [a \in Askers |-> <<>>]

Settled(a, t) == load[a][t].at \notin {"wanted", "reading", "read"}
Free(a) == phase[a] \in {"idle", "over", "gone", "cut"} /\ \A t \in Tables : Settled(a, t)

Send(a, event) == sent' = [sent EXCEPT ![a] = IF a \in Streams THEN Append(@, event) ELSE @]

\* A POST has its body or an HTTP error, and the request is over.
Over(a) == phase' = [phase EXCEPT ![a] = IF a \in Streams THEN "over" ELSE "idle"]

\* A failure before the first event: the stream route answers with a stream whose
\* only frame is the refusal.
Refuse(a) == Over(a) /\ Send(a, "refusal")

\* _preamble: the limiter and the configuration let the query pass, and its frames
\* are asked for together.
AskFrames(a, m) ==
    /\ Free(a)
    /\ load' = [load EXCEPT ![a] = [t \in Tables |-> IF t \in TablesFor[m] THEN LoadAt("wanted", 0, 0) ELSE NoLoad]]
    /\ phase' = [phase EXCEPT ![a] = "frames"]
    /\ sent' = [sent EXCEPT ![a] = <<>>]
    /\ UNCHANGED <<file, writes, entries, bytes>>

\* Or one of them refuses; or the read of the generation fails on the database,
\* which no handler turns into a frame.
AskRefused(a) ==
    /\ Free(a)
    /\ Over(a)
    /\ sent' \in {[sent EXCEPT ![a] = <<"refusal">>], [sent EXCEPT ![a] = <<"http_500">>]}
    /\ UNCHANGED cacheVars

\* asyncio.gather: the first failure refuses the query while its other loads go on
\* and insert what they read.
FramesFail(a) ==
    /\ phase[a] = "frames"
    /\ \E t \in Tables : load[a][t].at \in {"not_indexed", "corrupt"}
    /\ Refuse(a)
    /\ load' = [load EXCEPT ![a] = [t \in Tables |-> IF Settled(a, t) THEN NoLoad ELSE @[t]]]
    /\ UNCHANGED <<file, writes, entries, bytes>>

FramesLoaded(a) ==
    /\ phase[a] = "frames"
    /\ \A t \in Tables : load[a][t].at \in {"none", "have"}
    /\ phase' = [phase EXCEPT ![a] = "search"]
    /\ load' = [load EXCEPT ![a] = [t \in Tables |-> NoLoad]]
    /\ UNCHANGED <<file, writes, entries, bytes, sent>>

\* execute_query: a body, or a QueryError.
AnswerPost(a) ==
    /\ phase[a] = "search" /\ a \notin Streams
    /\ Over(a)
    /\ UNCHANGED <<cacheVars, sent>>

Chunk(a) ==
    /\ phase[a] = "search" /\ a \in Streams /\ Len(sent[a]) < MaxChunks
    /\ Send(a, "chunk")
    /\ UNCHANGED <<cacheVars, phase>>

\* Mutant: a search that fails refuses whatever was delivered before.
RefuseLate(a) == Refuse(a)

\* After a chunk an `error` event ends the stream; before it the query is refused.
Break(a) == IF sent[a] = <<>> THEN Refuse(a) ELSE Over(a) /\ Send(a, "error")

SearchBreaks(a) ==
    /\ phase[a] = "search" /\ a \in Streams
    /\ Break(a)
    /\ UNCHANGED cacheVars

\* The citations follow the last chunk, whether enrichment failed or not, and
\* `done` follows them.
Cite(a) ==
    /\ phase[a] = "search" /\ a \in Streams
    /\ phase' = [phase EXCEPT ![a] = "tail"]
    /\ Send(a, "citations")
    /\ UNCHANGED cacheVars

\* The step that builds them stands outside the handler of a search that fails:
\* without a chunk the request answers 500, and after one the stream is cut off.
CiteFails(a) ==
    /\ phase[a] = "search" /\ a \in Streams
    /\ \/ sent[a] = <<>> /\ Over(a) /\ Send(a, "http_500")
       \/ sent[a] # <<>> /\ phase' = [phase EXCEPT ![a] = "cut"] /\ UNCHANGED sent
    /\ UNCHANGED cacheVars

FinishStream(a) ==
    /\ phase[a] = "tail"
    /\ Over(a) /\ Send(a, "done")
    /\ UNCHANGED cacheVars

\* The client goes away: the generator is closed and says nothing more.
Disconnect(a) ==
    /\ phase[a] \in {"search", "tail"} /\ sent[a] # <<>>
    /\ phase' = [phase EXCEPT ![a] = "gone"]
    /\ UNCHANGED <<cacheVars, sent>>

QueriesNext ==
    \/ CacheStep /\ UNCHANGED queryVars
    \/ \E a \in Askers :
        \/ \E m \in Methods : AskFrames(a, m)
        \/ a \in Streams /\ AskRefused(a)
        \/ FramesFail(a) \/ FramesLoaded(a) \/ AnswerPost(a)
        \/ Chunk(a) \/ SearchBreaks(a) \/ Cite(a) \/ CiteFails(a) \/ FinishStream(a)
        \/ Disconnect(a)

QueriesSpec == QueriesInit /\ [][QueriesNext]_<<cacheVars, queryVars>>

QueriesTypeOK ==
    /\ CacheTypeOK
    /\ phase \in [Askers -> {"idle", "frames", "search", "tail", "over", "gone", "cut"}]
    /\ \A a \in Askers : sent[a] \in Seq({"chunk", "citations", "done", "error", "refusal", "http_500"})

Chunks(n) == [k \in 1..n |-> "chunk"]

\* A stream says how it ended, once and last: the refusal alone, or an error after
\* at least one chunk, or the citations and done.  Only a client that went away is
\* left without an end, and a stream that the citation step cut off.
StreamsEndOnce ==
    \A a \in Streams : \E n \in 0..MaxChunks :
        /\ phase[a] = "over" =>
              \/ sent[a] \in {<<"refusal">>, <<"http_500">>, Chunks(n) \o <<"citations", "done">>}
              \/ n > 0 /\ sent[a] = Chunks(n) \o <<"error">>
        /\ phase[a] = "cut" => n > 0 /\ sent[a] = Chunks(n)
        /\ phase[a] \notin {"over", "cut"} => sent[a] \in {Chunks(n), Chunks(n) \o <<"citations">>}
=============================================================================
