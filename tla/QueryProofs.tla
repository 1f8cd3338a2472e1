---------------------------- MODULE QueryProofs ----------------------------
(***************************************************************************)
(* Theorems about what answering a query rests on: the streams of a worker,*)
(* the frames the readers of an index share, and the limiters that count   *)
(* queries and failed logins.  Each part is for itself.                    *)
(***************************************************************************)
EXTENDS Queries, Limits, FiniteSetTheorems, SequenceTheorems, WellFoundedInduction, TLAPS

-----------------------------------------------------------------------------
(* The streams of the queries (Queries).                                    *)

Events == {"chunk", "citations", "done", "error", "refusal", "http_500"}

\* What a stream has said after n chunks.
LEMMA ChunksAre ==
    ASSUME NEW n \in Nat
    PROVE  /\ Chunks(n) \in Seq(Events) /\ Len(Chunks(n)) = n
           /\ Chunks(0) = <<>> /\ (Chunks(n) = <<>> => n = 0)
           /\ Append(Chunks(n), "chunk") = Chunks(n + 1)
<1>1. Chunks(n) \in Seq(Events) /\ Len(Chunks(n)) = n
  BY DEF Chunks, Events
<1>2. Chunks(0) = <<>>
  BY DEF Chunks
<1>3. Append(Chunks(n), "chunk") = Chunks(n + 1)
  BY DEF Chunks
<1> QED BY <1>1, <1>2, <1>3

\* What follows the chunks are events too.
LEMMA TailsAre ==
    ASSUME NEW n \in Nat
    PROVE  /\ Append(Chunks(n), "citations") = Chunks(n) \o <<"citations">>
           /\ Append(Chunks(n) \o <<"citations">>, "done") = Chunks(n) \o <<"citations", "done">>
           /\ Append(Chunks(n), "error") = Chunks(n) \o <<"error">>
           /\ Chunks(n) \o <<"citations">> \in Seq(Events)
           /\ Chunks(n) \o <<"citations", "done">> \in Seq(Events)
           /\ Chunks(n) \o <<"error">> \in Seq(Events)
<1>1. Chunks(n) \in Seq(Events) /\ Len(Chunks(n)) = n
  BY ChunksAre
<1> QED BY <1>1, SMTT(40) DEF Events

\* How a stream has answered, by where it stands.
Told(s, ph) ==
    /\ ph \in {"idle", "frames"} => s = <<>>
    /\ ph = "search" => \E n \in 0..MaxChunks : s = Chunks(n)
    /\ ph = "tail" => \E n \in 0..MaxChunks : s = Chunks(n) \o <<"citations">>
    /\ ph = "cut" => \E n \in 0..MaxChunks : n > 0 /\ s = Chunks(n)
    /\ ph = "gone" => \E n \in 0..MaxChunks : s \in {Chunks(n), Chunks(n) \o <<"citations">>}
    /\ ph = "over" => \E n \in 0..MaxChunks :
          \/ s \in {<<"refusal">>, <<"http_500">>, Chunks(n) \o <<"citations", "done">>}
          \/ n > 0 /\ s = Chunks(n) \o <<"error">>

StreamsInv ==
    /\ phase \in [Askers -> {"idle", "frames", "search", "tail", "over", "gone", "cut"}]
    /\ DOMAIN sent = Askers /\ sent = [a \in Askers |-> sent[a]]
    /\ \A a \in Streams : Told(sent[a], phase[a])

\* The invariant implies the property.
LEMMA StreamsAnswer ==
    ASSUME StreamsInv
    PROVE  StreamsEndOnce
<1> SUFFICES ASSUME NEW a \in Streams
             PROVE  \E n \in 0..MaxChunks :
                      /\ phase[a] = "over" =>
                            \/ sent[a] \in {<<"refusal">>, <<"http_500">>, Chunks(n) \o <<"citations", "done">>}
                            \/ n > 0 /\ sent[a] = Chunks(n) \o <<"error">>
                      /\ phase[a] = "cut" => n > 0 /\ sent[a] = Chunks(n)
                      /\ phase[a] \notin {"over", "cut"} => sent[a] \in {Chunks(n), Chunks(n) \o <<"citations">>}
  BY DEF StreamsEndOnce
<1>1. phase[a] \in {"idle", "frames", "search", "tail", "over", "gone", "cut"} /\ Told(sent[a], phase[a])
  BY QueriesAssumption DEF StreamsInv
<1>2. CASE phase[a] \in {"idle", "frames"}
  <2>1. sent[a] = <<>> /\ 0 \in 0..MaxChunks
    BY <1>1, <1>2, QueriesAssumption DEF Told
  <2>2. Chunks(0) = <<>>
    BY ChunksAre
  <2> QED BY <1>2, <2>1, <2>2
<1>3. CASE phase[a] \notin {"idle", "frames"}
  BY <1>1, <1>3 DEF Told
<1> QED BY <1>2, <1>3

\* A stream moves on by itself: what it may say next.
LEMMA StreamSays ==
    ASSUME StreamsInv, NEW a \in Askers, NEW ph \in {"idle", "frames", "search", "tail", "over", "gone", "cut"}, NEW s,
           phase' = [phase EXCEPT ![a] = ph], sent' = [sent EXCEPT ![a] = s],
           a \in Streams => Told(s, ph)
    PROVE  StreamsInv'
<1>1. \A b \in Askers : b # a => phase'[b] = phase[b] /\ sent'[b] = sent[b]
  BY DEF StreamsInv
<1>2. phase'[a] = ph /\ sent'[a] = s
  BY DEF StreamsInv
<1>3. \A b \in Streams : Told(sent'[b], phase'[b])
  BY <1>1, <1>2, QueriesAssumption DEF StreamsInv
<1>4. phase' \in [Askers -> {"idle", "frames", "search", "tail", "over", "gone", "cut"}]
      /\ DOMAIN sent' = Askers /\ sent' = [b \in Askers |-> sent'[b]]
  BY DEF StreamsInv
<1> QED BY <1>3, <1>4 DEF StreamsInv

\* Every step of a query keeps what its stream has said in order.
LEMMA StreamsStep ==
    ASSUME StreamsInv, [QueriesNext]_<<cacheVars, queryVars>>
    PROVE  StreamsInv'
<1> USE QueriesAssumption
<1>1. CASE UNCHANGED queryVars
  BY <1>1 DEF queryVars, StreamsInv
<1>2. ASSUME NEW a \in Askers, NEW m \in Methods, AskFrames(a, m) PROVE StreamsInv'
  <2>1. Told(<<>>, "frames")
    BY DEF Told
  <2> QED BY <1>2, <2>1, StreamSays DEF AskFrames
<1>3. ASSUME NEW a \in Askers, a \in Streams, AskRefused(a) PROVE StreamsInv'
  <2>1. Told(<<"refusal">>, "over") /\ Told(<<"http_500">>, "over")
    BY DEF Told
  <2> QED BY <1>3, <2>1, StreamSays DEF AskRefused, Over
<1>4. ASSUME NEW a \in Askers, Refuse(a), a \in Streams => phase[a] = "frames" \/ sent[a] = <<>> PROVE StreamsInv'
  <2>1. a \in Streams => sent[a] = <<>>
    BY <1>4 DEF StreamsInv, Told
  <2>2. Told(<<"refusal">>, "over") /\ Append(<<>>, "refusal") = <<"refusal">>
    BY DEF Told
  <2> QED BY <1>4, <2>1, <2>2, StreamSays DEF Refuse, Over, Send
<1>5. ASSUME NEW a \in Askers, FramesLoaded(a) \/ AnswerPost(a) PROVE StreamsInv'
  <2>1. Told(<<>>, "search")
    BY ChunksAre DEF Told
  <2>2. sent' = [sent EXCEPT ![a] = sent[a]]
    BY <1>5 DEF FramesLoaded, AnswerPost, StreamsInv
  <2>3. FramesLoaded(a) /\ a \in Streams => Told(sent[a], "search")
    BY <2>1 DEF FramesLoaded, StreamsInv, Told
  <2>4. CASE FramesLoaded(a)
    BY <2>2, <2>3, <2>4, StreamSays DEF FramesLoaded
  <2>5. CASE AnswerPost(a)
    BY <2>2, <2>5, StreamSays DEF AnswerPost, Over
  <2> QED BY <1>5, <2>4, <2>5
<1>6. ASSUME NEW a \in Streams, phase[a] = "search" PROVE \E n \in 0..MaxChunks : sent[a] = Chunks(n)
  BY <1>6 DEF StreamsInv, Told
<1>7. ASSUME NEW a \in Askers, Chunk(a) PROVE StreamsInv'
  <2>1. a \in Streams /\ phase[a] = "search" /\ Len(sent[a]) < MaxChunks
    BY <1>7 DEF Chunk
  <2>2. PICK n \in 0..MaxChunks : sent[a] = Chunks(n)
    BY <1>6, <2>1
  <2>3. n + 1 \in 0..MaxChunks /\ Append(sent[a], "chunk") = Chunks(n + 1)
    <3>1. n \in Nat /\ MaxChunks \in Nat
      BY QueriesAssumption
    <3>2. Len(Chunks(n)) = n /\ Append(Chunks(n), "chunk") = Chunks(n + 1)
      BY <3>1, ChunksAre
    <3>3. n < MaxChunks
      BY <2>1, <2>2, <3>2
    <3>4. n + 1 \in 0..MaxChunks
      BY <3>1, <3>3
    <3> QED BY <2>2, <3>2, <3>4
  <2>4. Told(Append(sent[a], "chunk"), "search")
    BY <2>3 DEF Told
  <2>5. phase' = [phase EXCEPT ![a] = "search"] /\ sent' = [sent EXCEPT ![a] = Append(sent[a], "chunk")]
    BY <1>7, <2>1 DEF Chunk, Send, StreamsInv
  <2> QED BY <2>4, <2>5, StreamSays
<1>8. ASSUME NEW a \in Askers, SearchBreaks(a) PROVE StreamsInv'
  <2>1. CASE sent[a] = <<>>
    BY <1>4, <1>8, <2>1 DEF SearchBreaks, Break
  <2>2. CASE sent[a] # <<>>
    <3>1. a \in Streams /\ phase[a] = "search"
      BY <1>8 DEF SearchBreaks
    <3>2. PICK n \in 0..MaxChunks : sent[a] = Chunks(n)
      BY <1>6, <3>1
    <3>3. n > 0 /\ Append(sent[a], "error") = Chunks(n) \o <<"error">>
      BY <2>2, <3>2, ChunksAre, TailsAre, SMTT(40)
    <3>4. Told(Append(sent[a], "error"), "over")
      BY <3>3 DEF Told
    <3> QED BY <1>8, <2>2, <3>1, <3>4, StreamSays DEF SearchBreaks, Break, Over, Send
  <2> QED BY <2>1, <2>2
<1>9. ASSUME NEW a \in Askers, Cite(a) PROVE StreamsInv'
  <2>1. a \in Streams /\ phase[a] = "search"
    BY <1>9 DEF Cite
  <2>2. PICK n \in 0..MaxChunks : sent[a] = Chunks(n)
    BY <1>6, <2>1
  <2>3. n \in Nat
    OBVIOUS
  <2>4. Append(Chunks(n), "citations") = Chunks(n) \o <<"citations">>
    BY ONLY <2>3, TailsAre
  <2>5. Told(Append(sent[a], "citations"), "tail")
    BY <2>2, <2>4 DEF Told
  <2> QED BY <1>9, <2>1, <2>5, StreamSays DEF Cite, Send
<1>10. ASSUME NEW a \in Askers, FinishStream(a) PROVE StreamsInv'
  <2>1. phase[a] = "tail"
    BY <1>10 DEF FinishStream
  <2>2. a \in Streams => Told(Append(sent[a], "done"), "over")
    <3> SUFFICES ASSUME a \in Streams PROVE Told(Append(sent[a], "done"), "over")
      OBVIOUS
    <3>1. PICK n \in 0..MaxChunks : sent[a] = Chunks(n) \o <<"citations">>
      BY <2>1 DEF StreamsInv, Told
    <3>2. n \in Nat
      OBVIOUS
    <3>3. Append(Chunks(n) \o <<"citations">>, "done") = Chunks(n) \o <<"citations", "done">>
      BY ONLY <3>2, TailsAre
    <3> QED BY <3>1, <3>3 DEF Told
  <2>3. CASE a \in Streams
    BY <1>10, <2>2, <2>3, StreamSays DEF FinishStream, Over, Send
  <2>4. CASE a \notin Streams
    BY <1>10, <2>4, StreamSays DEF FinishStream, Over, Send
  <2> QED BY <2>3, <2>4
<1>11. ASSUME NEW a \in Askers, Disconnect(a) PROVE StreamsInv'
  <2>1. phase[a] \in {"search", "tail"} /\ phase' = [phase EXCEPT ![a] = "gone"]
        /\ sent' = [sent EXCEPT ![a] = sent[a]]
    BY <1>11 DEF Disconnect, StreamsInv
  <2>2. a \in Streams => Told(sent[a], "gone")
    BY <2>1 DEF StreamsInv, Told
  <2> QED BY <2>1, <2>2, StreamSays
<1>12. ASSUME NEW a \in Askers, FramesFail(a) PROVE StreamsInv'
  BY <1>4, <1>12 DEF FramesFail
<1>13. ASSUME NEW a \in Askers, CiteFails(a) PROVE StreamsInv'
  <2>1. a \in Streams /\ phase[a] = "search"
    BY <1>13 DEF CiteFails
  <2>2. CASE sent[a] = <<>>
    <3>1. Told(<<"http_500">>, "over") /\ Append(<<>>, "http_500") = <<"http_500">>
      BY DEF Told
    <3> QED BY <1>13, <2>1, <2>2, <3>1, StreamSays DEF CiteFails, Over, Send
  <2>3. CASE sent[a] # <<>>
    <3>1. PICK n \in 0..MaxChunks : sent[a] = Chunks(n)
      BY <1>6, <2>1
    <3>2. n > 0
      BY <2>3, <3>1, ChunksAre
    <3>3. Told(sent[a], "cut") /\ sent' = [sent EXCEPT ![a] = sent[a]]
      BY <1>13, <2>3, <3>1, <3>2 DEF CiteFails, Told, StreamsInv
    <3>4. phase' = [phase EXCEPT ![a] = "cut"]
      BY <1>13, <2>3 DEF CiteFails
    <3> QED BY <3>3, <3>4, StreamSays
  <2> QED BY <2>2, <2>3
<1> QED BY <1>1, <1>2, <1>3, <1>5, <1>7, <1>8, <1>9, <1>10, <1>11, <1>12, <1>13 DEF QueriesNext, cacheVars, queryVars

\* stream_query and the route's event generator: a stream says how it ended, once and
\* last, for any number of queries, tables, methods and chunks, whatever the shared
\* cache, the running index and the other queries do.
THEOREM StreamsEnd == QueriesSpec => []StreamsEndOnce
<1>1. QueriesInit => StreamsInv
  BY QueriesAssumption DEF QueriesInit, StreamsInv, Told
<1>2. StreamsInv /\ [QueriesNext]_<<cacheVars, queryVars>> => StreamsInv'
  BY StreamsStep
<1> QED BY <1>1, <1>2, StreamsAnswer, PTL DEF QueriesSpec

-----------------------------------------------------------------------------
(* The shared frames (FrameCache).                                          *)

\* Some naturals have a least one.
LEMMA LeastOfSome ==
    ASSUME NEW T \in SUBSET Nat, T # {}
    PROVE  \E m \in T : \A n \in T : m <= n
<1>1. PICK m \in T : \A n \in T : ~(<<n, m>> \in OpToRel(<, Nat))
  BY NatLessThanWellFounded, WFMin
<1>2. \A n \in T : ~(n < m)
  BY <1>1 DEF OpToRel
<1> QED BY <1>2

\* What holds of 0 and of the next of each holds of all.
LEMMA SetOfAll ==
    ASSUME NEW T \in SUBSET Nat, 0 \in T, \A n \in T : n + 1 \in T
    PROVE  T = Nat
<1>1. ASSUME NEW x \in Nat, x \notin T PROVE FALSE
  <2>1. PICK m \in Nat \ T : \A n \in Nat \ T : m <= n
    BY <1>1, LeastOfSome
  <2>2. m - 1 \in Nat /\ m - 1 \in T
    BY <2>1
  <2> QED BY <2>1, <2>2
<1> QED BY <1>1

Entries == [table : Tables, stamp : Nat, version : Nat, size : Nat]

\* The bytes of the first n frames of s, as a table.
SumsOf(f, s) ==
    /\ f \in [0..Len(s) -> Nat] /\ f[0] = 0
    /\ \A n \in 1..Len(s) : f[n] = f[n - 1] + s[n].size

\* The fields of the entries.
LEMMA EntriesAre ==
    ASSUME NEW s \in Seq(Entries)
    PROVE  /\ Len(s) \in Nat /\ DOMAIN s = 1..Len(s)
           /\ \A n \in 1..Len(s) : /\ s[n] \in Entries /\ s[n].table \in Tables /\ s[n].stamp \in Nat
                                  /\ s[n].version \in Nat /\ s[n].size \in Nat
<1>1. \A n \in 1..Len(s) : s[n] \in Entries
  BY ElementOfSeq
<1>2. \A e \in Entries : e.table \in Tables /\ e.stamp \in Nat /\ e.version \in Nat /\ e.size \in Nat
  BY DEF Entries
<1> QED BY <1>1, <1>2

\* Partial sums exist: were there a first place without one, the place before it would give it.
LEMMA SumsExist ==
    ASSUME NEW s \in Seq(Entries)
    PROVE  \E f : SumsOf(f, s)
<1>1. PICK L \in Nat : L = Len(s) /\ \A n \in 1..L : s[n].size \in Nat
  BY EntriesAre
<1> DEFINE T == {k \in Nat : k > L \/ \E f \in [0..k -> Nat] : f[0] = 0 /\ \A n \in 1..k : f[n] = f[n - 1] + s[n].size}
<1>2. 0 \in T
  <2>1. [n \in 0..0 |-> 0] \in [0..0 -> Nat] /\ [n \in 0..0 |-> 0][0] = 0 /\ \A n \in 1..0 : FALSE
    OBVIOUS
  <2> QED BY <2>1
<1>3. ASSUME NEW k \in T PROVE k + 1 \in T
  <2>1. CASE k + 1 > L
    BY <2>1
  <2>2. CASE ~(k + 1 > L)
    <3>0. k \in Nat /\ ~(k > L)
      BY <1>1, <2>2
    <3>1. PICK f \in [0..k -> Nat] : f[0] = 0 /\ \A n \in 1..k : f[n] = f[n - 1] + s[n].size
      BY <3>0
    <3> DEFINE g == [n \in 0..(k + 1) |-> IF n <= k THEN f[n] ELSE f[k] + s[k + 1].size]
    <3>2. s[k + 1].size \in Nat /\ k \in 0..k
      BY <1>1, <2>2
    <3>3. g \in [0..(k + 1) -> Nat] /\ g[0] = 0
      BY <3>1, <3>2, SMTT(40)
    <3>4. \A n \in 1..k : g[n] = f[n] /\ g[n - 1] = f[n - 1]
      OBVIOUS
    <3>5. g[k + 1] = f[k] + s[k + 1].size /\ g[(k + 1) - 1] = f[k]
      OBVIOUS
    <3>6. \A n \in 1..(k + 1) : g[n] = g[n - 1] + s[n].size
      BY <3>1, <3>4, <3>5, SMTT(40)
    <3> HIDE DEF g
    <3>7. \E h \in [0..(k + 1) -> Nat] : h[0] = 0 /\ \A n \in 1..(k + 1) : h[n] = h[n - 1] + s[n].size
      BY <3>3, <3>6
    <3>8. k + 1 \in Nat
      OBVIOUS
    <3> QED BY <3>7, <3>8
  <2> QED BY <2>1, <2>2
<1>4. T = Nat
  <2> HIDE DEF T
  <2>1. T \in SUBSET Nat
    BY DEF T
  <2> QED BY <1>2, <1>3, <2>1, SetOfAll
<1>5. L \in T
  BY <1>4
<1>6. \E f \in [0..L -> Nat] : f[0] = 0 /\ \A n \in 1..L : f[n] = f[n - 1] + s[n].size
  BY <1>5
<1> QED BY <1>1, <1>6 DEF SumsOf

\* Partial sums are the only ones.
LEMMA SumsAreOne ==
    ASSUME NEW s \in Seq(Entries), NEW f, NEW g, SumsOf(f, s), SumsOf(g, s)
    PROVE  f = g
<1>1. Len(s) \in Nat
  OBVIOUS
<1> DEFINE T == {n \in 0..Len(s) : f[n] # g[n]}
<1>2. ASSUME T # {} PROVE FALSE
  <2>1. PICK m \in T : \A n \in T : m <= n
    <3> HIDE DEF T
    <3>1. T \in SUBSET Nat
      BY <1>1 DEF T
    <3> QED BY <1>2, <3>1, LeastOfSome
  <2>2. m \in 1..Len(s)
    BY <1>1 DEF SumsOf
  <2>3. f[m - 1] = g[m - 1]
    <3>1. m - 1 \in 0..Len(s) /\ ~(m <= m - 1)
      BY <1>1, <2>2
    <3> QED BY <2>1, <3>1
  <2> QED BY <2>2, <2>3 DEF SumsOf
<1>3. \A n \in 0..Len(s) : f[n] = g[n]
  BY <1>2
<1> QED BY <1>3 DEF SumsOf

\* The recursive function of the model computes the partial sums.
LEMMA SizesAreSums ==
    ASSUME NEW s \in Seq(Entries)
    PROVE  SumsOf(SizesUpTo(s), s)
<1>1. PICK f : SumsOf(f, s)
  BY SumsExist
<1> DEFINE Rec(h) == h = [n \in 0..Len(s) |-> IF n = 0 THEN 0 ELSE h[n - 1] + s[n].size]
<1>2. Len(s) \in Nat /\ \A n \in 1..Len(s) : s[n].size \in Nat
  BY EntriesAre
<1>3. Rec(f)
  <2>1. \A n \in 0..Len(s) : f[n] = IF n = 0 THEN 0 ELSE f[n - 1] + s[n].size
    BY <1>1, <1>2 DEF SumsOf
  <2> QED BY <1>1, <2>1 DEF SumsOf
<1>4. SizesUpTo(s) = CHOOSE h : Rec(h)
  BY DEF SizesUpTo
<1> HIDE DEF Rec
<1>5. PICK h : h = SizesUpTo(s) /\ Rec(h)
  BY <1>3, <1>4
<1>6. SumsOf(h, s)
  <2>1. DOMAIN h = 0..Len(s) /\ \A n \in 0..Len(s) : h[n] = IF n = 0 THEN 0 ELSE h[n - 1] + s[n].size
    BY <1>5 DEF Rec
  <2>2. h[0] = 0 /\ \A n \in 1..Len(s) : h[n] = h[n - 1] + s[n].size
    BY <1>2, <2>1
  <2> DEFINE T == {n \in 0..Len(s) : h[n] # f[n]}
  <2>3. ASSUME T # {} PROVE FALSE
    <3>1. PICK m \in T : \A n \in T : m <= n
      <4> HIDE DEF T
      <4>1. T \in SUBSET Nat
        BY <1>2 DEF T
      <4> QED BY <2>3, <4>1, LeastOfSome
    <3>2. m \in 1..Len(s)
      BY <1>1, <1>2, <2>2 DEF SumsOf
    <3>3. h[m - 1] = f[m - 1]
      <4>1. m - 1 \in 0..Len(s) /\ ~(m <= m - 1)
        BY <1>2, <3>2
      <4> QED BY <3>1, <4>1
    <3> QED BY <1>1, <2>2, <3>2, <3>3 DEF SumsOf
  <2>4. \A n \in 0..Len(s) : h[n] = f[n]
    BY <2>3
  <2>5. h = f
    BY <1>1, <2>1, <2>4, <1>5 DEF SumsOf, Rec
  <2> QED BY <1>1, <2>5
<1> QED BY <1>5, <1>6

\* The byte count is the last of any partial sums.
LEMMA TotalOf ==
    ASSUME NEW s \in Seq(Entries), NEW f, SumsOf(f, s)
    PROVE  SizesUpTo(s) = f /\ TotalSize(s) = f[Len(s)] /\ TotalSize(s) \in Nat
<1>1. SizesUpTo(s) = f
  BY SizesAreSums, SumsAreOne
<1>2. Len(s) \in 0..Len(s)
  BY EntriesAre
<1> QED BY <1>1, <1>2 DEF SumsOf, TotalSize

\* The three things that happen to the cache, and what becomes of its total.
LEMMA AppendTotal ==
    ASSUME NEW s \in Seq(Entries), NEW e \in Entries
    PROVE  /\ Append(s, e) \in Seq(Entries) /\ Len(Append(s, e)) = Len(s) + 1
           /\ \A i \in 1..Len(s) : Append(s, e)[i] = s[i]
           /\ Append(s, e)[Len(s) + 1] = e
           /\ TotalSize(Append(s, e)) = TotalSize(s) + e.size
<1>1. PICK L, r, f, z :      /\ L \in Nat /\ L = Len(s) /\ r = Append(s, e) /\ f = SizesUpTo(s) /\ z = e.size
                             /\ SumsOf(f, s) /\ z \in Nat
  BY SizesAreSums, EntriesAre DEF Entries
<1>2. /\ r \in Seq(Entries) /\ Len(r) = L + 1 /\ (\A i \in 1..L : r[i] = s[i]) /\ r[L + 1] = e
  BY <1>1, AppendProperties
<1>3. f \in [0..L -> Nat] /\ f[0] = 0 /\ \A n \in 1..L : f[n] = f[n - 1] + s[n].size
  BY <1>1 DEF SumsOf
<1> DEFINE g == [n \in 0..(L + 1) |-> IF n <= L THEN f[n] ELSE f[L] + z]
<1>4. g \in [0..(L + 1) -> Nat] /\ g[0] = 0 /\ g[L + 1] = f[L] + z
  BY <1>1, <1>3
<1>5. \A n \in 1..L : g[n] = f[n] /\ g[n - 1] = f[n - 1]
  BY <1>1
<1>6. g[(L + 1) - 1] = f[L]
  BY <1>1
<1> HIDE DEF g
<1>7. ASSUME NEW n \in 1..(L + 1) PROVE g[n] = g[n - 1] + r[n].size
  <2>1. CASE n \in 1..L
    BY <1>2, <1>3, <1>5, <2>1
  <2>2. CASE n = L + 1
    BY <1>1, <1>2, <1>4, <1>6, <2>2
  <2> QED BY <1>1, <2>1, <2>2
<1>8. SumsOf(g, r)
  BY <1>2, <1>4, <1>7 DEF SumsOf
<1>9. TotalSize(r) = f[L] + z /\ TotalSize(s) = f[L]
  BY <1>1, <1>2, <1>4, <1>8, TotalOf
<1> QED BY <1>1, <1>2, <1>9

\* One entry is taken out.
LEMMA RemoveTotal ==
    ASSUME NEW s \in Seq(Entries), NEW k \in 1..Len(s)
    PROVE  /\ RemoveAt(s, k) \in Seq(Entries) /\ Len(RemoveAt(s, k)) = Len(s) - 1
           /\ \A i \in 1..(Len(s) - 1) : RemoveAt(s, k)[i] = IF i < k THEN s[i] ELSE s[i + 1]
           /\ TotalSize(RemoveAt(s, k)) = TotalSize(s) - s[k].size
<1>1. PICK L, r, f : /\ L \in Nat /\ L = Len(s) /\ r = RemoveAt(s, k) /\ f = SizesUpTo(s) /\ SumsOf(f, s)
                     /\ k \in 1..L /\ \A n \in 1..L : s[n] \in Entries /\ s[n].size \in Nat
  BY SizesAreSums, EntriesAre
<1>2. /\ r \in Seq(Entries) /\ Len(r) = L - 1
      /\ \A i \in 1..(L - 1) : r[i] = IF i < k THEN s[i] ELSE s[i + 1]
  <2>1. PICK a, b : a = SubSeq(s, 1, k - 1) /\ b = SubSeq(s, k + 1, L)
    OBVIOUS
  <2>2. a \in Seq(Entries) /\ Len(a) = k - 1 /\ \A i \in 1..(k - 1) : a[i] = s[i]
    <3>1. \A i \in 1..(k - 1) : s[i] \in Entries
      BY <1>1
    <3>2. /\ a \in Seq(Entries) /\ Len(a) = (IF 1 <= k - 1 THEN (k - 1) - 1 + 1 ELSE 0)
          /\ \A i \in 1..((k - 1) - 1 + 1) : a[i] = s[1 + i - 1]
      BY <1>1, <2>1, <3>1, SubSeqProperties
    <3> QED BY <1>1, <3>2
  <2>3. b \in Seq(Entries) /\ Len(b) = L - k /\ \A i \in 1..(L - k) : b[i] = s[k + i]
    <3>1. \A i \in (k + 1)..L : s[i] \in Entries
      BY <1>1
    <3>2. /\ b \in Seq(Entries) /\ Len(b) = (IF k + 1 <= L THEN L - (k + 1) + 1 ELSE 0)
          /\ \A i \in 1..(L - (k + 1) + 1) : b[i] = s[(k + 1) + i - 1]
      BY <1>1, <2>1, <3>1, SubSeqProperties
    <3> QED BY <1>1, <3>2
  <2>4. r = a \o b
    BY <1>1, <2>1 DEF RemoveAt
  <2>5. /\ r \in Seq(Entries) /\ Len(r) = Len(a) + Len(b)
        /\ \A i \in 1..(Len(a) + Len(b)) : r[i] = IF i <= Len(a) THEN a[i] ELSE b[i - Len(a)]
    BY <2>2, <2>3, <2>4, ConcatProperties
  <2>6. ASSUME NEW i \in 1..(L - 1) PROVE r[i] = IF i < k THEN s[i] ELSE s[i + 1]
    <3>1. r[i] = IF i <= k - 1 THEN a[i] ELSE b[i - (k - 1)]
      BY <1>1, <2>2, <2>3, <2>5, SMTT(40)
    <3>2. CASE i < k
      BY <1>1, <2>2, <3>1, <3>2
    <3>3. CASE ~(i < k)
      <4>1. i - (k - 1) \in 1..(L - k) /\ k + (i - (k - 1)) = i + 1
        BY <1>1, <3>3
      <4>2. b[i - (k - 1)] = s[k + (i - (k - 1))]
        BY <2>3, <4>1
      <4> QED BY <1>1, <3>1, <3>3, <4>1, <4>2
    <3> QED BY <3>2, <3>3
  <2> QED BY <1>1, <2>2, <2>3, <2>5, <2>6
<1>3. f \in [0..L -> Nat] /\ f[0] = 0 /\ \A n \in 1..L : f[n] = f[n - 1] + s[n].size
  BY <1>1 DEF SumsOf
<1>4. PICK z : z = s[k].size /\ z \in Nat
  BY <1>1
\* the sums after k are at least what k adds
<1>5. \A n \in k..L : f[n] >= z
  <2> DEFINE T == {n \in k..L : f[n] < z}
  <2>1. ASSUME T # {} PROVE FALSE
    <3>1. PICK m \in T : \A n \in T : m <= n
      <4> HIDE DEF T
      <4>1. T \in SUBSET Nat
        BY <1>1 DEF T
      <4> QED BY <2>1, <4>1, LeastOfSome
    <3>2. m \in 1..L /\ f[m] = f[m - 1] + s[m].size /\ f[m] < z /\ s[m].size \in Nat
      BY <1>1, <1>3
    <3>3. f[m - 1] \in Nat
      <4>1. m - 1 \in 0..L
        BY <1>1, <3>2
      <4> QED BY <1>3, <4>1
    <3>4. m # k
      BY <1>4, <3>2, <3>3
    <3>5. m - 1 \in k..L /\ ~(m <= m - 1)
      BY <1>1, <3>2, <3>4
    <3>6. m - 1 \in T
      BY <3>2, <3>3, <3>5, <1>4
    <3> QED BY <3>1, <3>5, <3>6
  <2>2. \A n \in k..L : ~(f[n] < z)
    BY <2>1
  <2>3. \A n \in k..L : n \in 0..L /\ f[n] \in Nat
    <3>1. k \in 1..L /\ L \in Nat
      BY <1>1
    <3>2. \A n \in k..L : n \in 0..L
      BY <3>1
    <3>3. \A n \in 0..L : f[n] \in Nat
      BY <1>3
    <3> QED BY <3>2, <3>3
  <2> QED BY <1>4, <2>2, <2>3
<1> DEFINE g == [n \in 0..(L - 1) |-> IF n < k THEN f[n] ELSE f[n + 1] - z]
<1>6. g \in [0..(L - 1) -> Nat]
  <2>1. ASSUME NEW n \in 0..(L - 1) PROVE (IF n < k THEN f[n] ELSE f[n + 1] - z) \in Nat
    <3>1. n \in 0..L /\ n + 1 \in 0..L
      BY <1>1
    <3>2. ~(n < k) => n + 1 \in k..L
      BY <1>1
    <3> QED BY <1>3, <1>4, <1>5, <3>1, <3>2, SMTT(40)
  <2> QED BY <2>1
<1>7. g[0] = 0
  BY <1>1, <1>3
<1>8. ASSUME NEW n \in 1..(L - 1) PROVE g[n] = g[n - 1] + r[n].size
  <2>0. n \in 1..L /\ n + 1 \in 1..L /\ n - 1 \in 0..L /\ (n + 1) - 1 = n
    BY <1>1
  <2>1. /\ g[n] = IF n < k THEN f[n] ELSE f[n + 1] - z
        /\ g[n - 1] = IF n - 1 < k THEN f[n - 1] ELSE f[(n - 1) + 1] - z
    BY <1>1
  <2>2. f[n] = f[n - 1] + s[n].size /\ f[n + 1] = f[n] + s[n + 1].size /\ s[n].size \in Nat /\ s[n + 1].size \in Nat
    BY <1>1, <1>3, <2>0
  <2>3. f[n] \in Nat /\ f[n + 1] \in Nat /\ f[n - 1] \in Nat
    BY <1>3, <2>0, SMTT(40)
  <2> HIDE DEF g
  <2>4. CASE n < k
    <3>1. r[n] = s[n] /\ n - 1 < k
      BY <1>1, <1>2, <2>4
    <3> QED BY <2>1, <2>2, <2>4, <3>1
  <2>5. CASE n = k
    <3>1. r[n] = s[n + 1] /\ n - 1 < k /\ z = s[n].size
      BY <1>1, <1>2, <1>4, <2>5
    <3>2. g[n] = f[n + 1] - z /\ g[n - 1] = f[n - 1]
      BY <1>1, <2>1, <2>5, <3>1
    <3>3. PICK x \in Nat, w \in Nat : x = f[n - 1] /\ w = r[n].size /\ w = s[n + 1].size
      BY <2>2, <2>3, <3>1
    <3>4. f[n] = x + z /\ f[n + 1] = (x + z) + w
      BY <2>2, <3>1, <3>3
    <3>5. ((x + z) + w) - z = x + w
      <4>1. \A u, v, y \in Nat : ((u + v) + y) - v = u + y
        OBVIOUS
      <4> QED BY <1>4, <3>3, <4>1
    <3> QED BY <3>2, <3>3, <3>4, <3>5
  <2>6. CASE n > k
    <3>1. r[n] = s[n + 1] /\ ~(n - 1 < k) /\ ~(n < k) /\ (n - 1) + 1 = n
      BY <1>1, <1>2, <2>6
    <3>2. g[n] = f[n + 1] - z /\ g[n - 1] = f[n] - z
      BY <2>1, <3>1
    <3>3. PICK x \in Nat, w \in Nat : x = f[n] /\ w = r[n].size /\ w = s[n + 1].size
      BY <2>2, <2>3, <3>1
    <3>4. f[n + 1] = x + w
      BY <2>2, <3>3
    <3>5. (x + w) - z = (x - z) + w
      <4>1. \A a, b, c \in Nat : (a + b) - c = (a - c) + b
        OBVIOUS
      <4> QED BY <1>4, <4>1
    <3> QED BY <3>2, <3>3, <3>4, <3>5
  <2> QED BY <1>1, <2>4, <2>5, <2>6
<1>9. g[L - 1] = f[L] - z
  <2>1. CASE L - 1 < k
    <3>1. L = k /\ L - 1 \in 0..L /\ L \in 1..L
      BY <1>1, <2>1
    <3>2. f[L] = f[L - 1] + z /\ f[L - 1] \in Nat
      BY <1>3, <1>4, <3>1
    <3> QED BY <1>1, <1>4, <2>1, <3>2
  <2>2. CASE ~(L - 1 < k)
    <3>1. L - 1 \in 0..(L - 1) /\ (L - 1) + 1 = L
      BY <1>1
    <3> QED BY <2>2, <3>1
  <2> QED BY <2>1, <2>2
<1> HIDE DEF g
<1>10. SumsOf(g, r)
  BY <1>2, <1>6, <1>7, <1>8 DEF SumsOf
<1>11. TotalSize(r) = f[L] - z /\ TotalSize(s) = f[L]
  BY <1>1, <1>2, <1>9, <1>10, TotalOf
<1> QED BY <1>1, <1>2, <1>4, <1>11

\* The oldest entries are dropped.
LEMMA DropTotal ==
    ASSUME NEW s \in Seq(Entries), NEW m \in 0..Len(s)
    PROVE  /\ SubSeq(s, m + 1, Len(s)) \in Seq(Entries) /\ Len(SubSeq(s, m + 1, Len(s))) = Len(s) - m
           /\ \A i \in 1..(Len(s) - m) : SubSeq(s, m + 1, Len(s))[i] = s[m + i]
           /\ TotalSize(SubSeq(s, m + 1, Len(s))) = TotalSize(s) - SizesUpTo(s)[m]
           /\ SizesUpTo(s)[m] \in Nat /\ SizesUpTo(s)[0] = 0
<1>1. PICK L, r, f : /\ L \in Nat /\ L = Len(s) /\ r = SubSeq(s, m + 1, L) /\ f = SizesUpTo(s) /\ SumsOf(f, s)
                     /\ m \in 0..L /\ \A n \in 1..L : s[n] \in Entries /\ s[n].size \in Nat
  BY SizesAreSums, EntriesAre
<1>2. r \in Seq(Entries) /\ Len(r) = L - m /\ \A i \in 1..(L - m) : r[i] = s[m + i]
  <2>1. \A i \in (m + 1)..L : s[i] \in Entries
    BY <1>1
  <2>2. /\ r \in Seq(Entries) /\ Len(r) = (IF m + 1 <= L THEN L - (m + 1) + 1 ELSE 0)
        /\ \A i \in 1..(L - (m + 1) + 1) : r[i] = s[(m + 1) + i - 1]
    BY <1>1, <2>1, SubSeqProperties
  <2> QED BY <1>1, <2>2, SMTT(40)
<1>3. f \in [0..L -> Nat] /\ f[0] = 0 /\ \A n \in 1..L : f[n] = f[n - 1] + s[n].size
  BY <1>1 DEF SumsOf
<1>4. PICK z : z = f[m] /\ z \in Nat
  BY <1>1, <1>3
<1>5. \A n \in m..L : f[n] >= z
  <2> DEFINE T == {n \in m..L : f[n] < z}
  <2>1. ASSUME T # {} PROVE FALSE
    <3>1. PICK k \in T : \A n \in T : k <= n
      <4> HIDE DEF T
      <4>1. T \in SUBSET Nat
        BY <1>1 DEF T
      <4> QED BY <2>1, <4>1, LeastOfSome
    <3>2. k # m /\ k \in m..L /\ f[k] < z
      BY <1>4
    <3>3. k \in 1..L /\ k - 1 \in m..L /\ ~(k <= k - 1)
      BY <1>1, <3>2
    <3>4. f[k] = f[k - 1] + s[k].size /\ s[k].size \in Nat /\ f[k - 1] \in Nat
      <4>1. k - 1 \in 0..L
        BY <1>1, <3>3
      <4> QED BY <1>1, <1>3, <3>3, <4>1
    <3>5. k - 1 \in T
      BY <1>4, <3>2, <3>3, <3>4
    <3> QED BY <3>1, <3>3, <3>5
  <2>2. \A n \in m..L : ~(f[n] < z)
    BY <2>1
  <2>3. \A n \in m..L : n \in 0..L /\ f[n] \in Nat
    BY <1>1, <1>3, SMTT(40)
  <2> QED BY <1>4, <2>2, <2>3
<1> DEFINE g == [n \in 0..(L - m) |-> f[m + n] - z]
<1>6. g \in [0..(L - m) -> Nat] /\ g[0] = 0 /\ g[L - m] = f[L] - z
  <2>1. ASSUME NEW n \in 0..(L - m) PROVE f[m + n] - z \in Nat
    <3>1. m + n \in m..L /\ m + n \in 0..L
      BY <1>1
    <3>2. f[m + n] \in Nat /\ f[m + n] >= z
      BY <1>3, <1>5, <3>1
    <3> QED BY <1>4, <3>2
  <2>2. m + 0 = m /\ m + (L - m) = L /\ 0 \in 0..(L - m) /\ L - m \in 0..(L - m) /\ z - z = 0
    BY <1>1, <1>4
  <2> QED BY <1>4, <2>1, <2>2
<1>7. ASSUME NEW n \in 1..(L - m) PROVE g[n] = g[n - 1] + r[n].size
  <2>1. m + n \in 1..L /\ (m + n) - 1 = m + (n - 1) /\ m + (n - 1) \in 0..L /\ n \in 0..(L - m) /\ n - 1 \in 0..(L - m)
    BY <1>1
  <2>2. f[m + n] = f[m + (n - 1)] + s[m + n].size /\ s[m + n].size \in Nat /\ f[m + (n - 1)] \in Nat
    BY <1>1, <1>3, <2>1
  <2>3. g[n] = f[m + n] - z /\ g[n - 1] = f[m + (n - 1)] - z /\ r[n] = s[m + n]
    BY <1>2, <2>1
  <2> HIDE DEF g
  <2>4. PICK x \in Nat, w \in Nat : x = f[m + (n - 1)] /\ w = r[n].size /\ w = s[m + n].size
    BY <2>2, <2>3
  <2>5. f[m + n] = x + w
    BY <2>2, <2>4
  <2>6. (x + w) - z = (x - z) + w
    <3>1. \A a, b, c \in Nat : (a + b) - c = (a - c) + b
      OBVIOUS
    <3> QED BY <1>4, <3>1
  <2> QED BY <2>3, <2>4, <2>5, <2>6
<1> HIDE DEF g
<1>8. SumsOf(g, r)
  BY <1>2, <1>6, <1>7 DEF SumsOf
<1>9. TotalSize(r) = f[L] - z /\ TotalSize(s) = f[L]
  BY <1>1, <1>2, <1>6, <1>8, TotalOf
<1> QED BY <1>1, <1>2, <1>3, <1>4, <1>9

Loads == [at : {"none", "wanted", "reading", "read", "have", "not_indexed", "corrupt"}, stamp : Nat, version : Nat]

\* What was read is not older than the stat that went before it, and not newer than
\* the file is now.
EntryOK(e, f, w) == e.version \in 1..w /\ e.stamp <= e.version /\ (f[e.table] # 0 => e.version <= f[e.table])

LoadOK(l, t, f, w) ==
    /\ l.at \in {"reading", "read"} => l.stamp \in 1..w /\ (f[t] # 0 => l.stamp <= f[t])
    /\ l.at = "read" => l.version \in l.stamp..w /\ (f[t] # 0 => l.version <= f[t])
    /\ l.at = "have" => l.version >= l.stamp

Apart(s) == \A n, m \in DOMAIN s : s[n].table = s[m].table => n = m

FilesOK(f, w) == w \in 0..MaxWrites /\ f \in [Tables -> 0..w]
HoldsOK(s, f, w) == s \in Seq(Entries) /\ Apart(s) /\ \A n \in DOMAIN s : EntryOK(s[n], f, w)
BytesOK(s, b) == b = TotalSize(s) /\ (b <= Budget \/ Len(s) = 1)
LoadsOK(ld, f, w) == ld \in [Askers -> [Tables -> Loads]] /\ \A a \in Askers, t \in Tables : LoadOK(ld[a][t], t, f, w)

CacheInv ==
    /\ FilesOK(file, writes)
    /\ HoldsOK(entries, file, writes)
    /\ BytesOK(entries, bytes)
    /\ LoadsOK(load, file, writes)

\* The bounds are naturals.
LEMMA CacheNumbers == Budget \in Nat /\ MaxWrites \in Nat /\ \A v \in 1..MaxWrites : FrameSizes[v] \in Nat
<1>1. FrameSizes \in Seq(Nat) /\ Budget \in Nat
  BY CacheAssumption
<1> QED BY <1>1 DEF MaxWrites

\* A table's file is written anew or goes; what the cache and the loads know of it
\* stays as old.
LEMMA FilesMove ==
    ASSUME CacheInv, NEW f, NEW w, w \in writes..MaxWrites, f \in [Tables -> 0..w],
           \A t \in Tables : f[t] \in {file[t], 0} \/ f[t] > writes
    PROVE  FilesOK(f, w) /\ HoldsOK(entries, f, w) /\ LoadsOK(load, f, w)
<1>1. MaxWrites \in Nat /\ writes \in 0..MaxWrites /\ file \in [Tables -> 0..writes] /\ w \in Nat
  BY CacheNumbers DEF CacheInv, FilesOK
<1>2. FilesOK(f, w)
  BY <1>1 DEF FilesOK
<1>3. HoldsOK(entries, f, w)
  <2>1. ASSUME NEW n \in DOMAIN entries PROVE EntryOK(entries[n], f, w)
    <3>1. EntryOK(entries[n], file, writes) /\ entries[n].table \in Tables /\ entries[n].stamp \in Nat /\ entries[n].version \in Nat
      BY EntriesAre DEF CacheInv, HoldsOK
    <3>2. PICK t \in Tables : t = entries[n].table
      BY <3>1
    <3>3. f[t] \in {file[t], 0} \/ f[t] > writes
      BY <3>2
    <3>4. f[t] \in Nat /\ file[t] \in Nat
      BY <1>1, <3>2
    <3> QED BY <1>1, <3>1, <3>2, <3>3, <3>4 DEF EntryOK
  <2> QED BY <2>1 DEF CacheInv, HoldsOK
<1>4. LoadsOK(load, f, w)
  <2>1. ASSUME NEW a \in Askers, NEW t \in Tables PROVE LoadOK(load[a][t], t, f, w)
    <3>1. LoadOK(load[a][t], t, file, writes) /\ load[a][t] \in Loads
      BY DEF CacheInv, LoadsOK
    <3>2. load[a][t].stamp \in Nat /\ load[a][t].version \in Nat
      BY <3>1 DEF Loads
    <3>3. f[t] \in {file[t], 0} \/ f[t] > writes
      OBVIOUS
    <3>4. f[t] \in Nat /\ file[t] \in Nat
      BY <1>1
    <3> QED BY <1>1, <3>1, <3>2, <3>3, <3>4 DEF LoadOK
  <2> QED BY <2>1 DEF CacheInv, LoadsOK
<1> QED BY <1>2, <1>3, <1>4

\* pop(key): the cache without one table.
LEMMA WithoutIs ==
    ASSUME CacheInv, NEW t \in Tables
    PROVE  /\ Without(t) \in Seq(Entries) /\ Len(Without(t)) <= Len(entries)
           /\ Apart(Without(t))
           /\ \A n \in DOMAIN Without(t) : EntryOK(Without(t)[n], file, writes) /\ Without(t)[n].table # t
           /\ TotalSize(Without(t)) = bytes - SizeOf(t)
           /\ bytes \in Nat /\ SizeOf(t) \in Nat
           /\ Cached(t) => Len(Without(t)) = Len(entries) - 1
           /\ ~Cached(t) => Without(t) = entries /\ SizeOf(t) = 0
           /\ Cached(t) => /\ PlaceOf(t) \in DOMAIN entries /\ entries[PlaceOf(t)].table = t
                           /\ entries[PlaceOf(t)] \in Entries /\ SizeOf(t) = entries[PlaceOf(t)].size
<1>1. /\ entries \in Seq(Entries) /\ Apart(entries) /\ bytes = TotalSize(entries) /\ DOMAIN entries = 1..Len(entries)
      /\ (\A n \in DOMAIN entries : EntryOK(entries[n], file, writes)) /\ Len(entries) \in Nat
  BY EntriesAre DEF CacheInv, HoldsOK, BytesOK
<1>2. bytes \in Nat
  <2>1. SumsOf(SizesUpTo(entries), entries)
    BY <1>1, SizesAreSums
  <2> QED BY <1>1, <2>1, TotalOf
<1>3. CASE ~Cached(t)
  <2>1. Without(t) = entries /\ SizeOf(t) = 0
    BY <1>3 DEF Without, SizeOf
  <2>2. \A n \in DOMAIN entries : entries[n].table # t
    BY <1>3 DEF Cached
  <2>3. TotalSize(Without(t)) = bytes - SizeOf(t) /\ SizeOf(t) \in Nat
    BY <1>1, <1>2, <2>1
  <2>4. Len(Without(t)) <= Len(entries)
    BY <1>1, <2>1
  <2>5. \A n \in DOMAIN Without(t) : EntryOK(Without(t)[n], file, writes) /\ Without(t)[n].table # t
    BY <1>1, <2>1, <2>2
  <2>6. Without(t) \in Seq(Entries) /\ Apart(Without(t))
    BY <1>1, <2>1
  <2> QED BY <1>2, <1>3, <2>1, <2>3, <2>4, <2>5, <2>6
<1>4. CASE Cached(t)
  <2>1. PICK k : k = PlaceOf(t) /\ k \in 1..Len(entries) /\ entries[k].table = t
    BY <1>1, <1>4 DEF Cached, PlaceOf
  <2>2. PICK w : w = Without(t) /\ w = RemoveAt(entries, k)
    BY <1>4, <2>1, SMTT(40) DEF Without
  <2>3. /\ w \in Seq(Entries) /\ Len(w) = Len(entries) - 1
        /\ \A i \in 1..(Len(entries) - 1) : w[i] = IF i < k THEN entries[i] ELSE entries[i + 1]
        /\ TotalSize(w) = TotalSize(entries) - entries[k].size
    BY <1>1, <2>1, <2>2, RemoveTotal
  <2>4. DOMAIN w = 1..(Len(entries) - 1)
    BY <2>3, EntriesAre
  <2>5. \A i \in DOMAIN w : \E j \in DOMAIN entries : j # k /\ w[i] = entries[j] /\ (IF i < k THEN j = i ELSE j = i + 1)
    BY <1>1, <2>1, <2>3, <2>4
  <2>6. \A i \in DOMAIN w : EntryOK(w[i], file, writes) /\ w[i].table # t
    BY <1>1, <2>1, <2>5 DEF Apart
  <2>7. ASSUME NEW n \in DOMAIN w, NEW m \in DOMAIN w, w[n].table = w[m].table PROVE n = m
    <3>1. PICK i \in DOMAIN entries : w[n] = entries[i] /\ (IF n < k THEN i = n ELSE i = n + 1)
      BY <2>5
    <3>2. PICK j \in DOMAIN entries : w[m] = entries[j] /\ (IF m < k THEN j = m ELSE j = m + 1)
      BY <2>5
    <3>3. i = j
      BY <1>1, <2>7, <3>1, <3>2 DEF Apart
    <3> QED BY <1>1, <2>1, <2>4, <3>1, <3>2, <3>3
  <2>8. Apart(w)
    BY <2>7 DEF Apart
  <2>9. SizeOf(t) = entries[k].size /\ entries[k].size \in Nat /\ entries[k] \in Entries
    BY <1>1, <1>4, <2>1, EntriesAre DEF SizeOf
  <2>10. TotalSize(w) = bytes - SizeOf(t)
    BY <1>1, <2>3, <2>9
  <2> QED BY <1>1, <1>2, <1>4, <2>1, <2>2, <2>3, <2>6, <2>8, <2>9, <2>10
<1> QED BY <1>3, <1>4

\* An entry of another table goes to the recent end.
LEMMA AppendHolds ==
    ASSUME NEW s, NEW f, NEW w, HoldsOK(s, f, w), NEW e \in Entries, EntryOK(e, f, w),
           \A n \in DOMAIN s : s[n].table # e.table
    PROVE  HoldsOK(Append(s, e), f, w)
<1>1. PICK L, r : /\ L \in Nat /\ L = Len(s) /\ r = Append(s, e) /\ s \in Seq(Entries) /\ DOMAIN s = 1..L
                  /\ r \in Seq(Entries) /\ DOMAIN r = 1..(L + 1)
                  /\ (\A i \in 1..L : r[i] = s[i]) /\ r[L + 1] = e
  <2>1. s \in Seq(Entries)
    BY DEF HoldsOK
  <2>2. /\ Append(s, e) \in Seq(Entries) /\ Len(Append(s, e)) = Len(s) + 1
        /\ (\A i \in 1..Len(s) : Append(s, e)[i] = s[i]) /\ Append(s, e)[Len(s) + 1] = e
    BY <2>1, AppendTotal
  <2>3. DOMAIN Append(s, e) = 1..Len(Append(s, e))
    BY <2>2, EntriesAre
  <2> QED BY <2>1, <2>2, <2>3, EntriesAre
<1>2. \A n \in DOMAIN r : (n \in DOMAIN s /\ r[n] = s[n]) \/ (n = L + 1 /\ r[n] = e)
  BY <1>1
<1>3. \A n \in DOMAIN r : EntryOK(r[n], f, w)
  BY <1>2 DEF HoldsOK
<1>4. Apart(r)
  BY <1>1, <1>2 DEF HoldsOK, Apart
<1> QED BY <1>1, <1>3, <1>4 DEF HoldsOK

\* What is left of the cache after evictions is as good as it was.
LEMMA DropHolds ==
    ASSUME NEW s, NEW f, NEW w, HoldsOK(s, f, w), NEW m \in 0..Len(s)
    PROVE  HoldsOK(SubSeq(s, m + 1, Len(s)), f, w)
<1>1. PICK L, r : /\ L \in Nat /\ L = Len(s) /\ r = SubSeq(s, m + 1, L) /\ s \in Seq(Entries) /\ DOMAIN s = 1..L
                  /\ r \in Seq(Entries) /\ DOMAIN r = 1..(L - m) /\ m \in 0..L
                  /\ (\A i \in 1..(L - m) : r[i] = s[m + i])
  <2>1. s \in Seq(Entries)
    BY DEF HoldsOK
  <2>2. SubSeq(s, m + 1, Len(s)) \in Seq(Entries) /\ Len(SubSeq(s, m + 1, Len(s))) = Len(s) - m
        /\ \A i \in 1..(Len(s) - m) : SubSeq(s, m + 1, Len(s))[i] = s[m + i]
    BY <2>1, DropTotal
  <2>3. DOMAIN SubSeq(s, m + 1, Len(s)) = 1..Len(SubSeq(s, m + 1, Len(s)))
    BY <2>2, EntriesAre
  <2> QED BY <2>1, <2>2, <2>3, EntriesAre
<1>2. \A n \in DOMAIN r : m + n \in DOMAIN s /\ r[n] = s[m + n]
  BY <1>1
<1>3. \A n \in DOMAIN r : EntryOK(r[n], f, w)
  BY <1>2 DEF HoldsOK
<1>4. ASSUME NEW i \in DOMAIN r, NEW j \in DOMAIN r, r[i].table = r[j].table PROVE i = j
  <2>1. m + i = m + j
    BY <1>2, <1>4 DEF HoldsOK, Apart
  <2> QED BY <1>1, <2>1
<1> QED BY <1>1, <1>3, <1>4 DEF HoldsOK, Apart

\* An empty cache holds no bytes.
LEMMA NothingIsHeld ==
    ASSUME NEW s \in Seq(Entries), Len(s) = 0
    PROVE  TotalSize(s) = 0
<1>1. SumsOf(SizesUpTo(s), s)
  BY SizesAreSums
<1> QED BY <1>1 DEF SumsOf, TotalSize

\* The loop of _insert: it ends within the budget or at the frame that came in.
LEMMA EvictionsAre ==
    ASSUME NEW s \in Seq(Entries), Len(s) >= 1
    PROVE  \E n \in 0..(Len(s) - 1) :
             /\ Evictions(s, TotalSize(s)) = [cached |-> SubSeq(s, n + 1, Len(s)), total |-> TotalSize(SubSeq(s, n + 1, Len(s)))]
             /\ TotalSize(SubSeq(s, n + 1, Len(s))) <= Budget \/ Len(SubSeq(s, n + 1, Len(s))) = 1
<1>1. PICK L, all, sums : L \in Nat /\ L >= 1 /\ L = Len(s) /\ all = TotalSize(s) /\ sums = SizesUpTo(s) /\ all \in Nat
  <2>1. TotalSize(s) \in Nat
    BY SizesAreSums, TotalOf
  <2> QED BY <2>1, EntriesAre
<1>2. \A n \in 0..L : sums[n] \in Nat
  BY <1>1, DropTotal
<1> DEFINE enough == {n \in 0..L - 1 : all <= Budget + sums[n]}
           last0 == IF enough = {} THEN L - 1 ELSE CHOOSE m \in enough : \A o \in enough : m <= o
<1>3. Evictions(s, all) = [cached |-> SubSeq(s, last0 + 1, L), total |-> all - sums[last0]]
  BY <1>1 DEF Evictions
<1>4. enough # {} => last0 \in enough
  <2>1. enough \in SUBSET Nat
    BY <1>1
  <2> HIDE DEF enough
  <2>2. enough # {} => \E m \in enough : \A o \in enough : m <= o
    BY <2>1, LeastOfSome
  <2> QED BY <2>2
<1>5. last0 \in 0..(L - 1) /\ (all <= Budget + sums[last0] \/ last0 = L - 1)
  <2>1. CASE enough = {}
    BY <1>1, <2>1
  <2>2. CASE enough # {}
    BY <1>1, <1>4, <2>2
  <2> QED BY <2>1, <2>2
<1> HIDE DEF last0
<1>6. PICK n \in 0..(L - 1) : n = last0 /\ n \in 0..Len(s)
  BY <1>1, <1>5
<1>7. PICK r, t : r = SubSeq(s, n + 1, L) /\ t = TotalSize(r) /\ Len(r) = L - n /\ t = all - sums[n] /\ sums[n] \in Nat
  BY <1>1, <1>2, <1>6, DropTotal
<1>8. t <= Budget \/ Len(r) = 1
  BY <1>1, <1>5, <1>6, <1>7, CacheNumbers
<1>9. Evictions(s, all) = [cached |-> r, total |-> t]
  BY <1>3, <1>6, <1>7
<1> QED BY <1>1, <1>6, <1>7, <1>8, <1>9

\* One get() moves.
LEMMA LoadMoves ==
    ASSUME LoadsOK(load, file, writes), NEW a \in Askers, NEW t \in Tables,
           NEW l \in Loads, LoadOK(l, t, file, writes)
    PROVE  LoadsOK([load EXCEPT ![a][t] = l], file, writes)
<1> DEFINE ld == [load EXCEPT ![a][t] = l]
<1>1. load \in [Askers -> [Tables -> Loads]]
  BY DEF LoadsOK
<1>2. ld \in [Askers -> [Tables -> Loads]] /\ \A b \in Askers, u \in Tables : ld[b][u] = IF b = a /\ u = t THEN l ELSE load[b][u]
  BY <1>1
<1> HIDE DEF ld
<1>3. \A b \in Askers, u \in Tables : LoadOK(ld[b][u], u, file, writes)
  BY <1>2 DEF LoadsOK
<1>4. LoadsOK(ld, file, writes)
  BY <1>2, <1>3 DEF LoadsOK
<1> QED BY <1>4 DEF ld

\* get: a hit moves its entry to the recent end, a miss begins to read.
LEMMA CacheLookup ==
    ASSUME CacheInv, NEW a \in Askers, NEW t \in Tables, Lookup(a, t)
    PROVE  CacheInv'
<1>1. /\ UNCHANGED <<file, writes>>
      /\ FilesOK(file, writes) /\ HoldsOK(entries, file, writes) /\ BytesOK(entries, bytes) /\ LoadsOK(load, file, writes)
      /\ MaxWrites \in Nat /\ writes \in 0..MaxWrites /\ file[t] \in 0..writes
  BY CacheNumbers DEF CacheInv, FilesOK, Lookup
<1>2. HoldsOK(Without(t), file, writes)
  BY WithoutIs DEF HoldsOK
<1>3. CASE Cached(t) /\ Valid(entries[PlaceOf(t)], t)
  <2>1. PICK e \in Entries : /\ e = entries[PlaceOf(t)] /\ e.table = t /\ SizeOf(t) = e.size /\ e.size \in Nat
                             /\ EntryOK(e, file, writes) /\ e.stamp = file[t] /\ e.stamp \in Nat /\ e.version \in Nat
    <3>1. PlaceOf(t) \in DOMAIN entries /\ entries[PlaceOf(t)].table = t /\ entries[PlaceOf(t)] \in Entries
          /\ SizeOf(t) = entries[PlaceOf(t)].size
      BY <1>3, WithoutIs
    <3>2. EntryOK(entries[PlaceOf(t)], file, writes)
      BY <1>1, <3>1 DEF HoldsOK
    <3> QED BY <1>3, <3>1, <3>2 DEF Entries, Valid
  <2>2. /\ entries' = Append(Without(t), e) /\ bytes' = bytes
        /\ load' = [load EXCEPT ![a][t] = LoadAt("have", file[t], e.version)]
    BY <1>3, <2>1 DEF Lookup
  <2>3. HoldsOK(Append(Without(t), e), file, writes)
    BY <1>2, <2>1, AppendHolds, WithoutIs
  <2>4. BytesOK(Append(Without(t), e), bytes)
    <3>1. /\ Without(t) \in Seq(Entries) /\ TotalSize(Without(t)) = bytes - e.size /\ bytes \in Nat
          /\ Len(Without(t)) = Len(entries) - 1
      BY <1>3, <2>1, WithoutIs
    <3>2. Len(Append(Without(t), e)) = Len(Without(t)) + 1 /\ TotalSize(Append(Without(t), e)) = TotalSize(Without(t)) + e.size
      BY <3>1, AppendTotal
    <3>3. Len(entries) \in Nat
      BY <1>1, EntriesAre DEF HoldsOK
    <3>4. TotalSize(Append(Without(t), e)) = bytes /\ Len(Append(Without(t), e)) = Len(entries)
      BY <2>1, <3>1, <3>2, <3>3
    <3> QED BY <1>1, <3>4 DEF BytesOK
  <2>5. LoadsOK(load', file, writes)
    <3>1. LoadAt("have", file[t], e.version) \in Loads /\ LoadOK(LoadAt("have", file[t], e.version), t, file, writes)
      BY <2>1 DEF LoadAt, Loads, LoadOK, EntryOK
    <3> QED BY <1>1, <2>2, <3>1, LoadMoves
  <2> QED BY <1>1, <2>2, <2>3, <2>4, <2>5 DEF CacheInv
<1>4. CASE ~(Cached(t) /\ Valid(entries[PlaceOf(t)], t))
  <2>1. PICK l : /\ l = (IF file[t] = 0 THEN LoadAt("not_indexed", 0, 0) ELSE LoadAt("reading", file[t], 0))
                 /\ load' = [load EXCEPT ![a][t] = l]
                 /\ entries' = Without(t) /\ bytes' = bytes - SizeOf(t)
    BY <1>4 DEF Lookup
  <2>2. BytesOK(Without(t), bytes - SizeOf(t))
    <3>1. /\ Without(t) \in Seq(Entries) /\ TotalSize(Without(t)) = bytes - SizeOf(t) /\ bytes \in Nat /\ SizeOf(t) \in Nat
          /\ Cached(t) => Len(Without(t)) = Len(entries) - 1
          /\ ~Cached(t) => Without(t) = entries /\ SizeOf(t) = 0
      BY WithoutIs
    <3>2. bytes <= Budget \/ Len(entries) = 1
      BY <1>1 DEF BytesOK
    <3>3. CASE bytes <= Budget
      BY <3>1, <3>3, CacheNumbers DEF BytesOK
    <3>4. CASE Len(entries) = 1 /\ Cached(t)
      <4>1. TotalSize(Without(t)) = 0
        <5>1. Len(Without(t)) = 0
          BY <3>1, <3>4
        <5> QED BY <3>1, <5>1, NothingIsHeld
      <4> QED BY <3>1, <4>1, CacheNumbers DEF BytesOK
    <3>5. CASE Len(entries) = 1 /\ ~Cached(t)
      BY <3>1, <3>5 DEF BytesOK
    <3> QED BY <3>2, <3>3, <3>4, <3>5
  <2>3. l \in Loads /\ LoadOK(l, t, file, writes)
    BY <1>1, <2>1 DEF LoadAt, Loads, LoadOK
  <2>4. LoadsOK(load', file, writes)
    BY <1>1, <2>1, <2>3, LoadMoves
  <2> QED BY <1>1, <1>2, <2>1, <2>2, <2>4 DEF CacheInv
<1> QED BY <1>3, <1>4

\* The thread has stamped and read the file, or it was not there.
LEMMA CacheRead ==
    ASSUME CacheInv, NEW a \in Askers, NEW t \in Tables, Read(a, t) \/ ReadFails(a, t)
    PROVE  CacheInv'
<1>1. /\ UNCHANGED <<file, writes, entries, bytes>>
      /\ FilesOK(file, writes) /\ HoldsOK(entries, file, writes) /\ BytesOK(entries, bytes) /\ LoadsOK(load, file, writes)
      /\ MaxWrites \in Nat /\ writes \in 0..MaxWrites /\ file[t] \in 0..writes
  BY CacheNumbers DEF CacheInv, FilesOK, Read, ReadFails
<1>2. PICK m \in Loads : m = load[a][t] /\ LoadOK(m, t, file, writes) /\ m.at = "reading" /\ m.stamp \in Nat
  BY <1>1 DEF LoadsOK, Loads, Read, ReadFails
<1>3. PICK l : /\ load' = [load EXCEPT ![a][t] = l]
               /\ \/ l = LoadAt("not_indexed", m.stamp, 0)
                  \/ file[t] # 0 /\ l = LoadAt("read", m.stamp, file[t])
                  \/ l = LoadAt("corrupt", m.stamp, 0)
  <2>1. load \in [Askers -> [Tables -> Loads]]
    BY <1>1 DEF LoadsOK
  <2>2. CASE Read(a, t)
    BY <1>2, <2>1, <2>2 DEF Read
  <2>3. CASE ReadFails(a, t)
    BY <1>2, <2>1, <2>3 DEF ReadFails
  <2> QED BY <2>2, <2>3
<1>4. l \in Loads /\ LoadOK(l, t, file, writes)
  BY <1>1, <1>2, <1>3 DEF LoadAt, Loads, LoadOK
<1>5. LoadsOK(load', file, writes)
  BY <1>1, <1>3, <1>4, LoadMoves
<1> QED BY <1>1, <1>5 DEF CacheInv

\* _insert: replace, append, evict.
LEMMA CacheInsert ==
    ASSUME CacheInv, NEW a \in Askers, NEW t \in Tables, InsertFrame(a, t)
    PROVE  CacheInv'
<1>1. /\ UNCHANGED <<file, writes>>
      /\ FilesOK(file, writes) /\ HoldsOK(entries, file, writes) /\ BytesOK(entries, bytes) /\ LoadsOK(load, file, writes)
      /\ MaxWrites \in Nat /\ writes \in 0..MaxWrites /\ file[t] \in 0..writes
  BY CacheNumbers DEF CacheInv, FilesOK, InsertFrame
<1>2. PICK m \in Loads : /\ m = load[a][t] /\ LoadOK(m, t, file, writes) /\ m.at = "read" /\ m.stamp \in Nat /\ m.version \in Nat
                         /\ m.version \in 1..MaxWrites /\ m.version \in 1..writes /\ m.stamp <= m.version
  <2>1. load[a][t] \in Loads /\ LoadOK(load[a][t], t, file, writes) /\ load[a][t].at = "read"
    BY <1>1 DEF LoadsOK, InsertFrame
  <2>2. load[a][t].stamp \in Nat /\ load[a][t].version \in Nat
    BY <2>1 DEF Loads
  <2> QED BY <1>1, <2>1, <2>2 DEF LoadOK
<1>3. PICK e \in Entries : /\ e = [table |-> t, stamp |-> m.stamp, version |-> m.version, size |-> FrameSizes[m.version]]
                           /\ e.table = t /\ e.size \in Nat /\ EntryOK(e, file, writes)
  <2>1. FrameSizes[m.version] \in Nat
    BY <1>2, CacheNumbers
  <2> DEFINE x == [table |-> t, stamp |-> m.stamp, version |-> m.version, size |-> FrameSizes[m.version]]
  <2>2. x \in Entries /\ x.table = t /\ x.size \in Nat /\ x.version = m.version /\ x.stamp = m.stamp
    BY <1>2, <2>1 DEF Entries
  <2> HIDE DEF x
  <2>3. EntryOK(x, file, writes)
    BY <1>2, <2>2 DEF EntryOK, LoadOK
  <2>4. x = [table |-> t, stamp |-> m.stamp, version |-> m.version, size |-> FrameSizes[m.version]]
    BY DEF x
  <2> QED BY <2>2, <2>3, <2>4
<1>4. PICK in, total : /\ in = Append(Without(t), e) /\ total = bytes - SizeOf(t) + e.size
                       /\ HoldsOK(in, file, writes) /\ in \in Seq(Entries) /\ Len(in) >= 1 /\ total = TotalSize(in)
  <2>1. HoldsOK(Without(t), file, writes)
    BY WithoutIs DEF HoldsOK
  <2>2. HoldsOK(Append(Without(t), e), file, writes)
    BY <1>3, <2>1, AppendHolds, WithoutIs
  <2>3. /\ Without(t) \in Seq(Entries) /\ TotalSize(Without(t)) = bytes - SizeOf(t) /\ bytes \in Nat /\ SizeOf(t) \in Nat
    BY WithoutIs
  <2>4. /\ Append(Without(t), e) \in Seq(Entries) /\ Len(Append(Without(t), e)) = Len(Without(t)) + 1
        /\ TotalSize(Append(Without(t), e)) = TotalSize(Without(t)) + e.size
    BY <2>3, AppendTotal
  <2>5. Len(Without(t)) \in Nat
    BY <2>3, EntriesAre
  <2>6. Len(Append(Without(t), e)) >= 1
    BY <2>4, <2>5
  <2>7. bytes - SizeOf(t) + e.size = TotalSize(Append(Without(t), e))
    BY <2>3, <2>4, SMTT(40)
  <2> QED BY <2>2, <2>4, <2>6, <2>7
<1>5. entries' = Evictions(in, total).cached /\ bytes' = Evictions(in, total).total
  BY <1>2, <1>3, <1>4 DEF InsertFrame, Overwriting
<1>6. PICK n \in 0..(Len(in) - 1) :
        /\ Evictions(in, total) = [cached |-> SubSeq(in, n + 1, Len(in)), total |-> TotalSize(SubSeq(in, n + 1, Len(in)))]
        /\ TotalSize(SubSeq(in, n + 1, Len(in))) <= Budget \/ Len(SubSeq(in, n + 1, Len(in))) = 1
  BY <1>4, EvictionsAre
<1>7. n \in 0..Len(in)
  BY <1>4, EntriesAre
<1>8. HoldsOK(entries', file, writes)
  <2>1. entries' = SubSeq(in, n + 1, Len(in))
    BY <1>5, <1>6
  <2>2. HoldsOK(SubSeq(in, n + 1, Len(in)), file, writes)
    BY <1>4, <1>7, DropHolds
  <2> QED BY <2>1, <2>2
<1>9. BytesOK(entries', bytes')
  BY <1>5, <1>6 DEF BytesOK
<1>10. LoadsOK(load', file, writes)
  <2> DEFINE l == [at |-> "have", stamp |-> m.stamp, version |-> m.version]
  <2>1. [m EXCEPT !.at = "have"] = l
    BY <1>2 DEF Loads
  <2>2. load' = [load EXCEPT ![a][t] = [m EXCEPT !.at = "have"]]
    BY <1>1, <1>2 DEF InsertFrame, LoadsOK
  <2>3. l \in Loads /\ LoadOK(l, t, file, writes)
    BY <1>2 DEF Loads, LoadOK
  <2> QED BY <1>1, <2>1, <2>2, <2>3, LoadMoves
<1> QED BY <1>1, <1>8, <1>9, <1>10 DEF CacheInv

\* A query asks for its frames, is refused over one of them, or has them all.
LEMMA CacheAsked ==
    ASSUME CacheInv, UNCHANGED <<file, writes, entries, bytes>>, NEW a \in Askers,
           NEW row \in [Tables -> Loads], \A t \in Tables : LoadOK(row[t], t, file, writes),
           load' = [load EXCEPT ![a] = row]
    PROVE  CacheInv'
<1>1. load \in [Askers -> [Tables -> Loads]] /\ \A b \in Askers, t \in Tables : LoadOK(load[b][t], t, file, writes)
  BY DEF CacheInv, LoadsOK
<1>2. load' \in [Askers -> [Tables -> Loads]] /\ \A b \in Askers : load'[b] = IF b = a THEN row ELSE load[b]
  BY <1>1
<1>3. \A b \in Askers, t \in Tables : LoadOK(load'[b][t], t, file, writes)
  BY <1>1, <1>2
<1>4. LoadsOK(load', file, writes)
  BY <1>2, <1>3 DEF LoadsOK
<1> QED BY <1>4 DEF CacheInv

\* Every step of the queries and of graphrag keeps the cache.
LEMMA CacheKept ==
    ASSUME CacheInv, [QueriesNext]_<<cacheVars, queryVars>>
    PROVE  CacheInv'
<1>1. CASE UNCHANGED cacheVars
  BY <1>1 DEF cacheVars, CacheInv
<1>2. ASSUME NEW t \in Tables, WriteTable(t) \/ DropTable(t) PROVE CacheInv'
  <2>1. MaxWrites \in Nat /\ writes \in 0..MaxWrites /\ file \in [Tables -> 0..writes]
    BY CacheNumbers DEF CacheInv, FilesOK
  <2>2. /\ writes' \in writes..MaxWrites /\ file' \in [Tables -> 0..writes']
        /\ \A u \in Tables : file'[u] \in {file[u], 0} \/ file'[u] > writes
    <3>1. CASE WriteTable(t)
      <4>1. writes' = writes + 1 /\ file' = [file EXCEPT ![t] = writes + 1] /\ writes < MaxWrites
        BY <3>1 DEF WriteTable
      <4> QED BY <2>1, <4>1
    <3>2. CASE DropTable(t)
      <4>1. writes' = writes /\ file' = [file EXCEPT ![t] = 0]
        BY <3>2 DEF DropTable
      <4> QED BY <2>1, <4>1
    <3> QED BY <1>2, <3>1, <3>2
  <2>3. FilesOK(file', writes') /\ HoldsOK(entries, file', writes') /\ LoadsOK(load, file', writes')
    BY <2>2, FilesMove
  <2>4. UNCHANGED <<entries, bytes, load>>
    BY <1>2 DEF WriteTable, DropTable
  <2> QED BY <2>3, <2>4 DEF CacheInv
<1>3. CASE CacheStep
  BY <1>2, <1>3, CacheLookup, CacheRead, CacheInsert DEF CacheStep
<1>4. LoadAt("wanted", 0, 0) \in Loads /\ NoLoad \in Loads
  BY DEF LoadAt, NoLoad, Loads
<1>5. \A t \in Tables : LoadOK(LoadAt("wanted", 0, 0), t, file, writes) /\ LoadOK(NoLoad, t, file, writes)
  BY DEF LoadAt, NoLoad, LoadOK
<1>6. ASSUME NEW a \in Askers, NEW m \in Methods, AskFrames(a, m) PROVE CacheInv'
  <2> DEFINE row == [t \in Tables |-> IF t \in TablesFor[m] THEN LoadAt("wanted", 0, 0) ELSE NoLoad]
  <2>1. row \in [Tables -> Loads] /\ \A t \in Tables : LoadOK(row[t], t, file, writes)
    BY <1>4, <1>5
  <2>2. load' = [load EXCEPT ![a] = row] /\ UNCHANGED <<file, writes, entries, bytes>>
    BY <1>6 DEF AskFrames
  <2> HIDE DEF row
  <2> QED BY <2>1, <2>2, CacheAsked
<1>7. ASSUME NEW a \in Askers, FramesFail(a) PROVE CacheInv'
  <2> DEFINE row == [t \in Tables |-> IF Settled(a, t) THEN NoLoad ELSE load[a][t]]
  <2>1. load \in [Askers -> [Tables -> Loads]] /\ \A t \in Tables : load[a][t] \in Loads /\ LoadOK(load[a][t], t, file, writes)
    BY DEF CacheInv, LoadsOK
  <2>2. row \in [Tables -> Loads] /\ \A t \in Tables : LoadOK(row[t], t, file, writes)
    BY <1>4, <1>5, <2>1
  <2>3. load' = [load EXCEPT ![a] = row] /\ UNCHANGED <<file, writes, entries, bytes>>
    BY <1>7, <2>1 DEF FramesFail
  <2> HIDE DEF row
  <2> QED BY <2>2, <2>3, CacheAsked
<1>8. ASSUME NEW a \in Askers, FramesLoaded(a) PROVE CacheInv'
  <2> DEFINE row == [t \in Tables |-> NoLoad]
  <2>1. row \in [Tables -> Loads] /\ \A t \in Tables : LoadOK(row[t], t, file, writes)
    BY <1>4, <1>5
  <2>2. load' = [load EXCEPT ![a] = row] /\ UNCHANGED <<file, writes, entries, bytes>>
    BY <1>8 DEF FramesLoaded
  <2> HIDE DEF row
  <2> QED BY <2>1, <2>2, CacheAsked
<1>9. ASSUME NEW a \in Askers, AskRefused(a) \/ AnswerPost(a) \/ Chunk(a) \/ SearchBreaks(a) \/ Cite(a)
                               \/ CiteFails(a) \/ FinishStream(a) \/ Disconnect(a)
      PROVE CacheInv'
  <2>1. UNCHANGED cacheVars
    BY <1>9 DEF AskRefused, AnswerPost, Chunk, SearchBreaks, Cite, CiteFails, FinishStream, Disconnect
  <2> QED BY <1>1, <2>1
<1> QED BY <1>1, <1>3, <1>6, <1>7, <1>8, <1>9 DEF QueriesNext

\* The cache begins empty.
LEMMA CacheBegins == QueriesInit => CacheInv
<1> SUFFICES ASSUME QueriesInit PROVE CacheInv
  OBVIOUS
<1>1. /\ file = [t \in Tables |-> 0] /\ writes = 0 /\ entries = <<>> /\ bytes = 0
      /\ load = [a \in Askers |-> [t \in Tables |-> NoLoad]]
  BY DEF QueriesInit, CacheInit
<1>2. FilesOK(file, writes)
  BY <1>1, CacheNumbers DEF FilesOK
<1>3. entries \in Seq(Entries) /\ Len(entries) = 0 /\ DOMAIN entries = {}
  BY <1>1
<1>4. HoldsOK(entries, file, writes) /\ BytesOK(entries, bytes)
  <2>1. HoldsOK(entries, file, writes)
    BY <1>3 DEF HoldsOK, Apart
  <2>2. TotalSize(entries) = 0
    BY <1>3, NothingIsHeld
  <2> QED BY <1>1, <2>1, <2>2, CacheNumbers DEF BytesOK
<1>5. LoadsOK(load, file, writes)
  BY <1>1 DEF LoadsOK, NoLoad, Loads, LoadOK
<1> QED BY <1>2, <1>4, <1>5 DEF CacheInv

\* The invariant of FrameCache: entries are of what their stamps say, one of a table,
\* and the count of bytes is their sum.
THEOREM CacheInvariant == QueriesSpec => []CacheInv
BY CacheBegins, CacheKept, PTL DEF QueriesSpec

\* frame_cache.py: an entry that would be served is the file, a table has one entry,
\* the bytes that are counted are the sum of what is held, only a frame alone exceeds
\* the budget, and nobody is handed what is older than the file was at the look; for
\* any tables, queries, frames and budget, and however often the files are rewritten
\* while loads and evictions are under way.
THEOREM CachedFramesAreTrue == QueriesSpec => []FramesAreWhatTheyClaim
<1>1. CacheInv => FramesAreWhatTheyClaim
  <2> SUFFICES ASSUME CacheInv PROVE FramesAreWhatTheyClaim
    OBVIOUS
  <2>1. ASSUME NEW n \in DOMAIN entries, Valid(entries[n], entries[n].table)
        PROVE  entries[n].version = file[entries[n].table]
    <3>1. /\ EntryOK(entries[n], file, writes) /\ entries[n].stamp \in Nat /\ entries[n].version \in Nat
          /\ entries[n].table \in Tables
      BY EntriesAre DEF CacheInv, HoldsOK
    <3>2. file[entries[n].table] \in Nat
      BY <3>1, CacheNumbers DEF CacheInv, FilesOK
    <3> QED BY <2>1, <3>1, <3>2 DEF Valid, EntryOK
  <2>2. \A n, m \in DOMAIN entries : entries[n].table = entries[m].table => n = m
    BY DEF CacheInv, HoldsOK, Apart
  <2>3. bytes = TotalSize(entries) /\ (bytes <= Budget \/ Len(entries) = 1)
    BY DEF CacheInv, BytesOK
  <2>4. \A a \in Askers, t \in Tables : load[a][t].at = "have" => load[a][t].version >= load[a][t].stamp
    BY DEF CacheInv, LoadsOK, LoadOK
  <2> QED BY <2>1, <2>2, <2>3, <2>4 DEF FramesAreWhatTheyClaim
<1> QED BY <1>1, CacheInvariant, PTL

\* A POST has nothing of a stream.
PostsAreSilent == \A a \in Askers \ Streams : sent[a] = <<>>

\* A query that is not a stream sends no events.
LEMMA PostsStaySilent ==
    ASSUME StreamsInv, PostsAreSilent, [QueriesNext]_<<cacheVars, queryVars>>
    PROVE  PostsAreSilent'
<1>1. CASE UNCHANGED sent
  BY <1>1 DEF PostsAreSilent
<1>2. ASSUME NEW a \in Askers, NEW x, sent' = [sent EXCEPT ![a] = x], a \notin Streams => x = <<>> PROVE PostsAreSilent'
  BY <1>2 DEF PostsAreSilent, StreamsInv
<1>3. ASSUME NEW a \in Askers, NEW event, Send(a, event) PROVE PostsAreSilent'
  <2>1. sent' = [sent EXCEPT ![a] = IF a \in Streams THEN Append(sent[a], event) ELSE sent[a]]
    BY <1>3 DEF Send
  <2>2. a \notin Streams => sent[a] = <<>>
    BY DEF PostsAreSilent
  <2> QED BY <1>2, <2>1, <2>2
<1>4. ASSUME NEW a \in Askers, NEW m \in Methods, AskFrames(a, m) PROVE PostsAreSilent'
  BY <1>2, <1>4 DEF AskFrames
<1>5. ASSUME NEW a \in Askers, a \in Streams, AskRefused(a) PROVE PostsAreSilent'
  BY <1>2, <1>5 DEF AskRefused
<1>6. ASSUME NEW a \in Askers, FramesLoaded(a) \/ AnswerPost(a) \/ Disconnect(a) PROVE PostsAreSilent'
  BY <1>1, <1>6 DEF FramesLoaded, AnswerPost, Disconnect
<1>7. ASSUME NEW a \in Askers, FramesFail(a) \/ Chunk(a) \/ SearchBreaks(a) \/ Cite(a) \/ CiteFails(a) \/ FinishStream(a)
      PROVE PostsAreSilent'
  BY <1>1, <1>3, <1>7 DEF FramesFail, Chunk, SearchBreaks, Break, Refuse, Cite, CiteFails, FinishStream
<1> QED BY <1>1, <1>4, <1>5, <1>6, <1>7 DEF QueriesNext, cacheVars, queryVars

\* The cache, its files, the loads and the queries hold such values as they can.
THEOREM QueriesTypes == QueriesSpec => []QueriesTypeOK
<1>1. CacheInv => CacheTypeOK
  <2> SUFFICES ASSUME CacheInv PROVE CacheTypeOK
    OBVIOUS
  <2>1. MaxWrites \in Nat /\ writes \in 0..MaxWrites /\ file \in [Tables -> 0..writes] /\ entries \in Seq(Entries)
    BY CacheNumbers DEF CacheInv, FilesOK, HoldsOK
  <2>2. file \in [Tables -> 0..MaxWrites]
    BY <2>1
  <2>3. ASSUME NEW n \in DOMAIN entries PROVE entries[n].table \in Tables /\ entries[n].version \in 1..MaxWrites
    <3>1. entries[n].table \in Tables /\ EntryOK(entries[n], file, writes)
      BY <2>1, EntriesAre DEF CacheInv, HoldsOK
    <3> QED BY <2>1, <3>1 DEF EntryOK
  <2>4. bytes \in Nat
    <3>1. TotalSize(entries) \in Nat
      BY <2>1, SizesAreSums, TotalOf
    <3> QED BY <3>1 DEF CacheInv, BytesOK
  <2>5. \A a \in Askers, t \in Tables :
          load[a][t].at \in {"none", "wanted", "reading", "read", "have", "not_indexed", "corrupt"}
    BY DEF CacheInv, LoadsOK, Loads
  <2> QED BY <2>1, <2>2, <2>3, <2>4, <2>5 DEF CacheTypeOK
<1>2. QueriesInit => StreamsInv /\ PostsAreSilent
  BY QueriesAssumption DEF QueriesInit, StreamsInv, Told, PostsAreSilent
<1>3. StreamsInv /\ PostsAreSilent /\ [QueriesNext]_<<cacheVars, queryVars>> => StreamsInv' /\ PostsAreSilent'
  BY StreamsStep, PostsStaySilent
<1>4. CacheTypeOK /\ StreamsInv /\ PostsAreSilent => QueriesTypeOK
  <2> SUFFICES ASSUME CacheTypeOK, StreamsInv, PostsAreSilent PROVE QueriesTypeOK
    OBVIOUS
  <2>1. ASSUME NEW a \in Askers PROVE sent[a] \in Seq(Events)
    <3>1. CASE a \notin Streams
      <4>1. sent[a] = <<>>
        BY <3>1 DEF PostsAreSilent
      <4> QED BY <4>1
    <3>2. CASE a \in Streams
      <4>1. Told(sent[a], phase[a]) /\ phase[a] \in {"idle", "frames", "search", "tail", "over", "gone", "cut"}
        BY <3>2 DEF StreamsInv
      <4>2. \A n \in Nat : /\ Chunks(n) \in Seq(Events) /\ Chunks(n) \o <<"citations">> \in Seq(Events)
                           /\ Chunks(n) \o <<"citations", "done">> \in Seq(Events)
                           /\ Chunks(n) \o <<"error">> \in Seq(Events)
        BY ChunksAre, TailsAre
      <4>3. <<>> \in Seq(Events) /\ <<"refusal">> \in Seq(Events) /\ <<"http_500">> \in Seq(Events)
        BY DEF Events
      <4>4. \A n \in 0..MaxChunks : n \in Nat
        OBVIOUS
      <4> QED BY <4>1, <4>2, <4>3, <4>4 DEF Told
    <3> QED BY <3>1, <3>2
  <2>2. phase \in [Askers -> {"idle", "frames", "search", "tail", "over", "gone", "cut"}]
    BY DEF StreamsInv
  <2> QED BY <2>1, <2>2 DEF QueriesTypeOK, Events
<1> QED BY <1>1, <1>2, <1>3, <1>4, CacheInvariant, PTL DEF QueriesSpec

-----------------------------------------------------------------------------
(* The limiters (Limits).                                                   *)

Ages == 0..Window

\* The bounds of the limiters.
LEMMA LimitNumbers ==
    /\ Window \in Nat /\ Window >= 1 /\ MaxKeys \in Nat /\ MaxKeys >= 1 /\ Limit \in Nat
    /\ IsFiniteSet(Keys) /\ IsFiniteSet(Logins) /\ Logins # {}
BY LimitsAssumption

\* _purge: what it pops has aged out, and what it stops at has not.
LEMMA PurgeIs ==
    ASSUME NEW a \in Seq(Ages)
    PROVE  \E g \in 0..Len(a) :
             /\ Purge(a) \in Seq(Ages) /\ Len(Purge(a)) = Len(a) - g
             /\ \A i \in 1..(Len(a) - g) : Purge(a)[i] = a[g + i]
             /\ \A m \in 1..g : a[m] >= Window
             /\ g < Len(a) => a[g + 1] < Window
<1>1. PICK L \in Nat : L = Len(a) /\ \A m \in 1..L : a[m] \in Ages /\ a[m] \in Nat
  <2>1. Len(a) \in Nat /\ \A m \in 1..Len(a) : a[m] \in Ages
    BY ElementOfSeq
  <2>2. \A x \in Ages : x \in Nat
    BY LimitNumbers DEF Ages
  <2> QED BY <2>1, <2>2
<1> DEFINE T == {n \in 0..L : n < L => a[n + 1] < Window}
           Stops(n) == (\A m \in 1..n : a[m] >= Window) /\ (n < L => a[n + 1] < Window)
           g == CHOOSE n \in 0..L : Stops(n)
<1>2. PICK n \in T : \A o \in T : n <= o
  <2>1. T \in SUBSET Nat /\ L \in T
    BY <1>1
  <2> HIDE DEF T
  <2> QED BY <2>1, LeastOfSome
<1>3. n \in 0..L /\ Stops(n)
  <2>1. ASSUME NEW m \in 1..n PROVE a[m] >= Window
    <3>1. m - 1 \in 0..L /\ ~(n <= m - 1) /\ m - 1 < L /\ (m - 1) + 1 = m /\ m \in 1..L
      BY <1>1
    <3>2. m - 1 \notin T
      BY <1>2, <3>1
    <3>3. ~(a[m] < Window)
      BY <3>1, <3>2
    <3> QED BY <1>1, <3>1, <3>3, LimitNumbers
  <2> QED BY <2>1
<1> HIDE DEF Stops
<1>4. g \in 0..L /\ Stops(g)
  BY <1>3
<1>5. Purge(a) = SubSeq(a, g + 1, L)
  BY <1>1 DEF Purge, Stops
<1> HIDE DEF g
<1>6. PICK h \in 0..L : Stops(h) /\ Purge(a) = SubSeq(a, h + 1, L)
  BY <1>4, <1>5
<1>7. /\ Purge(a) \in Seq(Ages) /\ Len(Purge(a)) = L - h
      /\ \A i \in 1..(L - h) : Purge(a)[i] = a[h + i]
  <2>1. \A i \in (h + 1)..L : a[i] \in Ages
    BY <1>1
  <2>2. /\ Purge(a) \in Seq(Ages) /\ Len(Purge(a)) = (IF h + 1 <= L THEN L - (h + 1) + 1 ELSE 0)
        /\ \A i \in 1..(L - (h + 1) + 1) : Purge(a)[i] = a[(h + 1) + i - 1]
    BY <1>1, <1>6, <2>1, SubSeqProperties
  <2> QED BY <1>1, <2>2
<1> QED BY <1>1, <1>6, <1>7 DEF Stops

\* What still counts of a key's hits: the newest, none of them aged out.
Suffix(o, a) == Len(o) <= Len(a) /\ \A i \in 1..Len(o) : o[i] = a[Len(a) - Len(o) + i]
Aging(o) == \A i, j \in 1..Len(o) : i <= j => o[i] >= o[j]
OwedOK(o, a) == o \in Seq(Ages) /\ Suffix(o, a) /\ Aging(o) /\ (Len(o) > 0 => o[1] < Window)

\* The ages of a bucket.
LEMMA AgesAre ==
    ASSUME NEW a \in Seq(Ages)
    PROVE  Len(a) \in Nat /\ \A m \in 1..Len(a) : a[m] \in Ages /\ a[m] \in Nat /\ a[m] <= Window
<1>1. Len(a) \in Nat /\ \A m \in 1..Len(a) : a[m] \in Ages
  BY ElementOfSeq
<1>2. \A x \in Ages : x \in Nat /\ x <= Window
  BY LimitNumbers DEF Ages
<1> QED BY <1>1, <1>2

\* No hit is owed of any bucket.
LEMMA NothingIsOwed ==
    ASSUME NEW a \in Seq(Ages)
    PROVE  OwedOK(<<>>, a)
<1>1. Len(<<>>) = 0 /\ <<>> \in Seq(Ages) /\ Len(a) \in Nat
  OBVIOUS
<1> QED BY <1>1 DEF OwedOK, Suffix, Aging

\* A purge drops no hit that is owed.
LEMMA PurgeKeepsOwed ==
    ASSUME NEW a \in Seq(Ages), NEW o, OwedOK(o, a)
    PROVE  OwedOK(o, Purge(a)) /\ Len(o) <= Len(Purge(a))
<1>1. PICK g \in 0..Len(a) :
             /\ Len(Purge(a)) = Len(a) - g
             /\ \A i \in 1..(Len(a) - g) : Purge(a)[i] = a[g + i]
             /\ \A m \in 1..g : a[m] >= Window
  BY PurgeIs
<1>2. PICK L, n, p : L \in Nat /\ n \in Nat /\ L = Len(a) /\ n = Len(o) /\ p = Purge(a) /\ n <= L /\ \A i \in 1..n : o[i] = a[L - n + i] /\ o[i] \in Nat
  BY AgesAre DEF OwedOK, Suffix
<1>3. n <= L - g
  <2>1. CASE n = 0
    BY <1>1, <1>2, <2>1
  <2>2. CASE n > 0
    <3>1. o[1] = a[L - n + 1] /\ o[1] < Window /\ o[1] \in Nat
      BY <1>2, <2>2 DEF OwedOK
    <3>2. L - n + 1 \notin 1..g
      BY <1>1, <3>1, LimitNumbers
    <3> QED BY <1>1, <1>2, <2>2, <3>2
  <2> QED BY <1>2, <2>1, <2>2
<1>4. ASSUME NEW i \in 1..n PROVE o[i] = p[(L - g) - n + i]
  <2>1. (L - g) - n + i \in 1..(L - g) /\ g + ((L - g) - n + i) = L - n + i
    BY <1>1, <1>2, <1>3
  <2>2. p[(L - g) - n + i] = a[g + ((L - g) - n + i)]
    BY <1>1, <1>2, <2>1
  <2> QED BY <1>2, <2>1, <2>2
<1>5. Suffix(o, p)
  BY <1>1, <1>2, <1>3, <1>4 DEF Suffix
<1> QED BY <1>1, <1>2, <1>3, <1>5 DEF OwedOK

\* One more hit is owed of what it is added to.
LEMMA HitIsOwed ==
    ASSUME NEW a \in Seq(Ages), NEW o, OwedOK(o, a)
    PROVE  OwedOK(Append(o, 0), Append(a, 0)) /\ Len(Append(o, 0)) = Len(o) + 1 /\ Append(a, 0) \in Seq(Ages)
<1>1. PICK L, n, p, q : /\ L \in Nat /\ n \in Nat /\ L = Len(a) /\ n = Len(o) /\ n <= L
                        /\ p = Append(a, 0) /\ q = Append(o, 0)
                        /\ \A i \in 1..n : o[i] = a[L - n + i] /\ o[i] \in Nat
                        /\ \A i, j \in 1..n : i <= j => o[i] >= o[j]
  BY AgesAre DEF OwedOK, Suffix, Aging
<1>2. 0 \in Ages
  BY LimitNumbers DEF Ages
<1>3. p \in Seq(Ages) /\ Len(p) = L + 1 /\ (\A i \in 1..L : p[i] = a[i]) /\ p[L + 1] = 0
  BY <1>1, <1>2, AppendProperties
<1>4. q \in Seq(Ages) /\ Len(q) = n + 1 /\ (\A i \in 1..n : q[i] = o[i]) /\ q[n + 1] = 0
  BY <1>1, <1>2, AppendProperties DEF OwedOK
<1>5. ASSUME NEW i \in 1..(n + 1) PROVE q[i] = p[(L + 1) - (n + 1) + i]
  <2>1. CASE i \in 1..n
    <3>1. L - n + i \in 1..L /\ (L + 1) - (n + 1) + i = L - n + i
      BY <1>1, <2>1
    <3> QED BY <1>1, <1>3, <1>4, <2>1, <3>1
  <2>2. CASE i = n + 1
    <3>1. (L + 1) - (n + 1) + i = L + 1
      BY <1>1, <2>2
    <3> QED BY <1>3, <1>4, <2>2, <3>1
  <2>3. n \in Nat
    BY <1>1
  <2>4. i \in 1..n \/ i = n + 1
    BY <2>3
  <2> QED BY <2>1, <2>2, <2>4
<1>6. Suffix(q, p)
  <2>1. Len(q) = n + 1 /\ Len(p) = L + 1 /\ n + 1 <= L + 1
    BY <1>1, <1>3, <1>4
  <2> QED BY <1>5, <2>1 DEF Suffix
<1>7. ASSUME NEW i \in 1..(n + 1), NEW j \in 1..(n + 1), i <= j PROVE q[i] >= q[j]
  <2>1. CASE j \in 1..n
    BY <1>1, <1>4, <1>7, <2>1
  <2>2. CASE j = n + 1
    <3>1. q[i] \in Nat
      BY <1>1, <1>4, AgesAre
    <3> QED BY <1>4, <2>2, <3>1
  <2> QED BY <1>1, <2>1, <2>2
<1>8. q[1] < Window
  <2>1. CASE n = 0
    BY <1>4, <2>1, LimitNumbers
  <2>2. CASE n > 0
    BY <1>1, <1>4, <2>2 DEF OwedOK
  <2> QED BY <1>1, <2>1, <2>2
<1> QED BY <1>1, <1>3, <1>4, <1>6, <1>7, <1>8 DEF OwedOK, Aging

\* A key that is swept is owed nothing.
LEMMA SweptIsNotOwed ==
    ASSUME NEW a \in Seq(Ages), NEW o, OwedOK(o, a), Len(a) > 0, Last(a) >= Window
    PROVE  o = <<>>
<1>1. PICK L, n : /\ L \in Nat /\ n \in Nat /\ L = Len(a) /\ n = Len(o) /\ n <= L /\ o \in Seq(Ages)
                  /\ \A i \in 1..n : o[i] = a[L - n + i] /\ o[i] \in Nat
                  /\ \A i, j \in 1..n : i <= j => o[i] >= o[j]
                  /\ n > 0 => o[1] < Window
  BY AgesAre DEF OwedOK, Suffix, Aging
<1>2. ASSUME n > 0 PROVE FALSE
  <2>1. L - n + n = L /\ 1 \in 1..n /\ n \in 1..n /\ 1 <= n
    BY <1>1, <1>2
  <2>2. o[n] = a[L] /\ o[1] >= o[n] /\ o[1] < Window /\ o[1] \in Nat /\ o[n] \in Nat
    BY <1>1, <1>2, <2>1
  <2>3. a[L] >= Window
    BY <1>1 DEF Last
  <2> QED BY <2>2, <2>3, LimitNumbers
<1> QED BY <1>1, <1>2

\* Time passes for what is remembered and for what is owed of it.
LEMMA OlderIsOwed ==
    ASSUME NEW a \in Seq(Ages), NEW o, OwedOK(o, a)
    PROVE  /\ Older(a) \in Seq(Ages) /\ Len(Older(a)) = Len(a)
           /\ OwedOK(Purge(Older(o)), Older(a)) /\ Len(Purge(Older(o))) <= Len(o)
<1> DEFINE up(x) == IF x < Window THEN x + 1 ELSE Window
<1>1. \A x \in Ages : up(x) \in Ages /\ up(x) \in Nat
  BY LimitNumbers DEF Ages
<1>2. \A x, y \in Ages : x >= y => up(x) >= up(y)
  BY LimitNumbers DEF Ages
<1>3. ASSUME NEW s \in Seq(Ages)
      PROVE  Older(s) \in Seq(Ages) /\ Len(Older(s)) = Len(s) /\ \A i \in 1..Len(s) : Older(s)[i] = up(s[i])
  <2>1. DOMAIN s = 1..Len(s) /\ Len(s) \in Nat /\ \A i \in 1..Len(s) : s[i] \in Ages
    BY AgesAre
  <2>2. Older(s) = [i \in 1..Len(s) |-> up(s[i])]
    BY <2>1 DEF Older
  <2>3. \A i \in 1..Len(s) : up(s[i]) \in Ages
    BY <1>1, <2>1
  <2> HIDE DEF up
  <2> QED BY <2>1, <2>2, <2>3
<1> HIDE DEF up
<1>4. PICK L, n, p, q : /\ L \in Nat /\ n \in Nat /\ L = Len(a) /\ n = Len(o) /\ n <= L /\ o \in Seq(Ages)
                        /\ p = Older(a) /\ q = Older(o)
                        /\ \A i \in 1..n : o[i] = a[L - n + i] /\ o[i] \in Ages
                        /\ \A i, j \in 1..n : i <= j => o[i] >= o[j]
  BY AgesAre DEF OwedOK, Suffix, Aging
<1>5. /\ p \in Seq(Ages) /\ Len(p) = L /\ \A i \in 1..L : p[i] = up(a[i])
      /\ q \in Seq(Ages) /\ Len(q) = n /\ \A i \in 1..n : q[i] = up(o[i])
  BY <1>3, <1>4
<1>6. \A i \in 1..n : L - n + i \in 1..L /\ q[i] = p[L - n + i]
  <2>1. \A i \in 1..n : L - n + i \in 1..L
    BY <1>4
  <2> QED BY <1>4, <1>5, <2>1
<1>7. \A i, j \in 1..n : i <= j => q[i] >= q[j]
  BY <1>2, <1>4, <1>5
<1>8. PICK g, r :
          /\ g \in 0..n /\ r = Purge(q) /\ r \in Seq(Ages) /\ Len(r) = n - g
          /\ \A i \in 1..(n - g) : r[i] = q[g + i]
          /\ g < n => q[g + 1] < Window
  BY <1>5, PurgeIs
<1>9. Suffix(r, p)
  <2>1. \A i \in 1..(n - g) : g + i \in 1..n /\ L - (n - g) + i = L - n + (g + i)
    BY <1>4, <1>8
  <2>2. \A i \in 1..(n - g) : r[i] = p[L - (n - g) + i]
    BY <1>6, <1>8, <2>1
  <2> QED BY <1>4, <1>5, <1>8, <2>2 DEF Suffix
<1>10. Aging(r)
  <2>1. \A i, j \in 1..(n - g) : i <= j => g + i \in 1..n /\ g + j \in 1..n /\ g + i <= g + j
    BY <1>4, <1>8
  <2> QED BY <1>7, <1>8, <2>1 DEF Aging
<1>11. Len(r) > 0 => r[1] < Window
  BY <1>4, <1>8
<1> QED BY <1>4, <1>5, <1>8, <1>9, <1>10, <1>11 DEF OwedOK

Windows == [ages : [Keys -> Seq(Ages)], after : [Keys -> SUBSET Keys]]

\* The keys that are remembered stand in one order.
Ordered(K, after) ==
    /\ \A k \in Keys : \A l \in after[k] : k \in K /\ l \in K /\ l # k
    /\ \A k, l \in K : k # l => l \in after[k] \/ k \in after[l]
    /\ \A k, l, m \in Keys : l \in after[k] /\ m \in after[l] => m \in after[k]

InOrder(w) == w \in Windows /\ Ordered(Remembered(w), w.after)

\* An order without some of its members is one.
LEMMA OrderedWithout ==
    ASSUME NEW K \in SUBSET Keys, NEW A, NEW B, NEW some, Ordered(K, A),
           \A k \in Keys : B[k] = IF k \in some THEN {} ELSE A[k] \ some
    PROVE  Ordered(K \ some, B)
<1>1. \A k \in Keys : \A l : l \in B[k] <=> k \notin some /\ l \in A[k] /\ l \notin some
  OBVIOUS
<1>2. \A k \in Keys : \A l \in B[k] : k \in K \ some /\ l \in K \ some /\ l # k
  BY <1>1 DEF Ordered
<1>3. \A k, l \in K \ some : k # l => l \in B[k] \/ k \in B[l]
  <2> SUFFICES ASSUME NEW k \in K \ some, NEW l \in K \ some, k # l PROVE l \in B[k] \/ k \in B[l]
    OBVIOUS
  <2>1. l \in A[k] \/ k \in A[l]
    BY DEF Ordered
  <2> QED BY <1>1, <2>1
<1>4. \A k, l, m \in Keys : l \in B[k] /\ m \in B[l] => m \in B[k]
  <2> SUFFICES ASSUME NEW k \in Keys, NEW l \in Keys, NEW m \in Keys, l \in B[k], m \in B[l] PROVE m \in B[k]
    OBVIOUS
  <2>1. k \notin some /\ l \in A[k] /\ m \in A[l] /\ m \notin some
    BY <1>1
  <2>2. m \in A[k]
    BY <2>1 DEF Ordered
  <2> QED BY <1>1, <2>1, <2>2
<1> QED BY <1>2, <1>3, <1>4 DEF Ordered

\* A key that moves to the recent end of an order leaves an order.
LEMMA OrderedWith ==
    ASSUME NEW K \in SUBSET Keys, NEW A, NEW B, NEW k \in Keys, Ordered(K, A),
           \A l \in Keys : \A m : m \in B[l] <=> l # k /\ l \in K /\ (m = k \/ m \in A[l])
    PROVE  Ordered(K \cup {k}, B)
<1>1. \A l \in Keys : \A m : m \in B[l] <=> l # k /\ l \in K /\ (m = k \/ m \in A[l])
  OBVIOUS
<1>2. \A l \in Keys : \A m \in B[l] : l \in K \cup {k} /\ m \in K \cup {k} /\ m # l
  BY <1>1 DEF Ordered
<1>3. \A l, m \in K \cup {k} : l # m => m \in B[l] \/ l \in B[m]
  <2> SUFFICES ASSUME NEW l \in K \cup {k}, NEW m \in K \cup {k}, l # m PROVE m \in B[l] \/ l \in B[m]
    OBVIOUS
  <2>1. l \in Keys /\ m \in Keys
    OBVIOUS
  <2>2. l # k /\ m # k => m \in A[l] \/ l \in A[m]
    BY DEF Ordered
  <2> QED BY <1>1, <2>1, <2>2
<1>4. \A l, m, n \in Keys : m \in B[l] /\ n \in B[m] => n \in B[l]
  <2> SUFFICES ASSUME NEW l \in Keys, NEW m \in Keys, NEW n \in Keys, m \in B[l], n \in B[m] PROVE n \in B[l]
    OBVIOUS
  <2>1. l # k /\ l \in K /\ m # k /\ m \in A[l] /\ (n = k \/ n \in A[m])
    BY <1>1
  <2>2. n = k \/ n \in A[l]
    BY <2>1 DEF Ordered
  <2> QED BY <1>1, <2>1, <2>2
<1> QED BY <1>2, <1>3, <1>4 DEF Ordered

\* The keys a window remembers.
LEMMA KnownAre ==
    ASSUME NEW w \in Windows
    PROVE  /\ Remembered(w) \in SUBSET Keys /\ IsFiniteSet(Remembered(w)) /\ Cardinality(Remembered(w)) \in Nat
           /\ \A k \in Keys : /\ w.ages[k] \in Seq(Ages) /\ w.after[k] \in SUBSET Keys
                              /\ (k \in Remembered(w) <=> w.ages[k] # <<>>) /\ (k \in Remembered(w) <=> Len(w.ages[k]) > 0)
<1>1. Remembered(w) \in SUBSET Keys
  BY DEF Remembered
<1>2. IsFiniteSet(Remembered(w)) /\ Cardinality(Remembered(w)) \in Nat
  BY <1>1, LimitNumbers, FS_Subset, FS_CardinalityType
<1>3. w.ages \in [Keys -> Seq(Ages)] /\ w.after \in [Keys -> SUBSET Keys]
  BY DEF Windows
<1>4. \A a \in Seq(Ages) : a # <<>> <=> Len(a) > 0
  OBVIOUS
<1>5. \A k \in Keys : w.ages[k] \in Seq(Ages) /\ w.after[k] \in SUBSET Keys /\ (k \in Remembered(w) <=> w.ages[k] # <<>>)
  BY <1>3 DEF Remembered
<1> QED BY <1>1, <1>2, <1>4, <1>5

\* Some keys are forgotten: the others keep their order.
LEMMA ForgetIs ==
    ASSUME NEW w, InOrder(w), NEW some \in SUBSET Keys
    PROVE  /\ InOrder(Forget(w, some)) /\ Remembered(Forget(w, some)) = Remembered(w) \ some
           /\ \A k \in Keys : /\ Forget(w, some).ages[k] = IF k \in some THEN <<>> ELSE w.ages[k]
                              /\ Forget(w, some).after[k] = IF k \in some THEN {} ELSE w.after[k] \ some
<1>1. PICK f : f = Forget(w, some)
  OBVIOUS
<1>2. w \in Windows /\ w.ages \in [Keys -> Seq(Ages)] /\ w.after \in [Keys -> SUBSET Keys]
  BY DEF InOrder, Windows
<1>3. \A k \in Keys : /\ f.ages[k] = IF k \in some THEN <<>> ELSE w.ages[k]
                      /\ f.after[k] = IF k \in some THEN {} ELSE w.after[k] \ some
  BY <1>1 DEF Forget
<1>4. f \in Windows
  <2>1. [k \in Keys |-> IF k \in some THEN <<>> ELSE w.ages[k]] \in [Keys -> Seq(Ages)]
    <3>1. <<>> \in Seq(Ages)
      OBVIOUS
    <3> QED BY <1>2, <3>1
  <2>2. [k \in Keys |-> IF k \in some THEN {} ELSE w.after[k] \ some] \in [Keys -> SUBSET Keys]
    BY <1>2
  <2> QED BY <1>1, <2>1, <2>2 DEF Forget, Windows
<1>5. Remembered(f) = Remembered(w) \ some
  BY <1>3 DEF Remembered
<1>6. Ordered(Remembered(f), f.after)
  <2>1. Remembered(w) \in SUBSET Keys /\ Ordered(Remembered(w), w.after) /\ \A k \in Keys : f.after[k] = IF k \in some THEN {} ELSE w.after[k] \ some
    BY <1>2, <1>3, KnownAre DEF InOrder
  <2>2. Ordered(Remembered(w) \ some, f.after)
    BY <2>1, OrderedWithout
  <2> QED BY <1>5, <2>2
<1>7. InOrder(f)
  BY <1>4, <1>6 DEF InOrder
<1> QED BY <1>1, <1>3, <1>5, <1>7

\* count: it purges one bucket, and drops the key if nothing is left.
LEMMA CountIs ==
    ASSUME NEW w, InOrder(w), NEW k \in Keys
    PROVE  /\ InOrder(AfterCount(w, k)) /\ Remembered(AfterCount(w, k)) \subseteq Remembered(w)
           /\ \A l \in Keys : /\ AfterCount(w, k).ages[l] = IF l = k THEN Purge(w.ages[k]) ELSE w.ages[l]
                              /\ AfterCount(w, k).after[l] \subseteq w.after[l]
<1>1. w \in Windows /\ w.ages \in [Keys -> Seq(Ages)] /\ w.after \in [Keys -> SUBSET Keys]
  BY DEF InOrder, Windows
<1>2. PICK p \in Seq(Ages) : p = Purge(w.ages[k]) /\ (Len(w.ages[k]) = 0 => Len(p) = 0) /\ (Len(p) = 0 <=> p = <<>>)
  <2>1. PICK a \in Seq(Ages) : a = w.ages[k] /\ Len(a) \in Nat
    BY <1>1, AgesAre
  <2>2. PICK L, g, n : L = Len(a) /\ g \in 0..L /\ n = Len(Purge(a)) /\ Purge(a) \in Seq(Ages) /\ n = L - g
    BY PurgeIs
  <2>3. L = 0 => n = 0
    <3>1. L \in Nat /\ g \in 0..L
      BY <2>1, <2>2
    <3>2. n = L - g
      BY <2>2
    <3>3. \A x \in Nat : \A y \in 0..x : x - y \in 0..x
      OBVIOUS
    <3>4. n \in 0..L
      BY <3>1, <3>2, <3>3
    <3> QED BY <3>4
  <2>4. \A s \in Seq(Ages) : Len(s) = 0 <=> s = <<>>
    OBVIOUS
  <2> QED BY <2>1, <2>2, <2>3, <2>4
<1>3. CASE Len(p) = 0
  <2>1. AfterCount(w, k) = Forget(w, {k})
    BY <1>2, <1>3 DEF AfterCount, CountHits
  <2>2. /\ InOrder(Forget(w, {k})) /\ Remembered(Forget(w, {k})) = Remembered(w) \ {k}
        /\ \A l \in Keys : /\ Forget(w, {k}).ages[l] = IF l \in {k} THEN <<>> ELSE w.ages[l]
                           /\ Forget(w, {k}).after[l] = IF l \in {k} THEN {} ELSE w.after[l] \ {k}
    <3>1. {k} \in SUBSET Keys
      OBVIOUS
    <3> QED BY <3>1, ForgetIs, ZenonT(60)
  <2> QED BY <1>2, <1>3, <2>1, <2>2
<1>4. CASE Len(p) # 0
  <2>1. PICK c : c = AfterCount(w, k) /\ c = [w EXCEPT !.ages[k] = p]
    BY <1>2, <1>4 DEF AfterCount, CountHits
  <2>2. c \in Windows /\ c.after = w.after /\ \A l \in Keys : c.ages[l] = IF l = k THEN p ELSE w.ages[l]
    BY <1>1, <2>1, ZenonT(60) DEF Windows
  <2>3. Remembered(c) = Remembered(w)
    <3>1. k \in Remembered(w) /\ k \in Remembered(c)
      BY <1>1, <1>2, <1>4, <2>2, KnownAre
    <3> QED BY <2>2, <3>1 DEF Remembered
  <2>4. InOrder(c)
    BY <2>2, <2>3 DEF InOrder
  <2> QED BY <1>2, <2>1, <2>2, <2>3, <2>4
<1> QED BY <1>3, <1>4

\* add, before its eviction: the key is the one hit last.
LEMMA HitIs ==
    ASSUME NEW w, InOrder(w), NEW k \in Keys
    PROVE  /\ InOrder(Hit(w, k)) /\ Remembered(Hit(w, k)) = Remembered(w) \cup {k}
           /\ \A l \in Keys : /\ Hit(w, k).ages[l] = IF l = k THEN Append(Purge(w.ages[k]), 0) ELSE w.ages[l]
                              /\ Hit(w, k).after[l] = IF l # k /\ l \in Remembered(w) THEN w.after[l] \cup {k} ELSE {}
<1>1. w \in Windows /\ w.ages \in [Keys -> Seq(Ages)] /\ w.after \in [Keys -> SUBSET Keys]
  BY DEF InOrder, Windows
<1>2. PICK p \in Seq(Ages) : p = Append(Purge(w.ages[k]), 0) /\ p # <<>>
  <2>1. Purge(w.ages[k]) \in Seq(Ages)
    BY <1>1, PurgeIs
  <2>2. 0 \in Ages
    BY LimitNumbers DEF Ages
  <2>3. PICK a \in Seq(Ages) : a = Purge(w.ages[k]) /\ Len(a) \in Nat
    BY <2>1, AgesAre
  <2>4. Append(a, 0) \in Seq(Ages) /\ Len(Append(a, 0)) = Len(a) + 1
    BY <2>2, AppendProperties
  <2>5. Append(a, 0) # <<>>
    BY <2>3, <2>4
  <2> QED BY <2>3, <2>4, <2>5
<1>3. PICK h : h = Hit(w, k)
  OBVIOUS
<1>4. \A l \in Keys : /\ h.ages[l] = IF l = k THEN p ELSE w.ages[l]
                      /\ h.after[l] = IF l # k /\ l \in Remembered(w) THEN w.after[l] \cup {k} ELSE {}
  BY <1>1, <1>2, <1>3 DEF Hit
<1>5. h \in Windows
  <2>1. [w.ages EXCEPT ![k] = p] \in [Keys -> Seq(Ages)]
    BY <1>1
  <2>2. [l \in Keys |-> IF l # k /\ l \in Remembered(w) THEN w.after[l] \cup {k} ELSE {}] \in [Keys -> SUBSET Keys]
    BY <1>1
  <2>3. h = [ages |-> [w.ages EXCEPT ![k] = p], after |-> [l \in Keys |-> IF l # k /\ l \in Remembered(w) THEN w.after[l] \cup {k} ELSE {}]]
    BY <1>2, <1>3 DEF Hit
  <2> QED BY <2>1, <2>2, <2>3 DEF Windows
<1>6. Remembered(h) = Remembered(w) \cup {k}
  BY <1>2, <1>4 DEF Remembered
<1>7. Ordered(Remembered(h), h.after)
  <2>1. Remembered(w) \in SUBSET Keys /\ Ordered(Remembered(w), w.after)
    BY <1>1, KnownAre DEF InOrder
  <2>2. \A l \in Keys : h.after[l] = IF l # k /\ l \in Remembered(w) THEN w.after[l] \cup {k} ELSE {}
    BY <1>4
  <2>3. \A l \in Keys : \A m : m \in h.after[l] <=> l # k /\ l \in Remembered(w) /\ (m = k \/ m \in w.after[l])
    BY <2>2
  <2>4. Ordered(Remembered(w) \cup {k}, h.after)
    BY <2>1, <2>3, OrderedWith
  <2> QED BY <1>6, <2>4
<1>8. InOrder(h)
  BY <1>5, <1>7 DEF InOrder
<1> QED BY <1>2, <1>3, <1>4, <1>6, <1>8

\* popitem(last=False) until the rest is within the ceiling: the rest are those with
\* fewer than so many behind them.
LEMMA RestFits ==
    ASSUME NEW w, InOrder(w)
    PROVE  Cardinality({k \in Remembered(w) : ~(Cardinality(w.after[k]) >= MaxKeys)}) <= MaxKeys
<1> DEFINE R == {k \in Remembered(w) : ~(Cardinality(w.after[k]) >= MaxKeys)}
<1>1. /\ w \in Windows /\ Remembered(w) \in SUBSET Keys /\ IsFiniteSet(Remembered(w))
      /\ \A k \in Keys : w.after[k] \in SUBSET Keys /\ IsFiniteSet(w.after[k]) /\ Cardinality(w.after[k]) \in Nat
  <2>1. w \in Windows
    BY DEF InOrder
  <2>2. \A k \in Keys : w.after[k] \in SUBSET Keys
    BY <2>1, KnownAre
  <2>3. \A S \in SUBSET Keys : IsFiniteSet(S) /\ Cardinality(S) \in Nat
    BY LimitNumbers, FS_Subset, FS_CardinalityType
  <2> QED BY <2>1, <2>2, <2>3, KnownAre
<1>2. R \subseteq Remembered(w) /\ IsFiniteSet(R) /\ Cardinality(R) \in Nat
  BY <1>1, FS_Subset, FS_CardinalityType
<1>3. CASE R = {}
  BY <1>3, FS_EmptySet, LimitNumbers
<1>4. CASE R # {}
  <2> DEFINE N == {n \in Nat : \E k \in R : n + Cardinality(w.after[k]) = MaxKeys}
  <2>1. N # {}
    <3>1. PICK k \in R : k \in Keys
      BY <1>1, <1>2, <1>4
    <3>2. Cardinality(w.after[k]) \in Nat /\ ~(Cardinality(w.after[k]) >= MaxKeys)
      BY <1>1, <3>1
    <3>3. MaxKeys - Cardinality(w.after[k]) \in N
      BY <3>1, <3>2, LimitNumbers
    <3> QED BY <3>3
  <2>2. PICK n \in N : \A o \in N : n <= o
    <3> HIDE DEF N
    <3>1. N \in SUBSET Nat
      BY DEF N
    <3> QED BY <2>1, <3>1, LeastOfSome
  <2>3. PICK k \in R : n \in Nat /\ n + Cardinality(w.after[k]) = MaxKeys
    OBVIOUS
  <2>4. k \in Remembered(w) /\ k \in Keys /\ ~(Cardinality(w.after[k]) >= MaxKeys)
    BY <1>1
  \* the first of them has all the others behind it
  <2>5. ASSUME NEW l \in R, l # k, l \notin w.after[k] PROVE FALSE
    <3>1. l \in Remembered(w) /\ l \in Keys /\ ~(Cardinality(w.after[l]) >= MaxKeys)
      BY <1>1
    <3>2. k \in w.after[l] /\ w.after[k] \subseteq w.after[l] /\ k \notin w.after[k]
      <4>1. k \in w.after[l] /\ k \notin w.after[k]
        BY <2>4, <2>5, <3>1 DEF InOrder, Ordered
      <4>2. w.after[k] \in SUBSET Keys
        BY <1>1, <2>4
      <4> QED BY <2>4, <3>1, <4>1, <4>2 DEF InOrder, Ordered
    <3>3. /\ IsFiniteSet(w.after[l]) /\ IsFiniteSet(w.after[k]) /\ Cardinality(w.after[l]) \in Nat /\ Cardinality(w.after[k]) \in Nat
      BY <1>1, <2>4, <3>1
    <3>4. Cardinality(w.after[k]) <= Cardinality(w.after[l]) /\ Cardinality(w.after[k]) # Cardinality(w.after[l])
      <4>1. w.after[k] \in SUBSET w.after[l] /\ w.after[l] # w.after[k]
        BY <3>2
      <4> QED BY <3>3, <4>1, FS_Subset
    <3>5. MaxKeys - Cardinality(w.after[l]) \in Nat /\ MaxKeys - Cardinality(w.after[l]) < n
      BY <2>3, <3>1, <3>3, <3>4, LimitNumbers
    <3>6. (MaxKeys - Cardinality(w.after[l])) + Cardinality(w.after[l]) = MaxKeys
      BY <3>3, LimitNumbers
    <3>7. MaxKeys - Cardinality(w.after[l]) \in N
      BY <3>5, <3>6
    <3> QED BY <2>2, <2>3, <3>5, <3>7
  <2>6. R \ {k} \in SUBSET w.after[k]
    BY <2>5
  <2>7. Cardinality(R \ {k}) <= Cardinality(w.after[k])
    BY <1>1, <2>4, <2>6, FS_Subset
  <2>8. Cardinality(R \ {k}) = Cardinality(R) - 1
    BY <1>2, <2>3, FS_RemoveElement
  <2> HIDE DEF R
  <2> QED BY <1>1, <1>2, <2>3, <2>4, <2>7, <2>8, LimitNumbers DEF R
<1> QED BY <1>3, <1>4

\* EvictKeys: what it drops has aged out, or has as many keys behind it as may stay.
LEMMA EvictIs ==
    ASSUME NEW w, InOrder(w)
    PROVE  /\ InOrder(EvictKeys(w)) /\ Cardinality(Remembered(EvictKeys(w))) <= MaxKeys
           /\ \A l \in Keys :
                /\ EvictKeys(w).after[l] \subseteq w.after[l]
                /\ \/ EvictKeys(w).ages[l] = w.ages[l]
                   \/ EvictKeys(w).ages[l] = <<>> /\ Len(w.ages[l]) > 0 /\ Last(w.ages[l]) >= Window
                   \/ EvictKeys(w).ages[l] = <<>> /\ w.after[l] # {} /\ Cardinality(w.after[l]) >= MaxKeys
<1>1. PICK E : E = Expired(w) /\ E \in SUBSET Keys /\ \A l \in E : Len(w.ages[l]) > 0 /\ Last(w.ages[l]) >= Window
  <2>1. w \in Windows
    BY DEF InOrder
  <2>2. \A l \in Remembered(w) : l \in Keys /\ Len(w.ages[l]) > 0
    BY <2>1, KnownAre
  <2>3. \A l \in Expired(w) : l \in Remembered(w) /\ Last(w.ages[l]) >= Window
    BY DEF Expired
  <2>4. Expired(w) \in SUBSET Keys /\ \A l \in Expired(w) : Len(w.ages[l]) > 0 /\ Last(w.ages[l]) >= Window
    BY <2>2, <2>3
  <2> QED BY <2>4
<1>2. PICK f : f = Forget(w, E)
  OBVIOUS
<1>3. /\ InOrder(f) /\ Remembered(f) = Remembered(w) \ E
      /\ \A l \in Keys : /\ f.ages[l] = IF l \in E THEN <<>> ELSE w.ages[l]
                         /\ f.after[l] = IF l \in E THEN {} ELSE w.after[l] \ E
  <2>1. /\ InOrder(Forget(w, E)) /\ Remembered(Forget(w, E)) = Remembered(w) \ E
        /\ \A l \in Keys : /\ Forget(w, E).ages[l] = IF l \in E THEN <<>> ELSE w.ages[l]
                           /\ Forget(w, E).after[l] = IF l \in E THEN {} ELSE w.after[l] \ E
    <3>1. E \in SUBSET Keys
      BY <1>1
    <3> QED BY <3>1, ForgetIs
  <2> QED BY <1>2, <2>1
<1>4. PICK S : S = {k \in Remembered(f) : Cardinality(f.after[k]) >= MaxKeys} /\ S \in SUBSET Keys
  <2>1. f \in Windows
    BY <1>3 DEF InOrder
  <2> QED BY <2>1, KnownAre
<1>5. PICK v : v = Forget(f, S) /\ v = EvictKeys(w)
  BY <1>1, <1>2, <1>4 DEF EvictKeys
<1>6. /\ InOrder(v) /\ Remembered(v) = Remembered(f) \ S
      /\ \A l \in Keys : /\ v.ages[l] = IF l \in S THEN <<>> ELSE f.ages[l]
                         /\ v.after[l] = IF l \in S THEN {} ELSE f.after[l] \ S
  <2>1. InOrder(f) /\ S \in SUBSET Keys
    BY <1>3, <1>4
  <2>2. /\ InOrder(Forget(f, S)) /\ Remembered(Forget(f, S)) = Remembered(f) \ S
        /\ \A l \in Keys : /\ Forget(f, S).ages[l] = IF l \in S THEN <<>> ELSE f.ages[l]
                           /\ Forget(f, S).after[l] = IF l \in S THEN {} ELSE f.after[l] \ S
    BY <2>1, ForgetIs, Zenon
  <2> QED BY <1>5, <2>2
<1>7. Cardinality(Remembered(v)) <= MaxKeys
  <2>1. Remembered(f) \ S = {k \in Remembered(f) : ~(Cardinality(f.after[k]) >= MaxKeys)}
    BY <1>4
  <2> QED BY <1>3, <1>6, <2>1, RestFits
<1>8. \A l \in Keys : v.after[l] \subseteq w.after[l] /\ f.after[l] \subseteq w.after[l]
  BY <1>3, <1>6
<1>9. \A l \in S : w.after[l] # {} /\ Cardinality(w.after[l]) >= MaxKeys
  <2> SUFFICES ASSUME NEW l \in S PROVE w.after[l] # {} /\ Cardinality(w.after[l]) >= MaxKeys
    OBVIOUS
  <2>1. l \in Keys /\ Cardinality(f.after[l]) >= MaxKeys
    BY <1>4
  <2>2. PICK A, B : A = w.after[l] /\ B = f.after[l] /\ A \in SUBSET Keys /\ B \in SUBSET A
    <3>1. w \in Windows
      BY DEF InOrder
    <3> QED BY <1>8, <2>1, <3>1, KnownAre
  <2>3. IsFiniteSet(A) /\ IsFiniteSet(B) /\ Cardinality(A) \in Nat /\ Cardinality(B) \in Nat /\ Cardinality(B) <= Cardinality(A)
    <3>1. IsFiniteSet(A)
      BY <2>2, LimitNumbers, FS_Subset
    <3> QED BY <2>2, <3>1, FS_Subset, FS_CardinalityType
  <2>4. Cardinality(A) >= MaxKeys
    BY <2>1, <2>2, <2>3, LimitNumbers
  <2>5. A # {}
    <3>1. Cardinality({}) = 0
      BY FS_EmptySet
    <3> QED BY <2>4, <3>1, LimitNumbers
  <2> QED BY <2>2, <2>4, <2>5
<1>10. \A l \in Keys : \/ v.ages[l] = w.ages[l]
                       \/ v.ages[l] = <<>> /\ Len(w.ages[l]) > 0 /\ Last(w.ages[l]) >= Window
                       \/ v.ages[l] = <<>> /\ w.after[l] # {} /\ Cardinality(w.after[l]) >= MaxKeys
  <2> SUFFICES ASSUME NEW l \in Keys
               PROVE  \/ v.ages[l] = w.ages[l]
                      \/ v.ages[l] = <<>> /\ Len(w.ages[l]) > 0 /\ Last(w.ages[l]) >= Window
                      \/ v.ages[l] = <<>> /\ w.after[l] # {} /\ Cardinality(w.after[l]) >= MaxKeys
    OBVIOUS
  <2>1. CASE l \in S
    BY <1>6, <1>9, <2>1
  <2>2. CASE l \notin S /\ l \in E
    BY <1>1, <1>3, <1>6, <2>2
  <2>3. CASE l \notin S /\ l \notin E
    BY <1>3, <1>6, <2>3
  <2> QED BY <2>1, <2>2, <2>3
<1> QED BY <1>5, <1>6, <1>7, <1>8, <1>10

\* add: the key that was hit stays, and is owed by nobody else's eviction.
LEMMA AddIs ==
    ASSUME NEW w, InOrder(w), NEW k \in Keys
    PROVE  /\ InOrder(AfterAdd(w, k)) /\ Cardinality(Remembered(AfterAdd(w, k))) <= MaxKeys
           /\ AfterAdd(w, k).ages[k] = Append(Purge(w.ages[k]), 0) /\ AfterAdd(w, k).after[k] = {}
           /\ \A l \in Keys \ {k} :
                /\ AfterAdd(w, k).after[l] \subseteq w.after[l] \cup {k}
                /\ \/ AfterAdd(w, k).ages[l] = w.ages[l]
                   \/ AfterAdd(w, k).ages[l] = <<>> /\ Len(w.ages[l]) > 0 /\ Last(w.ages[l]) >= Window
                   \/ AfterAdd(w, k).ages[l] = <<>> /\ Cardinality(w.after[l] \cup {k}) >= MaxKeys
<1>1. PICK h : h = Hit(w, k)
  OBVIOUS
<1>2. /\ InOrder(h) /\ h \in Windows
      /\ \A l \in Keys : /\ h.ages[l] = IF l = k THEN Append(Purge(w.ages[k]), 0) ELSE w.ages[l]
                         /\ h.after[l] = IF l # k /\ l \in Remembered(w) THEN w.after[l] \cup {k} ELSE {}
  <2>1. /\ InOrder(Hit(w, k))
        /\ \A l \in Keys : /\ Hit(w, k).ages[l] = IF l = k THEN Append(Purge(w.ages[k]), 0) ELSE w.ages[l]
                           /\ Hit(w, k).after[l] = IF l # k /\ l \in Remembered(w) THEN w.after[l] \cup {k} ELSE {}
    BY HitIs, Zenon
  <2>2. Hit(w, k) \in Windows
    BY <2>1 DEF InOrder
  <2> QED BY <1>1, <2>1, <2>2
<1>3. h.after[k] = {}
  BY <1>2
<1>4. Last(h.ages[k]) = 0
  <2>1. w.ages[k] \in Seq(Ages)
    BY KnownAre DEF InOrder
  <2>2. 0 \in Ages
    BY LimitNumbers DEF Ages
  <2>3. PICK a \in Seq(Ages) : a = Purge(w.ages[k]) /\ Len(a) \in Nat
    BY <2>1, PurgeIs, AgesAre
  <2>4. Len(Append(a, 0)) = Len(a) + 1 /\ Append(a, 0)[Len(a) + 1] = 0
    BY <2>2, AppendProperties
  <2>5. Last(Append(a, 0)) = 0
    BY <2>3, <2>4 DEF Last
  <2> QED BY <1>2, <2>3, <2>5
<1>5. PICK v : v = AfterAdd(w, k)
  OBVIOUS
<1>6. CASE ~(Cardinality(Remembered(h)) > MaxKeys)
  <2>1. v = h
    BY <1>1, <1>5, <1>6 DEF AfterAdd
  <2>2. Cardinality(Remembered(h)) <= MaxKeys
    BY <1>2, <1>6, KnownAre, LimitNumbers
  <2>3. \A l \in Keys \ {k} : h.ages[l] = w.ages[l] /\ h.after[l] \subseteq w.after[l] \cup {k}
    BY <1>2
  <2> QED BY <1>2, <1>3, <1>5, <2>1, <2>2, <2>3
<1>7. CASE Cardinality(Remembered(h)) > MaxKeys
  <2>1. v = EvictKeys(h)
    BY <1>1, <1>5, <1>7 DEF AfterAdd
  <2>2. /\ InOrder(v) /\ Cardinality(Remembered(v)) <= MaxKeys
        /\ \A l \in Keys :
             /\ v.after[l] \subseteq h.after[l]
             /\ \/ v.ages[l] = h.ages[l]
                \/ v.ages[l] = <<>> /\ Len(h.ages[l]) > 0 /\ Last(h.ages[l]) >= Window
                \/ v.ages[l] = <<>> /\ h.after[l] # {} /\ Cardinality(h.after[l]) >= MaxKeys
    BY <1>2, <2>1, EvictIs
  <2>3. v.ages[k] = h.ages[k] /\ v.after[k] = {}
    <3>1. ~(Last(h.ages[k]) >= Window)
      BY <1>4, LimitNumbers
    <3> QED BY <1>3, <2>2, <3>1
  <2>4. ASSUME NEW l \in Keys \ {k}
        PROVE  /\ v.after[l] \subseteq w.after[l] \cup {k}
               /\ \/ v.ages[l] = w.ages[l]
                  \/ v.ages[l] = <<>> /\ Len(w.ages[l]) > 0 /\ Last(w.ages[l]) >= Window
                  \/ v.ages[l] = <<>> /\ Cardinality(w.after[l] \cup {k}) >= MaxKeys
    <3>1. h.ages[l] = w.ages[l] /\ (h.after[l] = w.after[l] \cup {k} \/ h.after[l] = {})
      BY <1>2
    <3>2. /\ v.after[l] \subseteq h.after[l]
          /\ \/ v.ages[l] = h.ages[l]
             \/ v.ages[l] = <<>> /\ Len(h.ages[l]) > 0 /\ Last(h.ages[l]) >= Window
             \/ v.ages[l] = <<>> /\ h.after[l] # {} /\ Cardinality(h.after[l]) >= MaxKeys
      BY <2>2
    <3> QED BY <3>1, <3>2
  <2> QED BY <1>2, <1>5, <2>2, <2>3, <2>4
<1> QED BY <1>6, <1>7

WindowOK(w, after) ==
    /\ InOrder(w) /\ Cardinality(Remembered(w)) <= MaxKeys
    /\ after \in [Keys -> SUBSET Keys] /\ \A k \in Keys : w.after[k] \subseteq after[k]

\* What Remember makes of its history.
HitAfter(after, k) == [l \in Keys |-> IF l = k THEN {} ELSE after[l] \cup {k}]
Owing(debts, after, k) ==
    [l \in Keys |-> IF l = k THEN Append(debts[k], 0)
                    ELSE IF Cardinality(after[l]) >= MaxKeys THEN <<>> ELSE debts[l]]

OwesOK(w, debts) == \A k \in Keys : OwedOK(debts[k], w.ages[k])

\* count: it purges what is owed to nobody, and counts at least what is.
LEMMA CountKeeps ==
    ASSUME NEW w, NEW after, NEW debts, WindowOK(w, after), OwesOK(w, debts), NEW k \in Keys
    PROVE  /\ WindowOK(AfterCount(w, k), after) /\ OwesOK(AfterCount(w, k), debts)
           /\ CountHits(w, k) \in Nat /\ Len(debts[k]) \in Nat /\ Len(debts[k]) <= CountHits(w, k)
<1>1. PICK v : v = AfterCount(w, k)
  OBVIOUS
<1>2. /\ InOrder(w) /\ w \in Windows /\ Remembered(w) \in SUBSET Keys /\ IsFiniteSet(Remembered(w)) /\ Cardinality(Remembered(w)) \in Nat
      /\ w.ages[k] \in Seq(Ages)
  BY KnownAre DEF WindowOK, InOrder
<1>3. /\ InOrder(v) /\ Remembered(v) \subseteq Remembered(w)
      /\ \A l \in Keys : /\ v.ages[l] = IF l = k THEN Purge(w.ages[k]) ELSE w.ages[l]
                         /\ v.after[l] \subseteq w.after[l]
  BY <1>1, <1>2, CountIs
<1>4. Cardinality(Remembered(v)) <= MaxKeys
  <2>1. Remembered(v) \in SUBSET Remembered(w)
    BY <1>3
  <2>2. Cardinality(Remembered(v)) \in Nat /\ Cardinality(Remembered(v)) <= Cardinality(Remembered(w))
    BY <1>2, <2>1, FS_Subset, FS_CardinalityType
  <2> QED BY <1>2, <2>2, LimitNumbers DEF WindowOK
<1>5. WindowOK(v, after)
  BY <1>3, <1>4 DEF WindowOK
<1>6. PICK a, o : a = w.ages[k] /\ o = debts[k] /\ a \in Seq(Ages) /\ OwedOK(o, a)
  BY <1>2 DEF OwesOK
<1>7. OwedOK(o, Purge(a)) /\ Len(o) <= Len(Purge(a)) /\ Purge(a) \in Seq(Ages) /\ o \in Seq(Ages)
  BY <1>6, PurgeIs, PurgeKeepsOwed DEF OwedOK
<1>8. OwesOK(v, debts)
  BY <1>3, <1>6, <1>7 DEF OwesOK
<1>9. Len(o) \in Nat /\ Len(Purge(a)) \in Nat /\ CountHits(w, k) = Len(Purge(a))
  BY <1>6, <1>7, AgesAre DEF CountHits
<1> QED BY <1>1, <1>5, <1>6, <1>7, <1>8, <1>9

\* add and the record kept of it: one more hit is owed of the key that was hit, and no
\* more than before of any other.
LEMMA RememberKeeps ==
    ASSUME NEW w, NEW after, NEW debts, WindowOK(w, after), OwesOK(w, debts), NEW k \in Keys
    PROVE  /\ WindowOK(AfterAdd(w, k), HitAfter(after, k))
           /\ OwesOK(AfterAdd(w, k), Owing(debts, HitAfter(after, k), k))
           /\ Len(Owing(debts, HitAfter(after, k), k)[k]) = Len(debts[k]) + 1
           /\ \A l \in Keys \ {k} :
                /\ Len(Owing(debts, HitAfter(after, k), k)[l]) \in Nat /\ Len(debts[l]) \in Nat
                /\ Len(Owing(debts, HitAfter(after, k), k)[l]) <= Len(debts[l])
<1>0. PICK after2, debts2 :
          /\ after2 = HitAfter(after, k) /\ after2 = [l \in Keys |-> IF l = k THEN {} ELSE after[l] \cup {k}]
          /\ debts2 = Owing(debts, HitAfter(after, k), k)
          /\ debts2 = [l \in Keys |-> IF l = k THEN Append(debts[k], 0)
                                      ELSE IF Cardinality(after2[l]) >= MaxKeys THEN <<>> ELSE debts[l]]
  BY DEF HitAfter, Owing
<1>1. PICK v : v = AfterAdd(w, k)
  OBVIOUS
<1>2. /\ InOrder(w) /\ w \in Windows
      /\ \A l \in Keys : w.ages[l] \in Seq(Ages) /\ w.after[l] \subseteq after[l] /\ after[l] \in SUBSET Keys /\ OwedOK(debts[l], w.ages[l])
  BY KnownAre DEF WindowOK, InOrder, OwesOK
<1>3. /\ InOrder(v) /\ Cardinality(Remembered(v)) <= MaxKeys
      /\ v.ages[k] = Append(Purge(w.ages[k]), 0) /\ v.after[k] = {}
      /\ \A l \in Keys \ {k} :
           /\ v.after[l] \subseteq w.after[l] \cup {k}
           /\ \/ v.ages[l] = w.ages[l]
              \/ v.ages[l] = <<>> /\ Len(w.ages[l]) > 0 /\ Last(w.ages[l]) >= Window
              \/ v.ages[l] = <<>> /\ Cardinality(w.after[l] \cup {k}) >= MaxKeys
  <2>1. /\ InOrder(AfterAdd(w, k)) /\ Cardinality(Remembered(AfterAdd(w, k))) <= MaxKeys
        /\ AfterAdd(w, k).ages[k] = Append(Purge(w.ages[k]), 0) /\ AfterAdd(w, k).after[k] = {}
        /\ \A l \in Keys \ {k} :
             /\ AfterAdd(w, k).after[l] \subseteq w.after[l] \cup {k}
             /\ \/ AfterAdd(w, k).ages[l] = w.ages[l]
                \/ AfterAdd(w, k).ages[l] = <<>> /\ Len(w.ages[l]) > 0 /\ Last(w.ages[l]) >= Window
                \/ AfterAdd(w, k).ages[l] = <<>> /\ Cardinality(w.after[l] \cup {k}) >= MaxKeys
    BY <1>2, AddIs, Zenon
  <2> QED BY <1>1, <2>1
<1>4. after2 \in [Keys -> SUBSET Keys] /\ \A l \in Keys : v.after[l] \subseteq after2[l]
  <2>1. \A l \in Keys : (IF l = k THEN {} ELSE after[l] \cup {k}) \in SUBSET Keys
    BY <1>2
  <2>2. ASSUME NEW l \in Keys PROVE v.after[l] \subseteq after2[l]
    <3>1. CASE l = k
      BY <1>3, <3>1
    <3>2. CASE l # k
      <4>1. v.after[l] \subseteq w.after[l] \cup {k} /\ after2[l] = after[l] \cup {k}
        BY <1>0, <1>3, <3>2
      <4> QED BY <1>2, <4>1
    <3> QED BY <3>1, <3>2
  <2> QED BY <1>0, <2>1, <2>2
<1>5. WindowOK(v, after2)
  BY <1>3, <1>4 DEF WindowOK
<1>6. OwedOK(debts2[k], v.ages[k]) /\ Len(debts2[k]) = Len(debts[k]) + 1
  <2>1. PICK a, o : a = w.ages[k] /\ o = debts[k] /\ a \in Seq(Ages) /\ OwedOK(o, a)
    BY <1>2
  <2>2. Purge(a) \in Seq(Ages) /\ OwedOK(o, Purge(a))
    BY <2>1, PurgeIs, PurgeKeepsOwed
  <2>3. OwedOK(Append(o, 0), Append(Purge(a), 0)) /\ Len(Append(o, 0)) = Len(o) + 1
    BY <2>2, HitIsOwed
  <2>4. debts2[k] = Append(o, 0) /\ v.ages[k] = Append(Purge(a), 0)
    BY <1>0, <1>3, <2>1
  <2> QED BY <2>1, <2>3, <2>4
<1>7. ASSUME NEW l \in Keys \ {k}
      PROVE  /\ OwedOK(debts2[l], v.ages[l])
             /\ Len(debts2[l]) \in Nat /\ Len(debts[l]) \in Nat /\ Len(debts2[l]) <= Len(debts[l])
  <2>1. PICK a, b, o : /\ a = w.ages[l] /\ b = v.ages[l] /\ o = debts[l] /\ a \in Seq(Ages) /\ b \in Seq(Ages)
                       /\ OwedOK(o, a) /\ o \in Seq(Ages) /\ Len(o) \in Nat /\ Len(<<>>) = 0
    <3>1. v.ages[l] \in Seq(Ages)
      BY <1>3, KnownAre DEF InOrder
    <3> QED BY <1>2, <3>1, AgesAre DEF OwedOK
  <2>2. debts2[l] = IF Cardinality(after2[l]) >= MaxKeys THEN <<>> ELSE o
    BY <1>0, <2>1
  <2>3. CASE Cardinality(after2[l]) >= MaxKeys
    <3>1. debts2[l] = <<>>
      BY <2>2, <2>3
    <3> QED BY <2>1, <3>1, NothingIsOwed
  <2>4. CASE ~(Cardinality(after2[l]) >= MaxKeys)
    <3>1. debts2[l] = o
      BY <2>2, <2>4
    <3>2. ~(Cardinality(w.after[l] \cup {k}) >= MaxKeys)
      <4> DEFINE A == w.after[l] \cup {k}
                 B == after2[l]
      <4>1. A \in SUBSET B /\ B \in SUBSET Keys
        <5>1. after2[l] \in SUBSET Keys /\ after2[l] = after[l] \cup {k} /\ w.after[l] \subseteq after[l]
          BY <1>0, <1>2, <1>4
        <5>2. w.after[l] \cup {k} \in SUBSET after2[l]
          BY <5>1
        <5> QED BY <5>1, <5>2
      <4> HIDE DEF A, B
      <4>2. IsFiniteSet(B)
        BY <4>1, LimitNumbers, FS_Subset
      <4>3. Cardinality(A) \in Nat /\ Cardinality(B) \in Nat /\ Cardinality(A) <= Cardinality(B)
        BY <4>1, <4>2, FS_Subset, FS_CardinalityType
      <4> QED BY <2>4, <4>3, LimitNumbers DEF A, B
    <3>3. b = a \/ (b = <<>> /\ Len(a) > 0 /\ Last(a) >= Window)
      BY <1>3, <2>1, <3>2
    <3>4. CASE b = a
      BY <2>1, <3>1, <3>4, LimitNumbers
    <3>5. CASE b = <<>> /\ Len(a) > 0 /\ Last(a) >= Window
      <4>1. o = <<>>
        BY <2>1, <3>5, SweptIsNotOwed
      <4> QED BY <2>1, <3>1, <4>1, NothingIsOwed
    <3> QED BY <3>3, <3>4, <3>5
  <2> QED BY <2>3, <2>4
<1>8. OwesOK(v, debts2)
  <2>1. \A l \in Keys : l = k \/ l \in Keys \ {k}
    OBVIOUS
  <2> QED BY <1>6, <1>7, <2>1 DEF OwesOK
<1> QED BY <1>0, <1>1, <1>5, <1>6, <1>7, <1>8

\* Time passes.
LEMMA PassingKeeps ==
    ASSUME NEW w, NEW after, NEW debts, WindowOK(w, after), OwesOK(w, debts),
           NEW v, v = [w EXCEPT !.ages = [k \in Keys |-> Older(@[k])]],
           NEW debts2, debts2 = [k \in Keys |-> Purge(Older(debts[k]))]
    PROVE  /\ WindowOK(v, after) /\ OwesOK(v, debts2)
           /\ \A k \in Keys : Len(debts2[k]) \in Nat /\ Len(debts[k]) \in Nat /\ Len(debts2[k]) <= Len(debts[k])
<1>1. /\ w \in Windows /\ w.ages \in [Keys -> Seq(Ages)] /\ w.after \in [Keys -> SUBSET Keys]
      /\ \A k \in Keys : w.ages[k] \in Seq(Ages) /\ OwedOK(debts[k], w.ages[k])
  BY DEF WindowOK, InOrder, OwesOK, Windows
<1>2. v.after = w.after /\ v.ages = [k \in Keys |-> Older(w.ages[k])] /\ v = [ages |-> v.ages, after |-> v.after]
  BY <1>1 DEF Windows
<1>3. ASSUME NEW k \in Keys
      PROVE  /\ Older(w.ages[k]) \in Seq(Ages) /\ Len(Older(w.ages[k])) = Len(w.ages[k])
             /\ OwedOK(Purge(Older(debts[k])), Older(w.ages[k])) /\ Len(Purge(Older(debts[k]))) <= Len(debts[k])
             /\ Len(Purge(Older(debts[k]))) \in Nat /\ Len(debts[k]) \in Nat
  <2>1. PICK a, o : a = w.ages[k] /\ o = debts[k] /\ a \in Seq(Ages) /\ OwedOK(o, a) /\ o \in Seq(Ages)
    BY <1>1 DEF OwedOK
  <2>2. /\ Older(a) \in Seq(Ages) /\ Len(Older(a)) = Len(a)
        /\ OwedOK(Purge(Older(o)), Older(a)) /\ Len(Purge(Older(o))) <= Len(o)
    BY <2>1, OlderIsOwed
  <2>3. Purge(Older(o)) \in Seq(Ages)
    BY <2>2 DEF OwedOK
  <2> QED BY <2>1, <2>2, <2>3, AgesAre
<1>4. v \in Windows
  <2>1. v.ages \in [Keys -> Seq(Ages)]
    BY <1>2, <1>3
  <2> QED BY <1>1, <1>2, <2>1 DEF Windows
<1>5. Remembered(v) = Remembered(w)
  <2>1. \A k \in Keys : k \in Remembered(v) <=> k \in Remembered(w)
    <3>1. \A k \in Keys : (k \in Remembered(v) <=> Len(v.ages[k]) > 0) /\ (k \in Remembered(w) <=> Len(w.ages[k]) > 0)
      BY <1>1, <1>4, KnownAre
    <3> QED BY <1>2, <1>3, <3>1
  <2> QED BY <2>1 DEF Remembered
<1>6. WindowOK(v, after)
  BY <1>2, <1>4, <1>5 DEF WindowOK, InOrder
<1>7. OwesOK(v, debts2)
  BY <1>2, <1>3 DEF OwesOK
<1> QED BY <1>3, <1>6, <1>7

\* The logins under way for a key, past the check and not yet answered.
AskingFor(ask, k) == {c \in Logins : ask[c] = k}

BoundOK(lim, debts, ask) ==
    /\ lim \in {"query", "login"} /\ ask \in [Logins -> Keys \cup {NoKey}]
    /\ lim = "query" => /\ \A c \in Logins : ask[c] = NoKey
                        /\ \A k \in Keys : Len(debts[k]) <= Limit
    /\ lim = "login" => \A k \in Keys :
                            Len(debts[k]) + Cardinality(AskingFor(ask, k)) <= Limit + Cardinality(Logins) - 1

LimitsInv == WindowOK(hits, since) /\ OwesOK(hits, owed) /\ BoundOK(limiter, owed, asking)

\* There is a login, and there are finitely many.
LEMMA LoginsAre ==
    /\ Cardinality(Logins) \in Nat /\ Cardinality(Logins) >= 1
    /\ \A ask, k : AskingFor(ask, k) \in SUBSET Logins /\ IsFiniteSet(AskingFor(ask, k)) /\ Cardinality(AskingFor(ask, k)) \in Nat
                   /\ Cardinality(AskingFor(ask, k)) <= Cardinality(Logins)
<1>1. Cardinality(Logins) \in Nat /\ Cardinality(Logins) # 0
  BY LimitNumbers, FS_CardinalityType, FS_EmptySet
<1>2. \A S \in SUBSET Logins : IsFiniteSet(S) /\ Cardinality(S) \in Nat /\ Cardinality(S) <= Cardinality(Logins)
  BY LimitNumbers, FS_Subset, FS_CardinalityType
<1>3. \A ask, k : AskingFor(ask, k) \in SUBSET Logins
  BY DEF AskingFor
<1> QED BY <1>1, <1>2, <1>3

\* What is owed is counted in naturals.
LEMMA LensAre ==
    ASSUME NEW w, NEW debts, OwesOK(w, debts), NEW k \in Keys
    PROVE  Len(debts[k]) \in Nat
<1>1. debts[k] \in Seq(Ages)
  BY DEF OwesOK, OwedOK
<1> QED BY <1>1, AgesAre

\* What is counted and what is owed of it hold together, and the window never
\* remembers more keys than it may.
THEOREM LimitsInvariant == LimitsSpec => []LimitsInv
<1>1. LimitsInit => LimitsInv
  <2> SUFFICES ASSUME LimitsInit PROVE LimitsInv
    OBVIOUS
  <2>1. hits.ages = [k \in Keys |-> <<>>] /\ hits.after = [k \in Keys |-> {}] /\ <<>> \in Seq(Ages)
    BY DEF LimitsInit
  <2>2. hits \in Windows
    <3>1. [k \in Keys |-> <<>>] \in [Keys -> Seq(Ages)] /\ [k \in Keys |-> {}] \in [Keys -> SUBSET Keys]
      BY <2>1
    <3> QED BY <3>1 DEF LimitsInit, Windows
  <2>3. Remembered(hits) = {}
    BY <2>1 DEF Remembered
  <2>4. InOrder(hits)
    BY <2>1, <2>2, <2>3 DEF InOrder, Ordered
  <2>5. WindowOK(hits, since)
    <3>1. Cardinality(Remembered(hits)) <= MaxKeys
      BY <2>3, FS_EmptySet, LimitNumbers
    <3>2. since \in [Keys -> SUBSET Keys] /\ \A k \in Keys : hits.after[k] \subseteq since[k]
      BY <2>1 DEF LimitsInit
    <3> QED BY <2>4, <3>1, <3>2 DEF WindowOK
  <2>6. OwesOK(hits, owed)
    BY <2>1, NothingIsOwed DEF OwesOK, LimitsInit
  <2>7. BoundOK(limiter, owed, asking)
    <3>1. \A k \in Keys : AskingFor(asking, k) = {} /\ Len(owed[k]) = 0
      BY LimitsAssumption DEF AskingFor, LimitsInit
    <3>2. Cardinality({}) = 0
      BY FS_EmptySet
    <3>3. limiter \in {"query", "login"} /\ asking \in [Logins -> Keys \cup {NoKey}] /\ \A c \in Logins : asking[c] = NoKey
      BY DEF LimitsInit
    <3>4. 0 <= Limit /\ 0 + 0 <= Limit + Cardinality(Logins) - 1
      BY LoginsAre, LimitNumbers
    <3>5. \A k \in Keys : Len(owed[k]) <= Limit
      BY <3>1, <3>4
    <3>6. \A k \in Keys : Len(owed[k]) + Cardinality(AskingFor(asking, k)) <= Limit + Cardinality(Logins) - 1
      BY <3>1, <3>2, <3>4
    <3> QED BY <3>3, <3>5, <3>6 DEF BoundOK
  <2> QED BY <2>5, <2>6, <2>7 DEF LimitsInv
<1>2. LimitsInv /\ [LimitsNext]_limitVars => LimitsInv'
  <2> SUFFICES ASSUME LimitsInv, [LimitsNext]_limitVars PROVE LimitsInv'
    OBVIOUS
  <2>1. WindowOK(hits, since) /\ OwesOK(hits, owed) /\ BoundOK(limiter, owed, asking)
    BY DEF LimitsInv
  <2>2. \A k \in Keys : Len(owed[k]) \in Nat
    BY <2>1, LensAre
  <2>3. ASSUME NEW k \in Keys, Query(k) PROVE LimitsInv'
    <3>1. PICK w : w = AfterCount(hits, k)
      OBVIOUS
    <3>2. WindowOK(w, since) /\ OwesOK(w, owed) /\ Len(owed[k]) <= CountHits(hits, k) /\ CountHits(hits, k) \in Nat
      BY <2>1, <3>1, CountKeeps
    <3>3. CASE CountHits(hits, k) >= Limit
      BY <2>1, <2>3, <3>1, <3>2, <3>3 DEF Query, LimitsInv
    <3>4. CASE ~(CountHits(hits, k) >= Limit)
      <4>1. hits' = AfterAdd(w, k) /\ Remember(k) /\ limiter = "query" /\ UNCHANGED <<limiter, asking>>
        BY <2>3, <3>1, <3>4 DEF Query
      <4>2. PICK d : d = owed' /\ d = Owing(owed, HitAfter(since, k), k) /\ since' = HitAfter(since, k)
        BY <4>1 DEF Remember, Owing, HitAfter
      <4>3. /\ WindowOK(hits', since') /\ OwesOK(hits', d) /\ Len(d[k]) = Len(owed[k]) + 1
            /\ \A l \in Keys \ {k} : Len(d[l]) \in Nat /\ Len(owed[l]) \in Nat /\ Len(d[l]) <= Len(owed[l])
        BY <3>2, <4>1, <4>2, RememberKeeps
      <4>4. \A l \in Keys : Len(d[l]) <= Limit
        <5>1. Len(owed[k]) + 1 <= Limit
          BY <2>2, <3>2, <3>4, LimitNumbers
        <5>2. \A l \in Keys : Len(owed[l]) <= Limit
          BY <2>1, <4>1 DEF BoundOK
        <5> QED BY <4>3, <5>1, <5>2, LimitNumbers
      <4>5. BoundOK(limiter', d, asking')
        BY <2>1, <4>1, <4>4 DEF BoundOK
      <4> QED BY <4>2, <4>3, <4>5 DEF LimitsInv
    <3> QED BY <3>3, <3>4
  <2>4. ASSUME NEW c \in Logins, NEW k \in Keys, BeginLogin(c, k) PROVE LimitsInv'
    <3>1. PICK w : w = AfterCount(hits, k)
      OBVIOUS
    <3>2. WindowOK(w, since) /\ OwesOK(w, owed) /\ Len(owed[k]) <= CountHits(hits, k) /\ CountHits(hits, k) \in Nat
      BY <2>1, <3>1, CountKeeps
    <3>3. WindowOK(hits, since)' /\ OwesOK(hits, owed)'
      BY <2>4, <3>1, <3>2 DEF BeginLogin
    <3>4. CASE CountHits(hits, k) >= Limit
      <4>1. UNCHANGED <<limiter, owed, asking>>
        BY <2>4, <3>4 DEF BeginLogin
      <4> QED BY <2>1, <3>3, <4>1 DEF LimitsInv
    <3>5. CASE ~(CountHits(hits, k) >= Limit)
      <4>1. limiter = "login" /\ asking[c] = NoKey /\ asking' = [asking EXCEPT ![c] = k] /\ UNCHANGED <<limiter, owed>>
        BY <2>4, <3>5 DEF BeginLogin
      <4>2. asking' \in [Logins -> Keys \cup {NoKey}]
        BY <2>1, <4>1 DEF BoundOK
      <4>3. \A l \in Keys \ {k} : AskingFor(asking', l) = AskingFor(asking, l)
        BY <2>1, <4>1, LimitsAssumption DEF AskingFor, BoundOK
      <4>4. Len(owed[k]) + Cardinality(AskingFor(asking', k)) <= Limit + Cardinality(Logins) - 1
        <5>1. Len(owed[k]) + 1 <= Limit
          BY <2>2, <3>2, <3>5, LimitNumbers
        <5>2. Cardinality(AskingFor(asking', k)) \in Nat /\ Cardinality(AskingFor(asking', k)) <= Cardinality(Logins)
          BY LoginsAre
        <5> QED BY <2>2, <5>1, <5>2, LoginsAre, LimitNumbers
      <4>5. \A l \in Keys : Len(owed[l]) + Cardinality(AskingFor(asking', l)) <= Limit + Cardinality(Logins) - 1
        BY <2>1, <4>1, <4>3, <4>4 DEF BoundOK
      <4>6. BoundOK(limiter', owed', asking')
        BY <2>1, <4>1, <4>2, <4>5 DEF BoundOK
      <4> QED BY <3>3, <4>6 DEF LimitsInv
    <3> QED BY <3>4, <3>5
  <2>5. ASSUME NEW c \in Logins, FinishLogin(c) PROVE LimitsInv'
    <3>1. PICK k \in Keys : k = asking[c] /\ limiter = "login"
      BY <2>1, <2>5 DEF FinishLogin, BoundOK
    <3>2. asking' = [asking EXCEPT ![c] = NoKey] /\ limiter' = limiter
      BY <2>5 DEF FinishLogin
    <3>3. asking' \in [Logins -> Keys \cup {NoKey}]
      BY <2>1, <3>2 DEF BoundOK
    <3>4. /\ Cardinality(AskingFor(asking', k)) = Cardinality(AskingFor(asking, k)) - 1
          /\ \A l \in Keys \ {k} : AskingFor(asking', l) = AskingFor(asking, l)
      <4>1. AskingFor(asking', k) = AskingFor(asking, k) \ {c} /\ c \in AskingFor(asking, k)
        BY <2>1, <3>1, <3>2, LimitsAssumption DEF AskingFor, BoundOK
      <4>2. \A l \in Keys \ {k} : AskingFor(asking', l) = AskingFor(asking, l)
        BY <2>1, <3>1, <3>2, LimitsAssumption DEF AskingFor, BoundOK
      <4>3. Cardinality(AskingFor(asking, k) \ {c}) = Cardinality(AskingFor(asking, k)) - 1
        BY <4>1, LoginsAre, FS_RemoveElement
      <4> QED BY <4>1, <4>2, <4>3
    <3>5. \A l \in Keys : Len(owed[l]) + Cardinality(AskingFor(asking, l)) <= Limit + Cardinality(Logins) - 1
      BY <2>1, <3>1 DEF BoundOK
    <3>6. CASE hits' = AfterAdd(hits, k) /\ Remember(k)
      <4>1. PICK d : d = owed' /\ d = Owing(owed, HitAfter(since, k), k) /\ since' = HitAfter(since, k)
        BY <3>6 DEF Remember, Owing, HitAfter
      <4>2. /\ WindowOK(hits', since') /\ OwesOK(hits', d) /\ Len(d[k]) = Len(owed[k]) + 1
            /\ \A l \in Keys \ {k} : Len(d[l]) \in Nat /\ Len(owed[l]) \in Nat /\ Len(d[l]) <= Len(owed[l])
        BY <2>1, <3>6, <4>1, RememberKeeps
      <4>3. Len(d[k]) + Cardinality(AskingFor(asking', k)) <= Limit + Cardinality(Logins) - 1
        BY <2>2, <3>4, <3>5, <4>2, LoginsAre, LimitNumbers
      <4>4. ASSUME NEW l \in Keys \ {k}
            PROVE  Len(d[l]) + Cardinality(AskingFor(asking', l)) <= Limit + Cardinality(Logins) - 1
        <5>1. Len(owed[l]) + Cardinality(AskingFor(asking, l)) <= Limit + Cardinality(Logins) - 1
          BY <3>5
        <5>2. AskingFor(asking', l) = AskingFor(asking, l) /\ Len(d[l]) \in Nat /\ Len(owed[l]) \in Nat /\ Len(d[l]) <= Len(owed[l])
          BY <3>4, <4>2
        <5>3. Cardinality(AskingFor(asking, l)) \in Nat
          BY LoginsAre
        <5> QED BY <5>1, <5>2, <5>3, LoginsAre, LimitNumbers
      <4>5. BoundOK(limiter', d, asking')
        BY <2>1, <3>1, <3>2, <3>3, <4>3, <4>4 DEF BoundOK
      <4> QED BY <4>1, <4>2, <4>5 DEF LimitsInv
    <3>7. CASE UNCHANGED <<hits, owed, since>>
      <4>1. \A l \in Keys : Len(owed[l]) + Cardinality(AskingFor(asking', l)) <= Limit + Cardinality(Logins) - 1
        <5>1. Len(owed[k]) + Cardinality(AskingFor(asking', k)) <= Limit + Cardinality(Logins) - 1
          BY <2>2, <3>4, <3>5, LoginsAre, LimitNumbers
        <5> QED BY <3>4, <3>5, <5>1
      <4>2. BoundOK(limiter', owed', asking')
        BY <2>1, <3>1, <3>2, <3>3, <3>7, <4>1 DEF BoundOK
      <4> QED BY <2>1, <3>7, <4>2 DEF LimitsInv
    <3> QED BY <2>5, <3>1, <3>6, <3>7 DEF FinishLogin
  <2>6. CASE PassTime
    <3>1. PICK v, d : /\ v = hits' /\ d = owed' /\ v = [hits EXCEPT !.ages = [k \in Keys |-> Older(@[k])]]
                      /\ d = [k \in Keys |-> Purge(Older(owed[k]))]
      BY <2>6 DEF PassTime
    <3>2. /\ WindowOK(v, since) /\ OwesOK(v, d)
          /\ \A k \in Keys : Len(d[k]) \in Nat /\ Len(owed[k]) \in Nat /\ Len(d[k]) <= Len(owed[k])
      BY <2>1, <3>1, PassingKeeps
    <3>3. UNCHANGED <<limiter, asking, since>>
      BY <2>6 DEF PassTime
    <3>4. limiter = "query" => \A k \in Keys : Len(d[k]) <= Limit
      BY <2>1, <3>2, LimitNumbers DEF BoundOK
    <3>5. limiter = "login" => \A k \in Keys : Len(d[k]) + Cardinality(AskingFor(asking, k)) <= Limit + Cardinality(Logins) - 1
      <4> SUFFICES ASSUME limiter = "login", NEW k \in Keys
                   PROVE  Len(d[k]) + Cardinality(AskingFor(asking, k)) <= Limit + Cardinality(Logins) - 1
        OBVIOUS
      <4>1. Len(owed[k]) + Cardinality(AskingFor(asking, k)) <= Limit + Cardinality(Logins) - 1
        BY <2>1 DEF BoundOK
      <4> QED BY <3>2, <4>1, LoginsAre, LimitNumbers
    <3>6. BoundOK(limiter, d, asking)
      BY <2>1, <3>4, <3>5 DEF BoundOK
    <3> QED BY <3>1, <3>2, <3>3, <3>6 DEF LimitsInv
  <2>7. CASE UNCHANGED limitVars
    BY <2>1, <2>7 DEF LimitsInv, limitVars
  <2> QED BY <2>3, <2>4, <2>5, <2>6, <2>7 DEF LimitsNext
<1> QED BY <1>1, <1>2, PTL DEF LimitsSpec

\* Type correctness of the limiters.
THEOREM LimitsTypes == LimitsSpec => []LimitsTypeOK
<1>1. LimitsInv => LimitsTypeOK
  BY DEF LimitsInv, WindowOK, InOrder, BoundOK, LimitsTypeOK, Windows, Ages
<1> QED BY <1>1, LimitsInvariant, PTL

\* sliding_window.py: hitting other keys clears nobody's bucket before as many of them
\* have been hit as the window remembers, so a key never has more than Limit accepted
\* hits in a window (and, for logins, those already past the check), for every number
\* of keys, callers and hits.
THEOREM BucketsAreKept == LimitsSpec => []AttemptsAreBounded
<1>1. LimitsInv => AttemptsAreBounded
  <2> SUFFICES ASSUME LimitsInv PROVE AttemptsAreBounded
    OBVIOUS
  <2>1. WindowOK(hits, since) /\ OwesOK(hits, owed) /\ BoundOK(limiter, owed, asking)
    BY DEF LimitsInv
  <2>2. ASSUME NEW k \in Keys, limiter = "login" PROVE Len(owed[k]) <= Limit + Cardinality(Logins) - 1
    <3>1. Len(owed[k]) + Cardinality(AskingFor(asking, k)) <= Limit + Cardinality(Logins) - 1
      BY <2>1, <2>2 DEF BoundOK
    <3>2. Len(owed[k]) \in Nat
      BY <2>1, LensAre
    <3> QED BY <3>1, <3>2, LoginsAre, LimitNumbers
  <2> QED BY <2>1, <2>2 DEF AttemptsAreBounded, WindowOK, BoundOK
<1> QED BY <1>1, LimitsInvariant, PTL
=============================================================================
