--------------------------- MODULE TestRunsProofs ---------------------------
(***************************************************************************)
(* Theorems about question sets and test runs, for every number of         *)
(* curators, texts, questions and runs.                                    *)
(***************************************************************************)
EXTENDS TestRuns, FiniteSetTheorems, WellFoundedInduction, TLAPS

-----------------------------------------------------------------------------
(* The inductive invariant.                                                 *)

Operations == {"none", "add", "edit", "archive", "archive_set", "run"}
Manifests  == UNION {[S -> Texts] : S \in SUBSET Questions}

QuestionRows == [lineage : Nat, text : Texts \cup {NoText}, position : Nat, archived : BOOLEAN]

Requests == [op : Operations, row : 0..MaxQuestions, text : Texts \cup {NoText},
             position : Nat, forks : BOOLEAN, asked : Manifests]

RunStatuses   == {"absent", "failed(interrupted)"} \cup UnderWay \cup Verdicts
WorkerStages  == {"none", "claimed", "asking", "gone"} \cup Verdicts

RunRows == [status : RunStatuses, asked : Manifests, answered : SUBSET Questions,
            done : 0..MaxQuestions, flag : BOOLEAN, worker : WorkerStages]

RunsTypes ==
    /\ question \in [Questions -> QuestionRows]
    /\ setArchived \in BOOLEAN
    /\ lockedBy \in Curators \cup {NoCurator}
    /\ curator \in [Curators -> Requests]
    /\ run \in [Runs -> RunRows]

\* Rows are inserted one after the other: the row after the last one is free.  A row
\* is of a lineage that is not younger, at a place that is not above its number.
RowsInOrder ==
    /\ \E n \in 0..MaxQuestions : Existing = 1..n
    /\ \A q \in Existing :
          question[q].lineage \in 1..q /\ question[q].text \in Texts /\ question[q].position < q

\* A lineage has one live row, and live rows are at places of their own.
LiveRowsApart ==
    \A p, q \in Live :
        question[p].lineage = question[q].lineage \/ question[p].position = question[q].position
            => p = q

\* Who has decided something holds the lock, and nobody has archived the set.
DecidedUnderLock ==
    \A c \in Curators : curator[c] # IdleCurator => lockedBy = c /\ ~setArchived

\* What was decided under the lock is still so when it is written.
Stands(request) ==
    /\ request.op = "add" =>
          /\ request.text \in Texts
          /\ Cardinality(Live) < MaxLive
          /\ request.position <= Cardinality(Existing)
          /\ \A q \in Existing : question[q].position < request.position
    /\ request.op = "edit" =>
          request.row \in Live /\ request.text \in Texts /\ request.forks = Referenced(request.row)
    /\ request.op = "archive" => request.row \in Live
    /\ request.op = "run" => request.asked = Manifest

RunsInOrder ==
    /\ \E m \in 0..MaxRuns : Enqueued = 1..m
    /\ \A r \in Runs : run[r].status = "absent" => run[r] = NoRun

\* A run asks rows that exist, one of a lineage, in the words they still have.
AskedOfHistory ==
    \A r \in Runs :
        /\ Asked(r) \subseteq Existing
        /\ \A q \in Asked(r) : question[q].text = run[r].asked[q]
        /\ \A p, q \in Asked(r) : question[p].lineage = question[q].lineage => p = q

\* A worker that has succeeded has asked everything; one that a conclusion leaves
\* behind has nothing more to write.
WorkerFollows(row) ==
    /\ row.answered \subseteq DOMAIN row.asked
    /\ row.done = Cardinality(row.answered)
    /\ row.status \in {"absent", "queued"} => row.worker = "none"
    /\ "succeeded" \in {row.status, row.worker} => DOMAIN row.asked \subseteq row.answered
    /\ row.status \in Verdicts => row.worker \in {"none", "gone"}

SetInv    == RowsInOrder /\ LiveRowsApart /\ Cardinality(Live) <= MaxLive
DeskInv   == DecidedUnderLock /\ \A c \in Curators : Stands(curator[c])
RunInv    == RunsInOrder /\ AskedOfHistory /\ \A r \in Runs : WorkerFollows(run[r])

RunsInv == RunsTypes /\ SetInv /\ DeskInv /\ RunInv

-----------------------------------------------------------------------------
(* What the counts and the places are.                                      *)

\* A set of numbers that is not empty has a least one.
LEMMA LeastOf ==
    ASSUME NEW S \in SUBSET Nat, S # {}
    PROVE  \E n \in S : \A m \in S : n <= m
<1> DEFINE Below == OpToRel(<, Nat)
<1>1. IsWellFoundedOn(Below, Nat)
  BY NatLessThanWellFounded
<1>2. \A x, y \in Nat : y < x => <<y, x>> \in Below
  BY DEF OpToRel
<1> HIDE DEF Below
<1>3. PICK n \in S : \A m \in S : ~ (<<m, n>> \in Below)
  BY <1>1, WFMin
<1>4. \A m \in S : ~ (m < n)
  BY <1>2, <1>3
<1> QED BY <1>4

\* The rows are those up to the last one, and the next one is free.
LEMMA RowsCounted ==
    ASSUME RowsInOrder
    PROVE  /\ Existing = 1..Cardinality(Existing)
           /\ Cardinality(Existing) \in 0..MaxQuestions
           /\ InsertedRow = Cardinality(Existing) + 1
           /\ IsFiniteSet(Existing)
<1>1. PICK n \in 0..MaxQuestions : Existing = 1..n
  BY DEF RowsInOrder
<1>2. n \in Nat /\ MaxQuestions \in Nat
  BY <1>1, RunsBounds
<1>3. IsFiniteSet(1..n) /\ Cardinality(1..n) = n
  BY <1>2, FS_Interval
<1> QED BY <1>1, <1>3 DEF InsertedRow

\* Runs are numbered in the order of their enqueue.
LEMMA RunsCounted ==
    ASSUME RunsInOrder
    PROVE  /\ Enqueued = 1..Cardinality(Enqueued)
           /\ Cardinality(Enqueued) \in 0..MaxRuns
<1>1. PICK m \in 0..MaxRuns : Enqueued = 1..m
  BY DEF RunsInOrder
<1>2. m \in Nat /\ MaxRuns \in Nat
  BY <1>1, RunsBounds
<1>3. Cardinality(1..m) = m
  BY <1>2, FS_Interval
<1> QED BY <1>1, <1>3

\* Finitely many questions are live.
LEMMA LiveIsFinite ==
    ASSUME RowsInOrder
    PROVE  IsFiniteSet(Live) /\ Cardinality(Live) \in Nat
<1>1. Live \in SUBSET Existing
  BY DEF Live
<1> QED BY <1>1, RowsCounted, FS_Subset, FS_CardinalityType

\* The next place is above that of every row, and not above the number of rows.
LEMMA NextPositionIsAbove ==
    ASSUME RunsTypes, RowsInOrder
    PROVE  /\ NextPosition \in 0..MaxQuestions
           /\ NextPosition <= Cardinality(Existing)
           /\ \A q \in Existing : question[q].position < NextPosition
<1> DEFINE n == Cardinality(Existing)
           Above == {p \in 0..n : \A q \in Existing : question[q].position < p}
<1>1. Existing = 1..n /\ n \in 0..MaxQuestions
  BY RowsCounted
<1>2. MaxQuestions \in Nat
  BY RunsBounds
<1>3. \A q \in Existing : question[q].position \in Nat /\ question[q].position < q
  BY DEF RunsTypes, QuestionRows, RowsInOrder, Existing
<1> HIDE DEF n
<1>4. n \in Above
  BY <1>1, <1>2, <1>3
<1>5. PICK p \in Above : \A m \in Above : p <= m
  <2>1. Above \in SUBSET Nat /\ Above # {}
    <3>1. Above # {}
      BY <1>4
    <3>2. 0..n \subseteq Nat
      BY <1>1, <1>2
    <3> QED BY <3>1, <3>2
  <2> HIDE DEF Above
  <2> QED BY <2>1, LeastOf
<1>6. p = 0 \/ \E q \in Existing : question[q].position = p - 1
  <2>1. SUFFICES ASSUME p # 0
                 PROVE  \E q \in Existing : question[q].position = p - 1
    OBVIOUS
  <2>2. p - 1 \in 0..n /\ p - 1 \notin Above
    BY <1>1, <1>2, <1>5, <2>1
  <2>3. PICK q \in Existing : ~(question[q].position < p - 1)
    BY <2>2
  <2> QED BY <1>3, <1>5, <2>2, <2>3
<1>7. /\ NextPosition \in 0..MaxQuestions
      /\ \A q \in Existing : question[q].position < NextPosition
      /\ NextPosition = 0 \/ \E q \in Existing : question[q].position = NextPosition - 1
  <2>1. p \in 0..MaxQuestions
    BY <1>1, <1>2
  <2> QED BY <1>6, <2>1 DEF NextPosition
<1>8. NextPosition <= n
  BY <1>1, <1>2, <1>3, <1>7
<1> QED BY <1>7, <1>8 DEF n

-----------------------------------------------------------------------------
(* Requests.                                                                *)

\* A run may have an empty manifest.
LEMMA NothingIsAsked == <<>> \in Manifests
<1>1. <<>> \in [{} -> Texts]
  OBVIOUS
<1> QED BY <1>1 DEF Manifests

\* A curator without a request has decided nothing.
LEMMA IdleIsARequest == IdleCurator \in Requests /\ Stands(IdleCurator)
<1>1. 0 \in 0..MaxQuestions
  BY RunsBounds
<1> QED BY <1>1, NothingIsAsked DEF IdleCurator, Requests, Operations, Stands

\* What stands of a request depends on the questions and on what the runs ask.
LEMMA RequestFrame ==
    ASSUME UNCHANGED question, \A r \in Runs : Asked(r)' = Asked(r)
    PROVE  /\ SetInv => SetInv'
           /\ Existing' = Existing /\ Live' = Live /\ Manifest' = Manifest
           /\ \A q : Referenced(q)' = Referenced(q)
<1>1. Existing' = Existing /\ Live' = Live /\ Manifest' = Manifest
  BY DEF Existing, Live, Manifest
<1>2. \A q : Referenced(q)' = Referenced(q)
  BY DEF Referenced
<1> QED BY <1>1, <1>2 DEF SetInv, RowsInOrder, LiveRowsApart

\* Neither questions nor runs change.
LEMMA RunFrame ==
    ASSUME RunInv, UNCHANGED <<question, run>>
    PROVE  RunInv'
BY DEF RunInv, RunsInOrder, AskedOfHistory, WorkerFollows, Enqueued, Asked, Existing

\* A request that takes the lock with a decision that stands.
LEMMA TakeLockKeeps ==
    ASSUME RunsInv, NEW c \in Curators, NEW request \in Requests, Stands(request),
           TakeLock(c, request)
    PROVE  RunsInv'
<1> USE DEF RunsInv
<1>1. RunsTypes'
  BY DEF RunsTypes, TakeLock
<1>2. /\ SetInv'
      /\ question' = question /\ Existing' = Existing /\ Live' = Live /\ Manifest' = Manifest
      /\ \A q : Referenced(q)' = Referenced(q)
  BY RequestFrame DEF TakeLock, Asked
<1>3. RunInv'
  BY RunFrame DEF TakeLock
<1>4. DeskInv'
  <2>1. \A d \in Curators : curator[d] = IdleCurator
    BY CuratorsAssumption DEF TakeLock, LockIsFree, DeskInv, DecidedUnderLock
  <2>2. \A d \in Curators : curator'[d] = IF d = c THEN request ELSE curator[d]
    BY DEF TakeLock, RunsTypes
  <2>3. DecidedUnderLock'
    BY <2>1, <2>2 DEF TakeLock, DecidedUnderLock
  <2>4. ASSUME NEW d \in Curators
        PROVE  Stands(curator[d])'
    <3>1. Stands(curator'[d])
      BY <2>2 DEF DeskInv
    <3> QED BY <1>2, <3>1 DEF Stands
  <2> QED BY <2>3, <2>4 DEF DeskInv
<1> QED BY <1>1, <1>2, <1>3, <1>4

\* After a request has given up the lock nobody has decided anything.
LEMMA GiveUpLockIdles ==
    ASSUME RunsInv, NEW c \in Curators, curator[c] # IdleCurator, GiveUpLock(c)
    PROVE  /\ lockedBy' \in Curators \cup {NoCurator}
           /\ curator' \in [Curators -> Requests]
           /\ DeskInv'
<1>1. curator \in [Curators -> Requests]
  BY DEF RunsInv, RunsTypes
<1>2. \A d \in Curators : curator'[d] = IdleCurator
  BY <1>1 DEF RunsInv, DeskInv, DecidedUnderLock, GiveUpLock
<1>3. curator' \in [Curators -> Requests]
  BY <1>1, IdleIsARequest DEF GiveUpLock
<1>4. DeskInv'
  <2>1. Stands(IdleCurator)'
    BY DEF IdleCurator, Stands
  <2> QED BY <1>2, <2>1 DEF DeskInv, DecidedUnderLock
<1> QED BY <1>3, <1>4 DEF GiveUpLock

\* A request that gives up changes nothing.
LEMMA AbandonKeeps ==
    ASSUME RunsInv, NEW c \in Curators, AbandonRequest(c)
    PROVE  RunsInv'
<1>1. SetInv' /\ RunInv'
  BY RequestFrame, RunFrame DEF AbandonRequest, RunsInv, Asked
<1> QED BY <1>1, GiveUpLockIdles DEF AbandonRequest, RunsInv, RunsTypes

\* A request decides under the lock, and what it decides stands.
LEMMA BeginKeeps ==
    ASSUME RunsInv, NEW c \in Curators,
           \/ \E t \in Texts : BeginAdd(c, t) \/ \E q \in Questions : BeginEdit(c, q, t)
           \/ \E q \in Questions : BeginArchive(c, q)
           \/ BeginArchiveSet(c) \/ BeginRun(c)
    PROVE  RunsInv'
<1> USE DEF RunsInv
<1>1. RowsInOrder /\ RunsTypes
  BY DEF SetInv
<1>2. IdleCurator \in Requests /\ Questions \subseteq 0..MaxQuestions
  BY IdleIsARequest, RunsBounds DEF Questions
<1>3. ASSUME NEW t \in Texts, BeginAdd(c, t) PROVE RunsInv'
  <2> DEFINE request ==
        [IdleCurator EXCEPT !.op = "add", !.text = t, !.position = NextPosition]
  <2>1. request \in Requests
    <3>1. NextPosition \in Nat
      BY <1>1, NextPositionIsAbove, RunsBounds
    <3> QED BY <1>2, <3>1 DEF Requests, Operations
  <2>2. Stands(request)
    BY <1>1, <1>3, NextPositionIsAbove DEF BeginAdd, Stands, IdleCurator
  <2> QED BY <1>3, <2>1, <2>2, TakeLockKeeps DEF BeginAdd
<1>4. ASSUME NEW t \in Texts, NEW q \in Questions, BeginEdit(c, q, t) PROVE RunsInv'
  <2> DEFINE request ==
        [IdleCurator EXCEPT !.op = "edit", !.row = q, !.text = t, !.forks = Referenced(q)]
  <2>1. request \in Requests
    BY <1>2 DEF Requests, Operations, Referenced
  <2>2. Stands(request)
    BY <1>4 DEF BeginEdit, Stands, IdleCurator
  <2> QED BY <1>4, <2>1, <2>2, TakeLockKeeps DEF BeginEdit
<1>5. ASSUME NEW q \in Questions, BeginArchive(c, q) PROVE RunsInv'
  <2> DEFINE request == [IdleCurator EXCEPT !.op = "archive", !.row = q]
  <2>1. request \in Requests
    BY <1>2 DEF Requests, Operations
  <2>2. Stands(request)
    BY <1>5 DEF BeginArchive, Stands, IdleCurator
  <2> QED BY <1>5, <2>1, <2>2, TakeLockKeeps DEF BeginArchive
<1>6. CASE BeginArchiveSet(c)
  <2> DEFINE request == [IdleCurator EXCEPT !.op = "archive_set"]
  <2>1. request \in Requests /\ Stands(request)
    BY <1>2 DEF Requests, Operations, Stands, IdleCurator
  <2> QED BY <1>6, <2>1, TakeLockKeeps DEF BeginArchiveSet
<1>7. CASE BeginRun(c)
  <2> DEFINE request == [IdleCurator EXCEPT !.op = "run", !.asked = Manifest]
  <2>1. Manifest \in Manifests
    <3>1. \A p \in Live : question[p].text \in Texts
      BY <1>1 DEF Live, RowsInOrder
    <3>2. Manifest \in [Live -> Texts]
      BY <3>1 DEF Manifest
    <3>3. Live \in SUBSET Questions
      BY DEF Live, Existing
    <3> QED BY <3>2, <3>3 DEF Manifests
  <2>2. request \in Requests
    BY <1>2, <2>1 DEF Requests, Operations
  <2>3. Stands(request)
    BY DEF Stands, IdleCurator
  <2> QED BY <1>7, <2>2, <2>3, TakeLockKeeps DEF BeginRun
<1> QED BY <1>3, <1>4, <1>5, <1>6, <1>7

-----------------------------------------------------------------------------
(* Writes of requests.                                                      *)

\* The runs keep their questions when rows are added, lineages stay, and what a run
\* refers to keeps its text.
LEMMA HistoryFrame ==
    ASSUME RunInv, UNCHANGED run, Existing \subseteq Existing',
           \A q \in Existing : /\ question'[q].lineage = question[q].lineage
                               /\ Referenced(q) => question'[q].text = question[q].text
    PROVE  RunInv'
<1>1. \A r \in Runs : Asked(r)' = Asked(r) /\ \A q \in Asked(r) : q \in Existing /\ Referenced(q)
  BY DEF RunInv, AskedOfHistory, Asked, Referenced
<1>2. AskedOfHistory'
  BY <1>1 DEF RunInv, AskedOfHistory
<1>3. RunsInOrder' /\ \A r \in Runs : WorkerFollows(run[r])'
  BY DEF RunInv, RunsInOrder, Enqueued, WorkerFollows
<1> QED BY <1>2, <1>3 DEF RunInv

\* A question is added at the end.
LEMMA CommitAddKeeps ==
    ASSUME RunsInv, NEW c \in Curators, CommitAdd(c)
    PROVE  RunsInv'
<1> USE DEF RunsInv
<1> DEFINE n == Cardinality(Existing)
           new == n + 1
           row == [lineage |-> new, text |-> curator[c].text,
                   position |-> curator[c].position, archived |-> FALSE]
<1>1. Existing = 1..n /\ n \in Nat /\ new \in Questions /\ InsertedRow = new /\ new \notin Existing
  BY RowsCounted, RunsBounds DEF SetInv, CommitAdd
<1>2. curator[c].op = "add" /\ curator[c] # IdleCurator
  BY DEF CommitAdd, IdleCurator
<1>3. /\ curator[c].text \in Texts /\ curator[c].position \in Nat /\ curator[c].position <= n
      /\ Cardinality(Live) < MaxLive
      /\ \A q \in Existing : question[q].position < curator[c].position
  BY <1>2 DEF DeskInv, Stands, RunsTypes, Requests
<1> HIDE DEF n
<1>4. question' = [question EXCEPT ![new] = row]
  BY <1>1 DEF CommitAdd
<1>5. /\ question' \in [Questions -> QuestionRows]
      /\ \A q \in Questions : question'[q] = IF q = new THEN row ELSE question[q]
  BY <1>1, <1>3, <1>4 DEF RunsTypes, QuestionRows
<1>6. /\ Existing' = Existing \cup {new} /\ Existing' = 1..new
      /\ Live' = Live \cup {new} /\ new \notin Live
  BY <1>1, <1>5 DEF Existing, Live
<1>7. RowsInOrder'
  <2>1. new \in 0..MaxQuestions
    BY <1>1, RunsBounds DEF Questions
  <2> QED BY <1>1, <1>3, <1>5, <1>6, <2>1 DEF SetInv, RowsInOrder, Existing
<1>8. LiveRowsApart'
  <2>1. \A q \in Live : /\ question[q].lineage # new
                        /\ question[q].position # curator[c].position
    BY <1>1, <1>3 DEF SetInv, RowsInOrder, Live, RunsTypes, QuestionRows, Existing
  <2>2. \A q \in Live : q \in Questions /\ q # new
    BY <1>6 DEF Live, Existing
  <2> QED BY <1>5, <1>6, <2>1, <2>2, <1>1 DEF SetInv, LiveRowsApart
<1>9. Cardinality(Live') <= MaxLive
  <2>1. IsFiniteSet(Live) /\ Cardinality(Live) \in Nat
    BY LiveIsFinite DEF SetInv
  <2>2. Cardinality(Live \cup {new}) = Cardinality(Live) + 1
    BY <1>6, <2>1, FS_AddElement
  <2> QED BY <1>3, <1>6, <2>1, <2>2, RunsBounds
<1>10. RunInv'
  <2>1. \A q \in Existing : question'[q] = question[q]
    BY <1>1, <1>5 DEF Existing
  <2> QED BY <1>6, <2>1, HistoryFrame DEF CommitAdd
<1> QED BY <1>2, <1>5, <1>7, <1>8, <1>9, <1>10, GiveUpLockIdles DEF CommitAdd, SetInv, RunsTypes

\* A question no run has asked is rewritten.
LEMMA EditInPlaceKeeps ==
    ASSUME RunsInv, NEW c \in Curators, EditInPlace(c)
    PROVE  RunsInv'
<1> USE DEF RunsInv
<1> DEFINE row == curator[c].row
<1>1. curator[c].op = "edit" /\ curator[c] # IdleCurator /\ ~curator[c].forks
  BY DEF EditInPlace, IdleCurator
<1>2. row \in Live /\ row \in Questions /\ curator[c].text \in Texts /\ ~Referenced(row)
  BY <1>1 DEF DeskInv, Stands, Live, Existing
<1>3. question' = [question EXCEPT ![row].text = curator[c].text]
  BY DEF EditInPlace
<1> HIDE DEF row
<1>4. /\ question' \in [Questions -> QuestionRows]
      /\ \A q \in Questions :
            /\ question'[q].lineage = question[q].lineage
            /\ question'[q].position = question[q].position
            /\ question'[q].archived = question[q].archived
            /\ question'[q].text = IF q = row THEN curator[c].text ELSE question[q].text
  BY <1>2, <1>3 DEF RunsTypes, QuestionRows
<1>5. Existing' = Existing /\ Live' = Live /\ Existing \subseteq Questions /\ Live \subseteq Existing
  BY <1>4 DEF Existing, Live
<1>6. RowsInOrder'
  BY <1>2, <1>4, <1>5 DEF SetInv, RowsInOrder
<1>7. LiveRowsApart'
  BY <1>4, <1>5 DEF SetInv, LiveRowsApart
<1>8. RunInv'
  BY <1>2, <1>4, <1>5, HistoryFrame DEF EditInPlace
<1> QED BY <1>1, <1>4, <1>5, <1>6, <1>7, <1>8, GiveUpLockIdles DEF EditInPlace, SetInv, RunsTypes

\* One that was asked is archived, and a successor takes its place and lineage.
LEMMA ForkKeeps ==
    ASSUME RunsInv, NEW c \in Curators, Fork(c)
    PROVE  RunsInv'
<1> USE DEF RunsInv
<1> DEFINE n == Cardinality(Existing)
           new == n + 1
           old == curator[c].row
           row == [question[old] EXCEPT !.text = curator[c].text, !.archived = FALSE]
<1>1. Existing = 1..n /\ n \in Nat /\ new \in Questions /\ InsertedRow = new /\ new \notin Existing
  BY RowsCounted, RunsBounds DEF SetInv, Fork
<1>2. curator[c].op = "edit" /\ curator[c] # IdleCurator
  BY DEF Fork, IdleCurator
<1>3. old \in Live /\ old \in Existing /\ old \in Questions /\ curator[c].text \in Texts
  BY <1>2 DEF DeskInv, Stands, Live, Existing
<1>4. question' = [question EXCEPT ![old].archived = TRUE, ![new] = row]
  BY <1>1 DEF Fork
<1> HIDE DEF n, old
<1>5. old # new /\ question[old] \in QuestionRows
  BY <1>1, <1>3 DEF RunsTypes
<1>6. /\ question' \in [Questions -> QuestionRows]
      /\ \A q \in Questions : q # new /\ q # old => question'[q] = question[q]
      /\ question'[new] = row
      /\ question'[old] = [question[old] EXCEPT !.archived = TRUE]
  BY <1>1, <1>3, <1>4, <1>5 DEF RunsTypes, QuestionRows
<1>7. /\ row.lineage = question[old].lineage /\ row.position = question[old].position
      /\ row.text = curator[c].text /\ row.archived = FALSE
      /\ question'[old].lineage = question[old].lineage
      /\ question'[old].position = question[old].position
      /\ question'[old].text = question[old].text /\ question'[old].archived = TRUE
  BY <1>5, <1>6 DEF QuestionRows
<1> HIDE DEF row
<1>8. /\ Existing' = Existing \cup {new} /\ Existing' = 1..new
      /\ Live' = (Live \ {old}) \cup {new} /\ new \notin Live
  <2>1. question[old].lineage # 0
    BY <1>3 DEF Existing
  <2>2. \A q \in Questions :
           /\ question'[q].lineage = IF q = new THEN question[old].lineage ELSE question[q].lineage
           /\ question'[q].archived =
                 IF q = new THEN FALSE ELSE IF q = old THEN TRUE ELSE question[q].archived
    BY <1>5, <1>6, <1>7
  <2>3. Existing' = Existing \cup {new} /\ Existing' = 1..new
    <3>1. Existing' = Existing \cup {new}
      BY <1>1, <2>1, <2>2 DEF Existing
    <3> QED BY <1>1, <3>1
  <2>4. new \notin Live
    BY <1>1 DEF Live
  <2>5. Live' = (Live \ {old}) \cup {new}
    BY <1>3, <2>2, <2>3 DEF Live, Existing
  <2> QED BY <2>3, <2>4, <2>5
<1>9. RowsInOrder'
  <2>1. new \in 0..MaxQuestions
    BY <1>1, RunsBounds DEF Questions
  <2>2. \A q \in Existing : q \in Questions /\ q \in Nat
    BY <1>1 DEF Existing
  <2>3. /\ question[old].lineage \in 1..old /\ question[old].text \in Texts
        /\ question[old].position < old /\ question[old].position \in Nat /\ old \in 1..n
    BY <1>1, <1>3, <1>5 DEF SetInv, RowsInOrder, QuestionRows
  <2>4. \A q \in Existing' :
           question'[q].lineage \in 1..q /\ question'[q].text \in Texts /\ question'[q].position < q
    <3>1. \A q \in Existing : q # old => question'[q] = question[q]
      BY <1>1, <1>6, <2>2
    <3>2. \A q \in Existing : /\ question[q].lineage \in 1..q /\ question[q].text \in Texts
                              /\ question[q].position < q
      BY DEF SetInv, RowsInOrder
    <3>3. \A q \in Existing :
             question'[q].lineage \in 1..q /\ question'[q].text \in Texts /\ question'[q].position < q
      BY <1>7, <2>3, <3>1, <3>2
    <3>4. question'[new].lineage \in 1..new /\ question'[new].text \in Texts
          /\ question'[new].position < new
      BY <1>1, <1>3, <1>6, <1>7, <2>3
    <3> QED BY <1>8, <3>3, <3>4
  <2> QED BY <1>8, <2>1, <2>4 DEF RowsInOrder
<1>10. LiveRowsApart'
  <2>1. \A q \in Live \ {old} : /\ q \in Questions /\ question'[q] = question[q]
                                /\ question[q].lineage # question[old].lineage
                                /\ question[q].position # question[old].position
    BY <1>3, <1>6, <1>8 DEF SetInv, LiveRowsApart, Live, Existing
  <2> QED BY <1>6, <1>7, <1>8, <2>1 DEF SetInv, LiveRowsApart
<1>11. Cardinality(Live') <= MaxLive
  <2>1. IsFiniteSet(Live) /\ Cardinality(Live) \in Nat
    BY LiveIsFinite DEF SetInv
  <2>2. IsFiniteSet(Live \ {old}) /\ Cardinality(Live \ {old}) = Cardinality(Live) - 1
    BY <1>3, <2>1, FS_RemoveElement
  <2>3. Cardinality((Live \ {old}) \cup {new}) = Cardinality(Live \ {old}) + 1
    BY <1>8, <2>2, FS_AddElement
  <2> QED BY <1>8, <2>1, <2>2, <2>3 DEF SetInv
<1>12. RunInv'
  <2>1. \A q \in Existing : /\ question'[q].lineage = question[q].lineage
                            /\ question'[q].text = question[q].text
    BY <1>1, <1>6, <1>7 DEF Existing
  <2> QED BY <1>8, <2>1, HistoryFrame DEF Fork
<1> QED BY <1>2, <1>6, <1>9, <1>10, <1>11, <1>12, GiveUpLockIdles DEF Fork, SetInv, RunsTypes

\* A question or the set is archived.
LEMMA CommitArchiveKeeps ==
    ASSUME RunsInv, NEW c \in Curators, CommitArchive(c) \/ CommitArchiveSet(c)
    PROVE  RunsInv'
<1> USE DEF RunsInv
<1>1. CASE CommitArchiveSet(c)
  <2>1. SetInv' /\ RunInv'
    BY <1>1, RequestFrame, RunFrame DEF CommitArchiveSet, Asked
  <2>2. curator[c] # IdleCurator
    BY <1>1 DEF CommitArchiveSet, IdleCurator
  <2> QED BY <1>1, <2>1, <2>2, GiveUpLockIdles DEF CommitArchiveSet, RunsTypes
<1>2. CASE CommitArchive(c)
  <2> DEFINE row == curator[c].row
  <2>1. curator[c].op = "archive" /\ curator[c] # IdleCurator
    BY <1>2 DEF CommitArchive, IdleCurator
  <2>2. row \in Live /\ row \in Questions
    BY <2>1 DEF DeskInv, Stands, Live, Existing
  <2>3. question' = [question EXCEPT ![row].archived = TRUE]
    BY <1>2 DEF CommitArchive
  <2> HIDE DEF row
  <2>4. /\ question' \in [Questions -> QuestionRows]
        /\ \A q \in Questions :
              /\ question'[q].lineage = question[q].lineage
              /\ question'[q].position = question[q].position
              /\ question'[q].text = question[q].text
              /\ question'[q].archived = IF q = row THEN TRUE ELSE question[q].archived
    BY <2>2, <2>3 DEF RunsTypes, QuestionRows
  <2>5. /\ Existing' = Existing /\ Existing \subseteq Questions
        /\ Live' \subseteq Live /\ Live \subseteq Questions
    BY <2>4 DEF Existing, Live
  <2>6. RowsInOrder' /\ LiveRowsApart'
    <3>1. RowsInOrder'
      BY <2>4, <2>5 DEF SetInv, RowsInOrder
    <3>2. \A q \in Live' : /\ q \in Live /\ question'[q].lineage = question[q].lineage
                           /\ question'[q].position = question[q].position
      BY <2>4, <2>5
    <3>3. LiveRowsApart'
      BY <3>2 DEF SetInv, LiveRowsApart
    <3> QED BY <3>1, <3>3
  <2>7. Cardinality(Live') <= MaxLive
    <3>1. IsFiniteSet(Live) /\ Cardinality(Live) \in Nat
      BY LiveIsFinite DEF SetInv
    <3>2. Cardinality(Live') <= Cardinality(Live) /\ Cardinality(Live') \in Nat
      BY <2>5, <3>1, FS_Subset, FS_CardinalityType
    <3> QED BY <3>1, <3>2, RunsBounds DEF SetInv
  <2>8. RunInv'
    BY <2>4, <2>5, <1>2, HistoryFrame DEF CommitArchive
  <2> QED BY <1>2, <2>1, <2>4, <2>6, <2>7, <2>8, GiveUpLockIdles
          DEF CommitArchive, SetInv, RunsTypes
<1> QED BY <1>1, <1>2

\* The run that is enqueued is the next one, and it asks the live rows.
LEMMA CommitRunKeeps ==
    ASSUME RunsInv, NEW c \in Curators, CommitRun(c)
    PROVE  RunsInv'
<1> USE DEF RunsInv
<1> DEFINE state == [NoRun EXCEPT !.status = "queued", !.asked = curator[c].asked]
<1>0. PICK r \in Runs : r = Cardinality(Enqueued) + 1
  BY DEF CommitRun
<1>1. curator[c].op = "run" /\ curator[c] # IdleCurator
      /\ run' = [run EXCEPT ![r] = state] /\ UNCHANGED <<question, setArchived>>
  BY <1>0 DEF CommitRun, IdleCurator
<1>2. Enqueued = 1..Cardinality(Enqueued) /\ Cardinality(Enqueued) \in Nat
  BY RunsCounted, RunsBounds DEF RunInv
<1>3. curator[c].asked = Manifest /\ Manifest \in Manifests
  BY <1>1 DEF DeskInv, Stands, RunsTypes, Requests
<1>4. state \in RunRows /\ WorkerFollows(state)
  <2>1. 0 \in 0..MaxQuestions
    BY RunsBounds
  <2>2. Cardinality({}) = 0
    BY FS_EmptySet
  <2> QED BY <1>3, <2>1, <2>2 DEF RunRows, RunStatuses, WorkerStages, NoRun, UnderWay,
             WorkerFollows, Verdicts
<1>5. /\ run' \in [Runs -> RunRows]
      /\ run'[r] = state /\ \A s \in Runs : s # r => run'[s] = run[s]
  BY <1>1, <1>4 DEF RunsTypes
<1>6. state.status = "queued" /\ state.asked = Manifest
  BY <1>3 DEF NoRun
<1> HIDE DEF state
<1>7. SetInv' /\ Existing' = Existing
  BY <1>1 DEF SetInv, RowsInOrder, LiveRowsApart, Live, Existing
<1>8. RunsInOrder'
  <2>1. Enqueued' = Enqueued \cup {r}
    BY <1>5, <1>6 DEF Enqueued
  <2>2. Enqueued' = 1..r /\ r \in 0..MaxRuns
    BY <1>0, <1>2, <2>1, RunsBounds DEF Runs
  <2> QED BY <1>5, <1>6, <2>2 DEF RunInv, RunsInOrder
<1>9. AskedOfHistory'
  <2>1. \A s \in Runs : s # r => Asked(s)' = Asked(s) /\ run'[s].asked = run[s].asked
    BY <1>5 DEF Asked
  <2>2. Asked(r)' = Live /\ \A q \in Live : run'[r].asked[q] = question[q].text
    BY <1>5, <1>6 DEF Asked, Manifest
  <2>3. Live \subseteq Existing /\ \A p, q \in Live :
            question[p].lineage = question[q].lineage => p = q
    BY DEF SetInv, LiveRowsApart, Live
  <2>4. ASSUME NEW s \in Runs
        PROVE  /\ Asked(s)' \subseteq Existing
               /\ \A q \in Asked(s)' : question[q].text = run'[s].asked[q]
               /\ \A p, q \in Asked(s)' : question[p].lineage = question[q].lineage => p = q
    <3>1. CASE s = r
      BY <2>2, <2>3, <3>1
    <3>2. CASE s # r
      BY <2>1, <3>2 DEF RunInv, AskedOfHistory
    <3> QED BY <3>1, <3>2
  <2> QED BY <1>1, <1>7, <2>4 DEF AskedOfHistory
<1>10. RunInv'
  <2>1. \A s \in Runs : WorkerFollows(run'[s])
    BY <1>4, <1>5 DEF RunInv
  <2>2. \A s \in Runs : WorkerFollows(run[s])'
    BY <2>1 DEF WorkerFollows
  <2> QED BY <1>8, <1>9, <2>2 DEF RunInv
<1> QED BY <1>1, <1>5, <1>7, <1>10, GiveUpLockIdles DEF CommitRun, RunsTypes

-----------------------------------------------------------------------------
(* The worker of a run.                                                     *)

\* A worker writes the row of its run, and leaves what the run asks as it is.
LEMMA RunBecomesKeeps ==
    ASSUME RunsInv, NEW r \in Runs, NEW state \in RunRows, RunBecomes(r, state),
           state.asked = run[r].asked, run[r].status # "absent", state.status # "absent",
           WorkerFollows(state)
    PROVE  RunsInv'
<1> USE DEF RunsInv
<1>1. /\ run' \in [Runs -> RunRows] /\ run'[r] = state
      /\ \A s \in Runs : s # r => run'[s] = run[s]
  BY DEF RunsTypes, RunBecomes
<1>2. /\ UNCHANGED question /\ \A s \in Runs : Asked(s)' = Asked(s) /\ run'[s].asked = run[s].asked
      /\ \A s \in Runs : run'[s].status = "absent" <=> run[s].status = "absent"
  BY <1>1 DEF RunBecomes, setVars, Asked
<1>3. RunsTypes'
  BY <1>1 DEF RunsTypes, RunBecomes, setVars
<1>4. /\ SetInv' /\ Existing' = Existing /\ Live' = Live /\ Manifest' = Manifest
      /\ \A q : Referenced(q)' = Referenced(q)
  BY <1>2, RequestFrame
<1>5. DeskInv'
  BY <1>2, <1>4 DEF DeskInv, DecidedUnderLock, Stands, RunBecomes, setVars
<1>6. Enqueued' = Enqueued
  BY <1>2 DEF Enqueued
<1>7. RunsInOrder' /\ AskedOfHistory'
  <2>1. RunsInOrder'
    BY <1>1, <1>6 DEF RunInv, RunsInOrder
  <2>2. AskedOfHistory'
    BY <1>2, <1>4 DEF RunInv, AskedOfHistory
  <2> QED BY <2>1, <2>2
<1>8. \A s \in Runs : WorkerFollows(run[s])'
  <2>1. \A s \in Runs : WorkerFollows(run'[s])
    BY <1>1 DEF RunInv
  <2> QED BY <2>1 DEF WorkerFollows
<1> QED BY <1>3, <1>4, <1>5, <1>7, <1>8 DEF RunInv

\* An answer is one row more, and one more in the progress.
LEMMA AnswerQuestionKeeps ==
    ASSUME RunsInv, NEW r \in Runs, NEW q \in Questions, AnswerQuestion(r, q)
    PROVE  RunsInv'
<1> USE DEF RunsInv
<1> DEFINE state == [run[r] EXCEPT !.answered = @ \cup {q}, !.done = @ + 1]
<1>1. run[r] \in RunRows /\ WorkerFollows(run[r])
  BY DEF RunsTypes, RunInv
<1>2. q \in Asked(r) /\ q \notin run[r].answered /\ run[r].worker = "asking" /\ RunBecomes(r, state)
  BY DEF AnswerQuestion, NextAsked, Unanswered
<1>3. IsFiniteSet(Questions) /\ Cardinality(Questions) = MaxQuestions
  BY RunsBounds, FS_Interval DEF Questions
<1>4. /\ IsFiniteSet(run[r].answered) /\ Cardinality(run[r].answered) \in Nat
      /\ run[r].answered \cup {q} \in SUBSET Questions
  BY <1>1, <1>3, FS_Subset, FS_CardinalityType DEF RunRows
<1>5. Cardinality(run[r].answered \cup {q}) = run[r].done + 1
  <2>1. Cardinality(run[r].answered \cup {q}) = Cardinality(run[r].answered) + 1
    BY <1>2, <1>4, FS_AddElement
  <2> QED BY <1>1, <2>1 DEF WorkerFollows
<1>6. run[r].done + 1 \in 0..MaxQuestions
  <2>1. /\ Cardinality(run[r].answered \cup {q}) <= MaxQuestions
        /\ run[r].done + 1 \in Nat
    BY <1>1, <1>3, <1>4, FS_Subset DEF RunRows
  <2> QED BY <1>5, <2>1, RunsBounds
<1>7. state \in RunRows
  BY <1>1, <1>4, <1>6 DEF RunRows
<1>8. WorkerFollows(state)
  BY <1>1, <1>2, <1>5 DEF WorkerFollows, RunRows, Asked, Verdicts
<1>9. state.asked = run[r].asked /\ run[r].status # "absent" /\ state.status # "absent"
  BY <1>1, <1>2 DEF RunRows, WorkerFollows
<1> QED BY <1>2, <1>7, <1>8, <1>9, RunBecomesKeeps

\* Every other step writes the status, the flag or the stage of the worker.
SameResults(state, row) ==
    /\ state \in RunRows
    /\ state.asked = row.asked /\ state.answered = row.answered /\ state.done = row.done

\* A run that was enqueued is started, cancelled or concluded.
LEMMA StatusStepKeeps ==
    ASSUME RunsInv, NEW r \in Runs, NEW state, RunBecomes(r, state), SameResults(state, run[r]),
           run[r].status # "absent", state.status # "absent",
           state.status = "queued" => state.worker = "none",
           "succeeded" \in {state.status, state.worker} => Unanswered(r) = {},
           state.status \in Verdicts => state.worker \in {"none", "gone"}
    PROVE  RunsInv'
<1>1. WorkerFollows(run[r])
  BY DEF RunsInv, RunInv
<1>2. WorkerFollows(state)
  BY <1>1 DEF SameResults, WorkerFollows, Unanswered, Asked
<1> QED BY <1>2, RunBecomesKeeps DEF SameResults

\* A worker answers, even if its row was given up.
LEMMA WorkerStepKeeps ==
    ASSUME RunsInv, NEW r \in Runs, WorkerStep(r)
    PROVE  RunsInv'
<1> DEFINE row == run[r]
<1>1. /\ row \in RunRows
      /\ row.status \in {"absent", "queued"} => row.worker = "none"
      /\ row.status \in Verdicts => row.worker \in {"none", "gone"}
      /\ "succeeded" \in {row.status, row.worker} => Unanswered(r) = {}
  BY DEF RunsInv, RunsTypes, RunInv, WorkerFollows, Unanswered, Asked
<1> USE DEF RunStatuses, WorkerStages, Verdicts, UnderWay
<1>2. CASE ClaimRun(r)
  <2> DEFINE state == [row EXCEPT !.status = "running", !.worker = "claimed"]
  <2>1. SameResults(state, row) /\ state.status = "running" /\ state.worker = "claimed"
    BY <1>1 DEF RunRows, SameResults
  <2>2. RunBecomes(r, state) /\ row.status = "queued"
    BY <1>2 DEF ClaimRun
  <2> HIDE DEF state
  <2> QED BY <1>1, <2>1, <2>2, StatusStepKeeps
<1>3. CASE CancelQueuedRun(r)
  <2> DEFINE state == [row EXCEPT !.status = "cancelled"]
  <2>1. SameResults(state, row) /\ state.status = "cancelled" /\ state.worker = row.worker
    BY <1>1 DEF RunRows, SameResults
  <2>2. RunBecomes(r, state) /\ row.status = "queued"
    BY <1>3 DEF CancelQueuedRun
  <2> HIDE DEF state
  <2> QED BY <1>1, <2>1, <2>2, StatusStepKeeps
<1>4. CASE CancelRunningRun(r)
  <2> DEFINE state == [row EXCEPT !.flag = TRUE]
  <2>1. SameResults(state, row) /\ state.status = row.status /\ state.worker = row.worker
    BY <1>1 DEF RunRows, SameResults
  <2>2. RunBecomes(r, state) /\ row.status = "running"
    BY <1>4 DEF CancelRunningRun
  <2> HIDE DEF state
  <2> QED BY <1>1, <2>1, <2>2, StatusStepKeeps
<1>5. ASSUME NEW w \in WorkerStages, RunBecomes(r, [row EXCEPT !.worker = w]),
             row.worker \in {"claimed", "asking"},
             w = "gone" \/ w \in {"asking", "succeeded", "failed", "cancelled"},
             w = "succeeded" => Unanswered(r) = {}
      PROVE  RunsInv'
  <2> DEFINE state == [row EXCEPT !.worker = w]
  <2>1. SameResults(state, row) /\ state.status = row.status /\ state.worker = w
    BY <1>1, <1>5 DEF RunRows, SameResults
  <2>2. row.status \notin {"absent", "queued"} /\ row.status \notin Verdicts
    BY <1>1, <1>5
  <2>3. RunBecomes(r, state)
    BY <1>5
  <2> HIDE DEF state
  <2> QED BY <1>1, <1>5, <2>1, <2>2, <2>3, StatusStepKeeps
<1>6. CASE StartAsking(r)
  BY <1>5, <1>6 DEF StartAsking
<1>7. CASE \E q \in Questions : AnswerQuestion(r, q)
  BY <1>7, AnswerQuestionKeeps
<1>8. CASE StopAsking(r) \/ AllAsked(r) \/ WorkerFails(r)
  BY <1>5, <1>8 DEF StopAsking, AllAsked, WorkerFails
<1>9. CASE FinishRun(r)
  <2>1. PICK s \in {row.status, row.worker} : RunBecomes(r, [row EXCEPT !.status = s, !.worker = "gone"])
    <3>1. row.status \in UnderWay => RunBecomes(r, [row EXCEPT !.status = row.worker, !.worker = "gone"])
      BY <1>9 DEF FinishRun
    <3>2. row.status \notin UnderWay => RunBecomes(r, [row EXCEPT !.status = row.status, !.worker = "gone"])
      <4>1. [row EXCEPT !.status = row.status, !.worker = "gone"] = [row EXCEPT !.worker = "gone"]
        BY <1>1 DEF RunRows
      <4> QED BY <1>9, <4>1 DEF FinishRun
    <3> QED BY <3>1, <3>2
  <2> DEFINE state == [row EXCEPT !.status = s, !.worker = "gone"]
  <2>2. row.worker \in Verdicts
    BY <1>9 DEF FinishRun
  <2>3. SameResults(state, row) /\ state.status = s /\ state.worker = "gone"
    BY <1>1, <2>1, <2>2 DEF RunRows, SameResults
  <2>4. row.status \notin {"absent", "queued"} /\ row.status \notin Verdicts
    BY <1>1, <2>2
  <2> HIDE DEF state
  <2> QED BY <1>1, <2>1, <2>2, <2>3, <2>4, StatusStepKeeps DEF state
<1>10. CASE ReconcileRun(r)
  <2> DEFINE state == [row EXCEPT !.status = "failed(interrupted)"]
  <2>1. SameResults(state, row) /\ state.status = "failed(interrupted)" /\ state.worker = row.worker
    BY <1>1 DEF RunRows, SameResults
  <2>2. RunBecomes(r, state) /\ row.status = "running"
    BY <1>10 DEF ReconcileRun
  <2> HIDE DEF state
  <2> QED BY <1>1, <2>1, <2>2, StatusStepKeeps
<1> QED BY <1>2, <1>3, <1>4, <1>6, <1>7, <1>8, <1>9, <1>10 DEF WorkerStep

-----------------------------------------------------------------------------
(* The invariant.                                                           *)

\* The invariant holds at the start.
LEMMA RunsStart == RunsInit => RunsInv
<1> SUFFICES ASSUME RunsInit PROVE RunsInv
  OBVIOUS
<1>1. Existing = {} /\ Enqueued = {} /\ Live = {}
  BY DEF RunsInit, Existing, Live, Enqueued, NoQuestion, NoRun
<1>2. 1..0 = {} /\ 0 \in 0..MaxQuestions /\ 0 \in 0..MaxRuns /\ Cardinality({}) = 0
  BY RunsBounds, FS_EmptySet
<1>3. RunsTypes
  BY <1>2, IdleIsARequest, NothingIsAsked DEF RunsInit, RunsTypes, QuestionRows, NoQuestion,
     RunRows, NoRun, RunStatuses, WorkerStages
<1>4. SetInv
  BY <1>1, <1>2, RunsBounds DEF SetInv, RowsInOrder, LiveRowsApart
<1>5. DeskInv
  BY IdleIsARequest DEF RunsInit, DeskInv, DecidedUnderLock
<1>6. \A r \in Runs : run[r] = NoRun
  BY DEF RunsInit
<1>7. RunsInOrder
  BY <1>1, <1>2, <1>6 DEF RunsInOrder
<1>8. AskedOfHistory
  BY <1>6 DEF AskedOfHistory, Asked, NoRun
<1>9. \A r \in Runs : WorkerFollows(run[r])
  <2>1. WorkerFollows(NoRun)
    BY <1>2 DEF WorkerFollows, NoRun, Verdicts
  <2> QED BY <1>6, <2>1
<1> QED BY <1>3, <1>4, <1>5, <1>7, <1>8, <1>9 DEF RunsInv, RunInv

\* Every step keeps the invariant.
LEMMA RunsStep == RunsInv /\ [RunsNext]_runsVars => RunsInv'
<1> SUFFICES ASSUME RunsInv, [RunsNext]_runsVars PROVE RunsInv'
  OBVIOUS
<1>1. CASE UNCHANGED runsVars
  <2>1. SetInv' /\ RunInv'
    BY <1>1, RequestFrame, RunFrame DEF runsVars, RunsInv, Asked
  <2>2. Existing' = Existing /\ Live' = Live /\ Manifest' = Manifest
        /\ \A q : Referenced(q)' = Referenced(q)
    BY <1>1, RequestFrame DEF runsVars, Asked
  <2>3. RunsTypes' /\ DecidedUnderLock'
    BY <1>1 DEF runsVars, RunsInv, RunsTypes, DeskInv, DecidedUnderLock
  <2>4. \A c \in Curators : Stands(curator[c])'
    BY <1>1, <2>2 DEF runsVars, RunsInv, DeskInv, Stands
  <2> QED BY <2>1, <2>3, <2>4 DEF RunsInv, DeskInv
<1>2. ASSUME NEW c \in Curators, CuratorStep(c)
      PROVE  RunsInv'
  BY <1>2, BeginKeeps, AbandonKeeps, CommitAddKeeps, EditInPlaceKeeps, ForkKeeps,
     CommitArchiveKeeps, CommitRunKeeps DEF CuratorStep
<1>3. ASSUME NEW r \in Runs, WorkerStep(r)
      PROVE  RunsInv'
  BY <1>3, WorkerStepKeeps
<1> QED BY <1>1, <1>2, <1>3 DEF RunsNext

\* The invariant of TestRuns.
LEMMA RunsInvariant == RunsSpec => []RunsInv
BY RunsStart, RunsStep, PTL DEF RunsSpec

-----------------------------------------------------------------------------
(* Theorems.                                                                *)

\* The rows, requests and runs are such as the tables can hold, and a request that has
\* decided something holds the project lock.
THEOREM TypesOfRuns == RunsSpec => []RunsTypeOK
<1>1. RunsInv => RunsTypeOK
  <2> SUFFICES ASSUME RunsInv PROVE RunsTypeOK
    OBVIOUS
  <2>1. ASSUME NEW q \in Existing
        PROVE  question[q] \in [lineage : 1..q, text : Texts, position : 0..MaxQuestions,
                                archived : BOOLEAN]
    <3>1. q \in Questions /\ question[q] \in QuestionRows
      BY DEF RunsInv, RunsTypes, Existing
    <3>2. question[q].lineage \in 1..q /\ question[q].text \in Texts /\ question[q].position < q
      BY DEF RunsInv, SetInv, RowsInOrder
    <3>3. question[q].position \in 0..MaxQuestions
      BY <3>1, <3>2, RunsBounds DEF QuestionRows, Questions
    <3> QED BY <3>1, <3>2, <3>3 DEF QuestionRows
  <2>2. \A r \in Runs :
           /\ run[r].status \in {"absent", "failed(interrupted)"} \cup UnderWay \cup Verdicts
           /\ run[r].answered \subseteq Questions /\ run[r].done \in 0..MaxQuestions
           /\ run[r].flag \in BOOLEAN
           /\ run[r].worker \in {"none", "claimed", "asking", "gone"} \cup Verdicts
    <3>1. \A r \in Runs : run[r] \in RunRows
      BY DEF RunsInv, RunsTypes
    <3> QED BY <3>1 DEF RunRows, RunStatuses, WorkerStages
  <2> QED BY <2>1, <2>2 DEF RunsInv, RunsTypes, DeskInv, DecidedUnderLock, RunsTypeOK
<1> QED BY <1>1, RunsInvariant, PTL

\* A row that a run has asked keeps its text: an edit forks a row that a run refers to,
\* and it decides so, as the enqueue copies the manifest, under one lock.
THEOREM HistoryIsKept == RunsSpec => []HistoryKeepsItsQuestions
<1>1. RunsInv => HistoryKeepsItsQuestions
  BY DEF RunsInv, RunInv, AskedOfHistory, HistoryKeepsItsQuestions
<1> QED BY <1>1, RunsInvariant, PTL

\* A run has asked at most one row of a lineage, so no result is put over another one
\* in the matrix of the runs.
THEOREM MatrixIsComplete == RunsSpec => []MatrixShowsEveryResult
<1>1. RunsInv => MatrixShowsEveryResult
  <2> SUFFICES ASSUME RunsInv, NEW r \in Enqueued, NEW q \in Asked(r)
               PROVE  Cell(question[q].lineage, r) = q
    BY DEF MatrixShowsEveryResult
  <2> DEFINE here == {p \in Asked(r) : question[p].lineage = question[q].lineage}
  <2>1. here = {q}
    BY DEF RunsInv, RunInv, AskedOfHistory, Enqueued
  <2>2. question[q].position \in Nat
    BY DEF RunsInv, RunsTypes, RunInv, AskedOfHistory, Enqueued, Existing, QuestionRows
  <2> QED BY <2>1, <2>2 DEF Cell
<1> QED BY <1>1, RunsInvariant, PTL

\* No two curators fill a set beyond its limit or put two live questions at one place.
THEOREM AddsAreApart == RunsSpec => []AddsDoNotCollide
<1>1. RunsInv => AddsDoNotCollide
  BY DEF RunsInv, SetInv, LiveRowsApart, AddsDoNotCollide
<1> QED BY <1>1, RunsInvariant, PTL

\* The progress of a run is the number of its answers that are written, those are to
\* what it asked, and a run that has succeeded has one to everything.
THEOREM ResultsAreOfTheRun == RunsSpec => []ResultsTellTheRun
<1>1. RunsInv => ResultsTellTheRun
  BY DEF RunsInv, RunInv, WorkerFollows, ResultsTellTheRun, Asked, Unanswered
<1> QED BY <1>1, RunsInvariant, PTL

\* What a step may do to the row of a run: enqueue it with what a request has decided to
\* ask, or let its worker write it, which leaves a run that has concluded as it is.
LEMMA RunRowSteps ==
    ASSUME RunsInv, [RunsNext]_runsVars, NEW r \in Runs
    PROVE  \/ run'[r] = run[r]
           \/ /\ run[r].status = "absent" /\ ~setArchived
              /\ run'[r].asked = Manifest
           \/ /\ run[r].status # "absent" /\ run'[r].asked = run[r].asked
              /\ Concluded(r) => run'[r].answered = run[r].answered /\ run'[r].status = run[r].status
<1> USE DEF RunsInv
<1>1. run \in [Runs -> RunRows] /\ run[r] \in RunRows
  BY DEF RunsTypes
<1>2. CASE UNCHANGED run
  BY <1>2
<1>3. ASSUME NEW c \in Curators, CommitRun(c)
      PROVE  run'[r] # run[r] => /\ run[r].status = "absent" /\ ~setArchived
                                 /\ run'[r].asked = Manifest
  <2>1. PICK s \in Runs : /\ s = Cardinality(Enqueued) + 1
                          /\ run' = [run EXCEPT ![s] = [NoRun EXCEPT !.status = "queued",
                                                                    !.asked = curator[c].asked]]
    BY <1>3 DEF CommitRun
  <2>2. curator[c].op = "run" /\ curator[c] # IdleCurator
    BY <1>3 DEF CommitRun, IdleCurator
  <2>3. ~setArchived /\ curator[c].asked = Manifest
    BY <2>2 DEF DeskInv, DecidedUnderLock, Stands
  <2>4. run[s].status = "absent"
    <3>1. s \notin Enqueued
      BY <2>1, RunsCounted, RunsBounds DEF RunInv
    <3> QED BY <3>1 DEF Enqueued
  <2>5. run'[s].asked = Manifest /\ (r # s => run'[r] = run[r])
    BY <1>1, <2>1, <2>3 DEF NoRun
  <2> QED BY <2>3, <2>4, <2>5
<1>4. ASSUME NEW s \in Runs, WorkerStep(s)
      PROVE  run'[r] # run[r] =>
                 /\ run[r].status # "absent" /\ run'[r].asked = run[r].asked
                 /\ Concluded(r) => /\ run'[r].answered = run[r].answered
                                    /\ run'[r].status = run[r].status
  <2>1. CASE s # r
    <3>1. \A state : RunBecomes(s, state) => run'[r] = run[r]
      BY <2>1 DEF RunBecomes
    <3> QED BY <1>4, <3>1 DEF WorkerStep, ClaimRun, CancelQueuedRun, CancelRunningRun, StartAsking,
               AnswerQuestion, StopAsking, AllAsked, WorkerFails, FinishRun, ReconcileRun
  <2>2. CASE s = r
    <3>1. \A state : RunBecomes(r, state) => run'[r] = state
      BY <1>1 DEF RunBecomes
    <3>2. WorkerFollows(run[r])
      BY SMTT(40) DEF RunInv
    <3>3. run[r].status # "absent"
      BY <1>4, <2>2, <3>2 DEF WorkerStep, ClaimRun, CancelQueuedRun, CancelRunningRun, StartAsking,
         AnswerQuestion, StopAsking, AllAsked, WorkerFails, FinishRun, ReconcileRun, WorkerFollows,
         Verdicts, UnderWay
    <3>4. run'[r].asked = run[r].asked
      BY <1>1, <1>4, <2>2, <3>1, ZenonT(60) DEF WorkerStep, ClaimRun, CancelQueuedRun, CancelRunningRun,
         StartAsking, AnswerQuestion, StopAsking, AllAsked, WorkerFails, FinishRun, ReconcileRun,
         RunRows
    <3>5. Concluded(r) => run'[r].answered = run[r].answered /\ run'[r].status = run[r].status
      <4>1. SUFFICES ASSUME run[r].status \in Verdicts
                     PROVE  run'[r].answered = run[r].answered /\ run'[r].status = run[r].status
        BY DEF Concluded
      <4>2. run[r].worker \in {"none", "gone"}
        BY <3>2, <4>1 DEF WorkerFollows
      <4> QED BY <1>1, <1>4, <2>2, <3>1, <4>1, <4>2 DEF WorkerStep, ClaimRun, CancelQueuedRun,
                 CancelRunningRun, StartAsking, AnswerQuestion, StopAsking, AllAsked, WorkerFails,
                 FinishRun, ReconcileRun, RunRows, Verdicts, UnderWay
    <3> QED BY <3>3, <3>4, <3>5
  <2> QED BY <2>1, <2>2, SMTT(40)
<1>5. ASSUME NEW c \in Curators, CuratorStep(c), ~CommitRun(c)
      PROVE  UNCHANGED run
  BY <1>5 DEF CuratorStep, BeginAdd, BeginEdit, BeginArchive, BeginArchiveSet, BeginRun, TakeLock,
     AbandonRequest, CommitAdd, EditInPlace, Fork, CommitArchive, CommitArchiveSet
<1> QED BY <1>2, <1>3, <1>4, <1>5 DEF RunsNext, runsVars

\* A run is enqueued with the live questions of its set at that moment, and never over
\* an archived set: nobody edits between the reading of the manifest and the commit.
THEOREM ManifestsAreLive == RunsSpec => ManifestIsTheLiveSet
<1>1. RunsInv /\ [RunsNext]_runsVars =>
        [\A r \in Runs : run[r].status = "absent" /\ run'[r].status # "absent"
                            => ~setArchived /\ run'[r].asked = Manifest]_runsVars
  BY RunRowSteps
<1> QED BY <1>1, RunsInvariant, PTL DEF RunsSpec, ManifestIsTheLiveSet

\* No worker writes a result or a status into a run that has ended by itself or was
\* cancelled.
THEOREM ConclusionsAreFinal == RunsSpec => ConcludedRunsAreFinal
<1>1. RunsInv /\ [RunsNext]_runsVars =>
        [\A r \in Runs : Concluded(r)
              => run'[r].answered = run[r].answered /\ run'[r].status = run[r].status]_runsVars
  <2>1. \A r \in Runs : Concluded(r) => run[r].status # "absent"
    BY DEF Concluded, Verdicts
  <2> QED BY <2>1, RunRowSteps
<1> QED BY <1>1, RunsInvariant, PTL DEF RunsSpec, ConcludedRunsAreFinal

-----------------------------------------------------------------------------
(* The runs as jobs (JobLifecycle).                                         *)

Rows  == [r \in Runs |-> run[r].status]
Owned == [r \in Runs |-> IF run[r].status = "absent" THEN "none" ELSE "project"]

LEMMA JobWords ==
    /\ RunJobs!Jobs = Runs
    /\ RunJobs!ActiveStatuses = UnderWay /\ RunJobs!TerminalStatuses = Verdicts \cup {"failed(interrupted)"}
BY DEF RunJobs!Jobs, Runs, RunJobs!ActiveStatuses, UnderWay, Verdicts, RunJobs!TerminalStatuses

\* A step that changes the status of one run, which has been enqueued.
LEMMA StatusMoves ==
    ASSUME run \in [Runs -> RunRows], NEW r \in Runs, NEW row \in RunRows, run' = [run EXCEPT ![r] = row],
           run[r].status # "absent", row.status # "absent"
    PROVE  Rows' = [Rows EXCEPT ![r] = row.status] /\ Owned' = Owned
BY DEF Rows, Owned, RunRows

\* The enqueue of a run submits a job, while no other is under way.
LEMMA CommitSubmits ==
    ASSUME RunsInv, NEW c \in Curators, CommitRun(c)
    PROVE  RunJobs!LifecycleNext
<1> USE DEF RunsInv
<1>1. run \in [Runs -> RunRows]
  BY DEF RunsTypes
<1>2. PICK r \in Runs : /\ r = Cardinality(Enqueued) + 1
                        /\ run' = [run EXCEPT ![r] = [NoRun EXCEPT !.status = "queued",
                                                                  !.asked = curator[c].asked]]
  BY DEF CommitRun
<1>3. run[r].status = "absent"
  <2>1. r \notin Enqueued
    BY <1>2, RunsCounted, RunsBounds DEF RunInv
  <2> QED BY <2>1 DEF Enqueued
<1>4. Rows' = [Rows EXCEPT ![r] = "queued"] /\ Owned' = [Owned EXCEPT ![r] = "project"]
  BY <1>1, <1>2 DEF Rows, Owned, NoRun
<1>5. RunJobs!InFlight("project") = {}
  BY JobWords DEF CommitRun, RunJobs!InFlight
<1>6. RunJobs!Submit(r, "project")
  BY <1>3, <1>4, <1>5 DEF RunJobs!Submit, Rows, Owned
<1> QED BY <1>6, JobWords DEF RunJobs!LifecycleNext

\* A step of the worker starts the job, withdraws it, concludes it, or leaves its row
\* alone.
LEMMA WorkerMovesTheJob ==
    ASSUME RunsInv, NEW r \in Runs, WorkerStep(r)
    PROVE  RunJobs!LifecycleNext \/ UNCHANGED RunJobs!lifecycleVars
<1> USE DEF RunsInv
<1>1. run \in [Runs -> RunRows] /\ run[r] \in RunRows /\ WorkerFollows(run[r])
  <2>1. WorkerFollows(run[r])
    BY SMTT(40) DEF RunInv
  <2> QED BY <2>1 DEF RunsTypes
<1>2. CASE ClaimRun(r)
  <2> DEFINE row == [run[r] EXCEPT !.status = "running", !.worker = "claimed"]
  <2>1. row \in RunRows /\ row.status = "running"
    BY <1>1 DEF RunRows, RunStatuses, UnderWay, WorkerStages
  <2>2. run[r].status = "queued" /\ run' = [run EXCEPT ![r] = row]
    BY <1>2 DEF ClaimRun, RunBecomes
  <2> HIDE DEF row
  <2>3. Rows' = [Rows EXCEPT ![r] = "running"] /\ Owned' = Owned
    BY <1>1, <2>1, <2>2, StatusMoves
  <2>4. RunJobs!Start(r)
    BY <2>2, <2>3 DEF RunJobs!Start, Rows, Owned
  <2> QED BY <2>4, JobWords DEF RunJobs!LifecycleNext
<1>3. CASE CancelQueuedRun(r)
  <2> DEFINE row == [run[r] EXCEPT !.status = "cancelled"]
  <2>1. row \in RunRows /\ row.status = "cancelled"
    BY <1>1 DEF RunRows, RunStatuses, Verdicts
  <2>2. run[r].status = "queued" /\ run' = [run EXCEPT ![r] = row]
    BY <1>3 DEF CancelQueuedRun, RunBecomes
  <2> HIDE DEF row
  <2>3. Rows' = [Rows EXCEPT ![r] = "cancelled"] /\ Owned' = Owned
    BY <1>1, <2>1, <2>2, StatusMoves
  <2>4. RunJobs!Withdraw(r)
    BY <2>2, <2>3 DEF RunJobs!Withdraw, Rows, Owned
  <2> QED BY <2>4, JobWords DEF RunJobs!LifecycleNext
<1>4. ASSUME NEW row \in RunRows, run' = [run EXCEPT ![r] = row], run[r].status = "running",
             row.status \in RunJobs!TerminalStatuses
      PROVE  RunJobs!LifecycleNext
  <2>1. row.status # "absent"
    BY <1>4 DEF RunJobs!TerminalStatuses
  <2>2. Rows' = [Rows EXCEPT ![r] = row.status] /\ Owned' = Owned
    BY <1>1, <1>4, <2>1, StatusMoves
  <2>3. RunJobs!Conclude(r, row.status)
    BY <1>4, <2>2 DEF RunJobs!Conclude, Rows, Owned
  <2> QED BY <1>4, <2>3, JobWords DEF RunJobs!LifecycleNext
<1>5. CASE ReconcileRun(r)
  <2> DEFINE row == [run[r] EXCEPT !.status = "failed(interrupted)"]
  <2>1. row \in RunRows /\ row.status = "failed(interrupted)"
    BY <1>1 DEF RunRows, RunStatuses
  <2>2. run[r].status = "running" /\ run' = [run EXCEPT ![r] = row]
    BY <1>5 DEF ReconcileRun, RunBecomes
  <2> HIDE DEF row
  <2> QED BY <1>4, <2>1, <2>2 DEF RunJobs!TerminalStatuses
<1>6. CASE FinishRun(r) /\ run[r].status \in UnderWay
  <2> DEFINE row == [run[r] EXCEPT !.status = run[r].worker, !.worker = "gone"]
  <2>1. run[r].worker \in Verdicts /\ run' = [run EXCEPT ![r] = row]
    BY <1>6 DEF FinishRun, RunBecomes
  <2>2. row \in RunRows /\ row.status = run[r].worker
    BY <1>1, <2>1 DEF RunRows, RunStatuses, WorkerStages
  <2>3. run[r].status = "running"
    BY <1>1, <1>6, <2>1 DEF WorkerFollows, UnderWay, Verdicts
  <2> HIDE DEF row
  <2> QED BY <1>4, <2>1, <2>2, <2>3 DEF RunJobs!TerminalStatuses, Verdicts
<1>7. ASSUME \A q \in Runs : run'[q].status = run[q].status
      PROVE  UNCHANGED RunJobs!lifecycleVars
  BY <1>7 DEF RunJobs!lifecycleVars
<1>8. CASE \/ CancelRunningRun(r) \/ StartAsking(r) \/ (\E q \in Questions : AnswerQuestion(r, q))
           \/ StopAsking(r) \/ AllAsked(r) \/ WorkerFails(r)
           \/ FinishRun(r) /\ run[r].status \notin UnderWay
  <2>1. \A row : RunBecomes(r, row) => run'[r] = row /\ \A q \in Runs \ {r} : run'[q] = run[q]
    BY <1>1 DEF RunBecomes
  <2>3. run'[r].status = run[r].status /\ \A q \in Runs \ {r} : run'[q] = run[q]
    <3> USE <1>1, <2>1 DEF RunRows
    <3>1. CASE CancelRunningRun(r)
      BY <3>1 DEF CancelRunningRun
    <3>2. CASE StartAsking(r)
      BY <3>2 DEF StartAsking
    <3>3. ASSUME NEW q \in Questions, AnswerQuestion(r, q)
          PROVE  run'[r].status = run[r].status /\ \A p \in Runs \ {r} : run'[p] = run[p]
      <4> DEFINE row == [run[r] EXCEPT !.answered = @ \cup {q}, !.done = @ + 1]
      <4>1. RunBecomes(r, row)
        BY <3>3 DEF AnswerQuestion
      <4>2. row.status = run[r].status
        OBVIOUS
      <4> HIDE DEF row
      <4> QED BY <4>1, <4>2
    <3>4. CASE StopAsking(r) \/ AllAsked(r)
      BY <3>4 DEF StopAsking, AllAsked
    <3>5. CASE WorkerFails(r)
      BY <3>5 DEF WorkerFails
    <3>6. CASE FinishRun(r) /\ run[r].status \notin UnderWay
      BY <3>6 DEF FinishRun
    <3> QED BY <1>8, <3>1, <3>2, <3>3, <3>4, <3>5, <3>6
  <2>2. \A q \in Runs : run'[q].status = run[q].status
    BY <2>3
  <2> QED BY <1>7, <2>2
<1> QED BY <1>2, <1>3, <1>5, <1>6, <1>8 DEF WorkerStep

\* The runs of a set, with their curators, their workers and the workers that outlive
\* their rows, are jobs of the lifecycle: what is proved of every job holds of them,
\* and the reduction of a job to a row and a worker allows no more than the queue does.
THEOREM RunsFollowTheLifecycle == RunsSpec => RunsAreJobs
<1>1. RunsInit => RunJobs!LifecycleInit
  BY JobWords DEF RunsInit, RunJobs!LifecycleInit, NoRun, RunJobs!NoJob
<1>2. RunsInv /\ [RunsNext]_runsVars => [RunJobs!LifecycleNext]_(RunJobs!lifecycleVars)
  <2> SUFFICES ASSUME RunsInv, [RunsNext]_runsVars
               PROVE  RunJobs!LifecycleNext \/ UNCHANGED RunJobs!lifecycleVars
    OBVIOUS
  <2>1. CASE UNCHANGED run
    BY <2>1 DEF RunJobs!lifecycleVars
  <2>2. ASSUME NEW c \in Curators, CuratorStep(c), ~CommitRun(c)
        PROVE  UNCHANGED run
    BY <2>2 DEF CuratorStep, BeginAdd, BeginEdit, BeginArchive, BeginArchiveSet, BeginRun, TakeLock,
       AbandonRequest, CommitAdd, EditInPlace, Fork, CommitArchive, CommitArchiveSet
  <2> QED BY <2>1, <2>2, CommitSubmits, WorkerMovesTheJob DEF RunsNext, runsVars
<1> QED BY <1>1, <1>2, RunsInvariant, PTL DEF RunsSpec, RunsAreJobs, RunJobs!LifecycleSpec
=============================================================================
