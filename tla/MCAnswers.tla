----------------------------- MODULE MCAnswers -----------------------------
(***************************************************************************)
(* The answers to queries beside rebuilds, and the questions of test runs  *)
(* beside their curators, which share no variable here, checked side by    *)
(* side: a behaviour is one of either, and the other stays as it began.    *)
(***************************************************************************)
EXTENDS CitationGuard, TestRuns, TLC

VARIABLE part  \* the part that moves

Symmetry == Permutations(Documents \cup Texts) \cup Permutations(Curators)

AnswersInit ==
    /\ part \in {"links", "runs"}
    /\ GuardInit /\ RunsInit

AnswersNext ==
    /\ UNCHANGED part
    /\ \/ part = "links" /\ GuardNext /\ UNCHANGED runsVars
       \/ part = "runs" /\ RunsNext /\ UNCHANGED <<vars, readerVars>>

AnswersSpec == AnswersInit /\ [][AnswersNext]_<<part, vars, readerVars, runsVars>>

\* The rows, jobs, pods, readers, questions and requests of both parts are such as the
\* tables and the processes can hold, and a request that writes holds its lock.
AnswersTypeOK == IF part = "links" THEN TypeOK /\ GuardTypeOK ELSE RunsTypeOK
=============================================================================
