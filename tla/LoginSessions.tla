---------------------------- MODULE LoginSessions ----------------------------
(***************************************************************************)
(* What a login promises, with the requests, their transactions, the grace *)
(* window and the tabs of the browser left out.                            *)
(*                                                                         *)
(* A login begins a session.  One token continues a session at a time, and *)
(* the step that spends it puts the next one in its place.  Sessions end,  *)
(* one by one or many at once, and a session that has ended is over: none  *)
(* of its tokens will ever continue it.                                    *)
(***************************************************************************)
EXTENDS Naturals

CONSTANTS
    MaxLogins, \* bound: sessions in a behaviour
    MaxChain   \* bound: tokens that follow the first of a session

\* Token n of session f is <<f, n>>.
Tokens       == (1..MaxLogins) \X (0..MaxChain)
Successor(t) == <<t[1], t[2] + 1>>

VARIABLES
    logins,    \* sessions begun
    continues  \* the tokens that continue one

loginVars == <<logins, continues>>

LoginsInit ==
    /\ logins = 0
    /\ continues = {}

Begin ==
    /\ logins < MaxLogins
    /\ logins' = logins + 1
    /\ continues' = continues \cup {<<logins + 1, 0>>}

Renew(t) ==
    /\ t[2] < MaxChain
    /\ continues' = (continues \ {t}) \cup {Successor(t)}
    /\ UNCHANGED logins

End(ended) ==
    /\ continues' = continues \ ended
    /\ UNCHANGED logins

LoginsNext ==
    \/ Begin
    \/ \E t \in continues : Renew(t)
    \/ \E ended \in SUBSET continues : End(ended)

LoginsSpec == LoginsInit /\ [][LoginsNext]_loginVars

-----------------------------------------------------------------------------
\* A session is continued by one token.
OneTokenContinues ==
    \A t, u \in continues : t[1] = u[1] => t = u

\* A session goes from token to token, without leaving one out or going back, and once
\* it is over it stays so: what continues a session that has begun follows what has
\* continued it before.
EndedSessionsStayEnded ==
    [][ \A t \in continues' :
          t[1] <= logins => t \in continues \/ \E u \in continues : t = Successor(u) ]_loginVars
=============================================================================
