---------------------------- MODULE RefreshTokens ----------------------------
(***************************************************************************)
(* The refresh tokens of one user (services/auth.py, AUTH_MODE=local).     *)
(*                                                                         *)
(* A login starts a family; a rotation consumes a token and issues its     *)
(* successor, which is derived from it (an HMAC), so that a second         *)
(* presenter inside the grace window receives the same one.  Token n of    *)
(* family f is <<f, n>> and its successor <<f, n + 1>>.                    *)
(*                                                                         *)
(* Every request is a PostgreSQL transaction at READ COMMITTED: an UPDATE  *)
(* of a row waits for the transaction that holds it, a SELECT reads what   *)
(* is committed, and a DELETE ... WHERE user_id removes the rows that were *)
(* committed when the statement began.  Requests interleave between their  *)
(* statements.  Clocks are one bit: `recent` while a revocation is younger *)
(* than the grace window, `lapsed` once a token or its family is too old.  *)
(***************************************************************************)
EXTENDS Naturals, FiniteSets

CONSTANTS
    Requests,   \* concurrent requests
    MaxLogins,  \* bound: logins in a behaviour
    MaxChain    \* bound: rotations of a family

ASSUME RequestsAssumption == IsFiniteSet(Requests)
ASSUME ChainAssumption    == MaxLogins \in Nat /\ MaxChain \in Nat

Families     == 1..MaxLogins
Tokens       == Families \X (0..MaxChain)
NoToken      == <<0, 0>>
NoRequest    == "none"
Successor(t) == <<t[1], t[2] + 1>>

VARIABLES
    row,     \* refresh_tokens: "none", "live", or "revoked" (revoked_at is set)
    recent,  \* revoked within the last REFRESH_REUSE_GRACE
    lapsed,  \* tokens past expires_at
    holder,  \* tokens whose row an open transaction has updated
    logins,  \* families started
    req,     \* the requests in flight
    reused   \* reuse detection has revoked everything, at some time

tokenVars == <<row, recent, lapsed, holder, logins, reused>>
vars      == <<tokenVars, req>>

\* Where a request stands: "rotated" has consumed its token and not committed,
\* "late" and "grace" found nothing to consume, "revoking" is about to delete
\* everything and "deleting" has begun to, "leaving" has read the row of a
\* logout.  `answer` is the token a refresh or login was given.
Phases  == {"idle", "rotated", "late", "grace", "revoking", "deleting", "leaving", "done"}
Request == [ph : Phases, why : {"none", "reuse", "password"},
            tok : Tokens \cup {NoToken}, snap : SUBSET Tokens,
            answer : Tokens \cup {NoToken}]
Resting == [ph |-> "idle", why |-> "none", tok |-> NoToken, snap |-> {}, answer |-> NoToken]

TypeOK ==
    /\ row \in [Tokens -> {"none", "live", "revoked"}]
    /\ recent \in SUBSET Tokens /\ lapsed \in SUBSET Tokens /\ holder \in SUBSET Tokens
    /\ logins \in 0..MaxLogins
    /\ req \in [Requests -> Request]
    /\ reused \in BOOLEAN

Init ==
    /\ row = [t \in Tokens |-> "none"]
    /\ recent = {} /\ lapsed = {} /\ holder = {}
    /\ logins = 0
    /\ req = [r \in Requests |-> Resting]
    /\ reused = FALSE

Issued      == {t \in Tokens : row[t] # "none"}
Usable(t)   == row[t] = "live" /\ t \notin lapsed
Live        == {t \in Tokens : Usable(t)}
Goes(r, s)  == req' = [req EXCEPT ![r] = s]
Answers(r, t) == Goes(r, [Resting EXCEPT !.ph = "done", !.answer = t])
Refuses(r)  == Answers(r, NoToken)

-----------------------------------------------------------------------------
\* issue_refresh_token, after the password was verified.
Login(r) ==
    LET t == <<logins + 1, 0>> IN
    /\ req[r].ph = "idle" /\ logins < MaxLogins
    /\ logins' = logins + 1
    /\ row' = [row EXCEPT ![t] = "live"]
    /\ Answers(r, t)
    /\ UNCHANGED <<recent, lapsed, holder, reused>>

\* rotate_refresh: one conditional UPDATE consumes the token.
Consume(r, t) ==
    /\ req[r].ph = "idle" /\ t \notin holder /\ t[2] < MaxChain
    /\ \/ /\ Usable(t)
          /\ holder' = holder \cup {t}
          /\ Goes(r, [Resting EXCEPT !.ph = "rotated", !.tok = t])
       \/ /\ ~Usable(t)
          /\ Goes(r, [Resting EXCEPT !.ph = "late", !.tok = t])
          /\ UNCHANGED holder
    /\ UNCHANGED <<row, recent, lapsed, logins, reused>>

\* Mutant: the consumed token keeps its row unrevoked.
RotateUnmarked(t) ==
    /\ row' = [row EXCEPT ![Successor(t)] = "live"]
    /\ recent' = recent

\* The revoke and the successor commit together.
Rotate(t) ==
    /\ row' = [row EXCEPT ![t] = "revoked", ![Successor(t)] = "live"]
    /\ recent' = recent \cup {t}

CommitRotation(r) ==
    LET t == req[r].tok IN
    /\ req[r].ph = "rotated"
    /\ Rotate(t)
    /\ holder' = holder \ {t}
    /\ Answers(r, Successor(t))
    /\ UNCHANGED <<lapsed, logins, reused>>

\* Nothing consumed: the row decides between an unknown or lapsed token, a
\* double-present and a replay.
ReadRevoked(r) ==
    LET t == req[r].tok IN
    /\ req[r].ph = "late"
    /\ \/ row[t] # "revoked" /\ Refuses(r)
       \/ row[t] = "revoked" /\ t \in recent /\ Goes(r, [req[r] EXCEPT !.ph = "grace"])
       \/ /\ row[t] = "revoked" /\ t \notin recent
          /\ Goes(r, [req[r] EXCEPT !.ph = "revoking", !.why = "reuse"])
    /\ UNCHANGED tokenVars

\* A double-present is given the successor, while that is itself unused.
ReadSuccessor(r) ==
    LET s == Successor(req[r].tok) IN
    /\ req[r].ph = "grace"
    /\ \/ Usable(s) /\ Answers(r, s)
       \/ ~Usable(s) /\ Goes(r, [req[r] EXCEPT !.ph = "revoking", !.why = "reuse"])
    /\ UNCHANGED tokenVars

\* change_password, reset_password or a deactivation: the update of the users
\* row holds off a second one.
ChangePassword(r) ==
    /\ req[r].ph = "idle"
    /\ \A q \in Requests : req[q].why # "password"
    /\ Goes(r, [Resting EXCEPT !.ph = "revoking", !.why = "password"])
    /\ UNCHANGED tokenVars

\* revoke_all_for_user: the DELETE sees the rows committed when it begins ...
BeginRevokeAll(r) ==
    /\ req[r].ph = "revoking"
    /\ Goes(r, [req[r] EXCEPT !.ph = "deleting", !.snap = Issued])
    /\ UNCHANGED tokenVars

\* ... and waits for the transactions that hold some of them.
RevokeAll(r) ==
    LET gone == req[r].snap IN
    /\ req[r].ph = "deleting" /\ gone \cap holder = {}
    /\ row' = [t \in Tokens |-> IF t \in gone THEN "none" ELSE row[t]]
    /\ recent' = recent \ gone
    /\ reused' = (reused \/ req[r].why = "reuse")
    /\ Refuses(r)
    /\ UNCHANGED <<lapsed, holder, logins>>

\* revoke_refresh reads the row and then writes it by its key.
BeginLogout(r, t) ==
    /\ req[r].ph = "idle"
    /\ \/ row[t] = "live" /\ Goes(r, [Resting EXCEPT !.ph = "leaving", !.tok = t])
       \/ row[t] # "live" /\ Refuses(r)
    /\ UNCHANGED tokenVars

\* A row deleted meanwhile makes the UPDATE fail.
Logout(r) ==
    LET t == req[r].tok IN
    /\ req[r].ph = "leaving" /\ t \notin holder
    /\ \/ /\ row[t] # "none"
          /\ row' = [row EXCEPT ![t] = "revoked"]
          /\ recent' = recent \cup {t}
       \/ row[t] = "none" /\ UNCHANGED <<row, recent>>
    /\ Refuses(r)
    /\ UNCHANGED <<lapsed, holder, logins, reused>>

-----------------------------------------------------------------------------
\* Time: a grace window ends; a token, or the last of a family, expires.
GraceEnds(t) ==
    /\ t \in recent
    /\ recent' = recent \ {t}
    /\ UNCHANGED <<row, lapsed, holder, logins, req, reused>>

Lapse(t) ==
    /\ Usable(t)
    /\ lapsed' = lapsed \cup {t}
    /\ UNCHANGED <<row, recent, holder, logins, req, reused>>

\* The client has the answer.
Finished(r) ==
    /\ req[r].ph = "done"
    /\ Goes(r, Resting)
    /\ UNCHANGED tokenVars

Server(r) ==
    \/ CommitRotation(r)
    \/ ReadRevoked(r)
    \/ ReadSuccessor(r)
    \/ BeginRevokeAll(r)
    \/ RevokeAll(r)
    \/ Logout(r)

Time == \E t \in Tokens : GraceEnds(t) \/ Lapse(t)

\* Any client may present any token that was ever issued.
Known == {t \in Tokens : t[1] <= logins /\ \E u \in Tokens : u[1] = t[1] /\ u[2] >= t[2] /\ row[u] # "none"}

Next ==
    \/ \E r \in Requests :
        \/ Login(r)
        \/ \E t \in Known : Consume(r, t) \/ BeginLogout(r, t)
        \/ ChangePassword(r)
        \/ Server(r)
        \/ Finished(r)
    \/ Time

Spec == Init /\ [][Next]_vars

-----------------------------------------------------------------------------
\* The tokens that continue a session: a usable one, or one that a rotation has
\* consumed and not committed.
Continuing == Live \cup holder

Promised == INSTANCE LoginSessions WITH continues <- Continuing

\* issue_refresh_token, rotate_refresh, revoke_refresh and revoke_all_for_user
\* together: however requests interleave between their statements, a login is a
\* session that goes from token to token and ends once.
LoginsAreSessions == Promised!LoginsSpec

\* A login is one session: however presentations, logouts and revocations
\* interleave, at most one token of a family can be consumed, and it is the
\* last one issued.
OneTokenPerFamily ==
    \A t, u \in Live : t[1] = u[1] => t = u

\* change_password "Revokes every refresh token, this login's included": when
\* the change is committed, no session that existed when the revocation began
\* has a usable token.
PasswordChangeEndsSessions ==
    [][ \A r \in Requests :
          req[r].ph = "deleting" /\ req[r].why = "password" /\ req'[r].ph = "done"
              => \A t \in Live', u \in req[r].snap : t[1] # u[1] ]_vars
=============================================================================
