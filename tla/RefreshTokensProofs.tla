------------------------ MODULE RefreshTokensProofs ------------------------
(***************************************************************************)
(* A login is one session, for any number of requests, logins and          *)
(* rotations: at most one token of a family is live.                       *)
(*                                                                         *)
(* OneTokenPerFamily is not inductive: two live tokens would appear if a   *)
(* successor were issued for a token that is not the last of its family,   *)
(* or twice.  The invariant says that nothing was issued after a live      *)
(* token, and that a token consumed by an open transaction is live and     *)
(* held by that transaction alone.                                         *)
(*                                                                         *)
(* The second half is about the tabs of one browser (Sessions).  Under     *)
(* the lock (Locks) a refresh reads the stored token and is answered or    *)
(* given up before another begins: no tab presents a token that comes      *)
(* after the stored one, which keeps reuse detection silent and the        *)
(* stored token live.  Without the lock two tabs may present one token,    *)
(* and only the grace window stands between them and a replay.             *)
(***************************************************************************)
EXTENDS Sessions, TLAPS

\* Nothing was issued after a live token, nor in a family that has not begun.
LastOfItsFamily ==
    /\ \A t, u \in Tokens : row[t] = "live" /\ u[1] = t[1] /\ u[2] > t[2] => row[u] = "none"
    /\ \A t \in Tokens : t[1] > logins => row[t] = "none"

\* A request that has to do with a token knows one, and a second presenter one
\* that has a successor.
Placed ==
    \A r \in Requests :
        /\ req[r].ph \in {"late", "grace", "leaving"} => req[r].tok \in Tokens
        /\ req[r].ph \in {"late", "grace"} => req[r].tok[2] < MaxChain

\* A rotation under way holds a live token, alone.
Held ==
    \A r \in Requests :
        req[r].ph = "rotated" =>
            /\ req[r].tok \in holder /\ req[r].tok \in Tokens
            /\ req[r].tok[2] < MaxChain /\ row[req[r].tok] = "live"
            /\ \A q \in Requests : q # r /\ req[q].ph = "rotated" => req[q].tok # req[r].tok

Inv == TypeOK /\ LastOfItsFamily /\ Held /\ Placed

\* A token is a pair of a login and a place in its chain.
LEMMA TokenShape ==
    ASSUME NEW t \in Tokens
    PROVE  /\ t[1] \in Nat /\ t[1] >= 1 /\ t[2] \in Nat /\ t = <<t[1], t[2]>>
           /\ t[2] < MaxChain => Successor(t) \in Tokens
           /\ Successor(t)[1] = t[1] /\ Successor(t)[2] = t[2] + 1
BY ChainAssumption DEF Tokens, Families, Successor

\* A family and a place are one token.
LEMMA SameToken ==
    ASSUME NEW t \in Tokens, NEW u \in Tokens, t[1] = u[1], t[2] = u[2]
    PROVE  t = u
BY DEF Tokens, Families

\* The invariant implies the property.
LEMMA LastIsUnique == Inv => OneTokenPerFamily
<1> SUFFICES ASSUME Inv, NEW t \in Live, NEW u \in Live, t[1] = u[1]
             PROVE  t = u
  BY DEF OneTokenPerFamily
<1>1. t \in Tokens /\ u \in Tokens /\ row[t] = "live" /\ row[u] = "live"
  BY DEF Live, Usable
<1>2. ~(u[2] > t[2]) /\ ~(t[2] > u[2])
  BY <1>1 DEF Inv, LastOfItsFamily
<1>3. t[2] = u[2]
  BY <1>1, <1>2, TokenShape
<1> QED BY <1>1, <1>3, SameToken

\* A request at rest.
LEMMA RestingType == Resting \in Request
BY DEF Resting, Request, Phases, NoToken

\* The invariant holds at the start.
LEMMA StartInv == Init => Inv
<1> SUFFICES ASSUME Init PROVE Inv
  OBVIOUS
<1>1. TypeOK
  <2>1. req \in [Requests -> Request]
    BY RestingType DEF Init
  <2>2. logins \in 0..MaxLogins
    BY ChainAssumption DEF Init
  <2> QED BY <2>1, <2>2 DEF Init, TypeOK
<1>2. LastOfItsFamily
  BY DEF Init, LastOfItsFamily
<1>3. Held /\ Placed
  BY DEF Init, Held, Placed, Resting
<1> QED BY <1>1, <1>2, <1>3 DEF Inv

\* The request that moves, and the others.
LEMMA GoesTo ==
    ASSUME NEW r \in Requests, NEW s \in Request, req \in [Requests -> Request], Goes(r, s)
    PROVE  /\ req' \in [Requests -> Request] /\ req'[r] = s
           /\ \A q \in Requests : q # r => req'[q] = req[q]
BY DEF Goes

\* A state of a request that is well formed, and not a rotation.
WellPlaced(s) ==
    /\ s \in Request /\ s.ph # "rotated"
    /\ s.ph \in {"late", "grace", "leaving"} => s.tok \in Tokens
    /\ s.ph \in {"late", "grace"} => s.tok[2] < MaxChain

LEMMA AnswerPlaced ==
    ASSUME NEW t \in Tokens \cup {NoToken}
    PROVE  WellPlaced([Resting EXCEPT !.ph = "done", !.answer = t])
BY RestingType DEF WellPlaced, Request, Phases

LEMMA TokenPlaced ==
    ASSUME NEW t \in Tokens
    PROVE  /\ t[2] < MaxChain => WellPlaced([Resting EXCEPT !.ph = "late", !.tok = t])
           /\ WellPlaced([Resting EXCEPT !.ph = "leaving", !.tok = t])
BY RestingType DEF WellPlaced, Request, Phases

LEMMA RevokingPlaced ==
    ASSUME NEW s \in Request, NEW w \in {"none", "reuse", "password"}
    PROVE  WellPlaced([s EXCEPT !.ph = "revoking", !.why = w])
BY DEF WellPlaced, Request, Phases

LEMMA DeletingPlaced ==
    ASSUME NEW s \in Request, NEW S \in SUBSET Tokens
    PROVE  WellPlaced([s EXCEPT !.ph = "deleting", !.snap = S])
BY DEF WellPlaced, Request, Phases

LEMMA GracePlaced ==
    ASSUME NEW s \in Request, s.tok \in Tokens, s.tok[2] < MaxChain
    PROVE  WellPlaced([s EXCEPT !.ph = "grace"])
BY DEF WellPlaced, Request, Phases

LEMMA RestingPlaced == WellPlaced(Resting)
BY RestingType DEF WellPlaced, Resting

\* A step that leaves the rows alone and starts no rotation.
LEMMA Aside ==
    ASSUME Inv, NEW r \in Requests, NEW s, WellPlaced(s), Goes(r, s),
           UNCHANGED <<row, logins, reused>>,
           recent' \in SUBSET Tokens, lapsed' \in SUBSET Tokens, holder' = holder
    PROVE  Inv'
<1>1. TypeOK'
  BY GoesTo DEF Inv, TypeOK, WellPlaced
<1>2. LastOfItsFamily'
  BY DEF Inv, LastOfItsFamily
<1>3. Held' /\ Placed'
  BY GoesTo DEF Inv, TypeOK, Held, Placed, WellPlaced
<1> QED BY <1>1, <1>2, <1>3 DEF Inv

\* A login begins a family.
LEMMA LoginStep ==
    ASSUME Inv, NEW r \in Requests, Login(r)
    PROVE  Inv'
<1> DEFINE t == <<logins + 1, 0>>
<1>1. t \in Tokens /\ t[1] = logins + 1 /\ t[2] = 0 /\ logins' = logins + 1 /\ logins' \in 0..MaxLogins
  BY ChainAssumption DEF Login, Inv, TypeOK, Tokens, Families
<1>2. row' = [row EXCEPT ![t] = "live"] /\ UNCHANGED <<recent, lapsed, holder, reused>>
  BY DEF Login
<1>3. row[t] = "none" /\ \A u \in Tokens : u[1] = t[1] => row[u] = "none"
  BY <1>1, TokenShape DEF Inv, LastOfItsFamily, TypeOK
<1>4. /\ req' \in [Requests -> Request] /\ req'[r].ph = "done"
      /\ \A q \in Requests : q # r => req'[q] = req[q]
  BY <1>1, AnswerPlaced, GoesTo DEF Login, Answers, Inv, TypeOK, WellPlaced, Resting
<1> HIDE DEF t
<1>5. TypeOK'
  BY <1>1, <1>2, <1>4 DEF Inv, TypeOK
<1>6. LastOfItsFamily'
  <2>1. ASSUME NEW u \in Tokens, NEW v \in Tokens, row'[u] = "live", v[1] = u[1], v[2] > u[2]
        PROVE  row'[v] = "none"
    <3>1. v # t
      BY <1>1, <2>1, TokenShape
    <3>2. CASE u = t
      BY <1>2, <1>3, <2>1, <3>1, <3>2 DEF Inv, TypeOK
    <3>3. CASE u # t
      BY <1>2, <2>1, <3>1, <3>3 DEF Inv, TypeOK, LastOfItsFamily
    <3> QED BY <3>2, <3>3
  <2>2. ASSUME NEW u \in Tokens, u[1] > logins' PROVE row'[u] = "none"
    BY <1>1, <1>2, <2>2, TokenShape DEF Inv, TypeOK, LastOfItsFamily
  <2> QED BY <2>1, <2>2 DEF LastOfItsFamily
<1>7. Held' /\ Placed'
  BY <1>2, <1>3, <1>4 DEF Inv, TypeOK, Held, Placed
<1> QED BY <1>5, <1>6, <1>7 DEF Inv

\* The conditional UPDATE takes a live token, for one request.
LEMMA ConsumeStep ==
    ASSUME Inv, NEW r \in Requests, NEW t \in Tokens, Consume(r, t)
    PROVE  Inv'
<1>1. CASE ~Usable(t)
  <2> DEFINE s == [Resting EXCEPT !.ph = "late", !.tok = t]
  <2>1. WellPlaced(s) /\ Goes(r, s) /\ UNCHANGED tokenVars
    BY <1>1, TokenPlaced DEF Consume, tokenVars
  <2> QED BY <2>1, Aside DEF tokenVars, Inv, TypeOK
<1>2. CASE Usable(t)
  <2>1. /\ t \notin holder /\ t[2] < MaxChain /\ row[t] = "live"
        /\ holder' = holder \cup {t} /\ UNCHANGED <<row, recent, lapsed, logins, reused>>
    BY <1>2 DEF Consume, Usable
  <2>2. /\ req' \in [Requests -> Request] /\ req'[r].ph = "rotated" /\ req'[r].tok = t
        /\ \A q \in Requests : q # r => req'[q] = req[q]
    <3> DEFINE s == [Resting EXCEPT !.ph = "rotated", !.tok = t]
    <3>1. s \in Request
      BY RestingType DEF Request, Phases
    <3>2. Goes(r, s) /\ s.ph = "rotated" /\ s.tok = t
      BY <1>2 DEF Consume, Resting
    <3> HIDE DEF s
    <3> QED BY <3>1, <3>2, GoesTo DEF Inv, TypeOK
  <2>3. TypeOK'
    BY <2>1, <2>2 DEF Inv, TypeOK
  <2>4. LastOfItsFamily'
    BY <2>1 DEF Inv, LastOfItsFamily
  <2>5. Held' /\ Placed'
    BY <2>1, <2>2 DEF Inv, Held, Placed
  <2> QED BY <2>3, <2>4, <2>5 DEF Inv
<1> QED BY <1>1, <1>2

\* The successor is inserted as the token is consumed.
LEMMA RotationStep ==
    ASSUME Inv, NEW r \in Requests, CommitRotation(r)
    PROVE  Inv'
<1> DEFINE t == req[r].tok
           n == Successor(t)
<1>1. /\ t \in Tokens /\ t \in holder /\ t[2] < MaxChain /\ row[t] = "live" /\ req[r].ph = "rotated"
      /\ \A q \in Requests : q # r /\ req[q].ph = "rotated" => req[q].tok # t
  BY DEF CommitRotation, Inv, Held
<1>2. n \in Tokens /\ n[1] = t[1] /\ n[2] = t[2] + 1 /\ n # t
  BY <1>1, TokenShape
<1>3. /\ row' = [row EXCEPT ![t] = "revoked", ![n] = "live"] /\ recent' = recent \cup {t}
      /\ holder' = holder \ {t} /\ UNCHANGED <<lapsed, logins, reused>>
  BY DEF CommitRotation, Rotate
<1>4. /\ req' \in [Requests -> Request] /\ req'[r].ph = "done"
      /\ \A q \in Requests : q # r => req'[q] = req[q]
  <2> DEFINE s == [Resting EXCEPT !.ph = "done", !.answer = n]
  <2>1. WellPlaced(s)
    BY <1>2, AnswerPlaced
  <2>2. Goes(r, s) /\ s.ph = "done"
    BY DEF CommitRotation, Answers, Resting
  <2> HIDE DEF s
  <2> QED BY <2>1, <2>2, GoesTo DEF Inv, TypeOK, WellPlaced
<1> HIDE DEF t, n
<1>5. TypeOK'
  BY <1>1, <1>2, <1>3, <1>4 DEF Inv, TypeOK
<1>6. row'[t] = "revoked" /\ row'[n] = "live" /\ \A u \in Tokens : u # t /\ u # n => row'[u] = row[u]
  BY <1>1, <1>2, <1>3 DEF Inv, TypeOK
<1>7. \A u \in Tokens : u[1] = t[1] /\ u[2] > t[2] => row[u] = "none"
  BY <1>1 DEF Inv, LastOfItsFamily
<1>8. \A u \in Tokens : u[1] = t[1] /\ u # t => row[u] # "live"
  <2> SUFFICES ASSUME NEW u \in Tokens, u[1] = t[1], u # t PROVE row[u] # "live"
    OBVIOUS
  <2>1. u[2] > t[2] \/ t[2] > u[2]
    BY <1>1, SameToken, TokenShape
  <2> QED BY <1>1, <1>7, <2>1 DEF Inv, LastOfItsFamily
<1>9. LastOfItsFamily'
  <2>1. ASSUME NEW u \in Tokens, NEW v \in Tokens, row'[u] = "live", v[1] = u[1], v[2] > u[2]
        PROVE  row'[v] = "none"
    <3>1. CASE u[1] = t[1]
      <4>1. u = n
        BY <1>6, <1>8, <2>1, <3>1
      <4>2. v # t /\ v # n /\ v[1] = t[1] /\ v[2] > t[2]
        BY <1>1, <1>2, <2>1, <4>1, TokenShape
      <4> QED BY <1>6, <1>7, <4>2
    <3>2. CASE u[1] # t[1]
      BY <1>2, <1>6, <2>1, <3>2 DEF Inv, LastOfItsFamily
    <3> QED BY <3>1, <3>2
  <2>2. ASSUME NEW u \in Tokens, u[1] > logins' PROVE row'[u] = "none"
    <3>1. ~(t[1] > logins)
      BY <1>1 DEF Inv, LastOfItsFamily
    <3>2. u[1] > logins /\ u # t /\ u # n
      BY <1>2, <1>3, <2>2, <3>1
    <3> QED BY <1>6, <3>2 DEF Inv, LastOfItsFamily
  <2> QED BY <2>1, <2>2 DEF LastOfItsFamily
<1>10. Held'
  <2> SUFFICES ASSUME NEW q \in Requests, req'[q].ph = "rotated"
               PROVE  /\ req'[q].tok \in holder' /\ req'[q].tok \in Tokens
                      /\ req'[q].tok[2] < MaxChain /\ row'[req'[q].tok] = "live"
                      /\ \A p \in Requests : p # q /\ req'[p].ph = "rotated" => req'[p].tok # req'[q].tok
    BY DEF Held
  <2>1. q # r /\ req'[q] = req[q] /\ req[q].tok # t
    BY <1>1, <1>4
  <2>2. req[q].tok \in Tokens /\ row[req[q].tok] = "live" /\ req[q].tok \in holder /\ req[q].tok[2] < MaxChain
    BY <2>1 DEF Inv, Held
  <2>3. req[q].tok # n
    BY <1>1, <1>2, <1>7, <2>2, TokenShape
  <2>4. \A p \in Requests : p # q /\ req'[p].ph = "rotated" => req'[p].tok # req'[q].tok
    BY <1>4, <2>1 DEF Inv, Held
  <2> QED BY <1>3, <1>6, <2>1, <2>2, <2>3, <2>4
<1>11. Placed'
  BY <1>4 DEF Inv, Placed
<1> QED BY <1>5, <1>9, <1>10, <1>11 DEF Inv

\* Revocations only take tokens away, and never one that a rotation holds.
LEMMA TakeAway ==
    ASSUME Inv, NEW r \in Requests, NEW s, WellPlaced(s), Goes(r, s),
           row' \in [Tokens -> {"none", "live", "revoked"}], recent' \in SUBSET Tokens,
           \A t \in Tokens : row'[t] # row[t] => row[t] # "none" /\ row'[t] # "live" /\ t \notin holder,
           UNCHANGED <<lapsed, holder, logins>>, reused' \in BOOLEAN
    PROVE  Inv'
<1>1. TypeOK'
  BY GoesTo DEF Inv, TypeOK, WellPlaced
<1>2. LastOfItsFamily'
  BY DEF Inv, LastOfItsFamily
<1>3. Held' /\ Placed'
  BY GoesTo DEF Inv, TypeOK, Held, Placed, WellPlaced
<1> QED BY <1>1, <1>2, <1>3 DEF Inv

\* revoke_all_for_user deletes what it sees.
LEMMA RevokeStep ==
    ASSUME Inv, NEW r \in Requests, RevokeAll(r)
    PROVE  Inv'
<1> DEFINE s == [Resting EXCEPT !.ph = "done", !.answer = NoToken]
<1>1. WellPlaced(s) /\ Goes(r, s)
  BY AnswerPlaced DEF RevokeAll, Refuses, Answers
<1>2. /\ req[r].snap \cap holder = {} /\ req[r].snap \in SUBSET Tokens
      /\ row' = [t \in Tokens |-> IF t \in req[r].snap THEN "none" ELSE row[t]]
      /\ recent' = recent \ req[r].snap /\ UNCHANGED <<lapsed, holder, logins>>
  BY DEF RevokeAll, Inv, TypeOK, Request
<1>3. reused' \in BOOLEAN
  BY DEF RevokeAll, Inv, TypeOK
<1> HIDE DEF s
<1>4. row' \in [Tokens -> {"none", "live", "revoked"}] /\ recent' \in SUBSET Tokens
  BY <1>2 DEF Inv, TypeOK
<1>5. \A t \in Tokens : row'[t] # row[t] => row[t] # "none" /\ row'[t] # "live" /\ t \notin holder
  BY <1>2
<1> QED BY <1>1, <1>2, <1>3, <1>4, <1>5, TakeAway

\* A logout revokes its token.
LEMMA LogoutStep ==
    ASSUME Inv, NEW r \in Requests, Logout(r)
    PROVE  Inv'
<1> DEFINE s == [Resting EXCEPT !.ph = "done", !.answer = NoToken]
           t == req[r].tok
<1>1. WellPlaced(s) /\ Goes(r, s)
  BY AnswerPlaced DEF Logout, Refuses, Answers
<1>2. t \notin holder /\ UNCHANGED <<lapsed, holder, logins, reused>>
  BY DEF Logout
<1>3. \/ row[t] # "none" /\ row' = [row EXCEPT ![t] = "revoked"] /\ recent' = recent \cup {t}
      \/ UNCHANGED <<row, recent>>
  BY DEF Logout
<1>6. t \in Tokens
  BY DEF Logout, Inv, Placed
<1> HIDE DEF s, t
<1>4. /\ row' \in [Tokens -> {"none", "live", "revoked"}] /\ recent' \in SUBSET Tokens
      /\ \A u \in Tokens : row'[u] # row[u] => row[u] # "none" /\ row'[u] # "live" /\ u \notin holder
  BY <1>2, <1>3, <1>6 DEF Inv, TypeOK
<1>5. reused' \in BOOLEAN
  BY <1>2 DEF Inv, TypeOK
<1> QED BY <1>1, <1>2, <1>4, <1>5, TakeAway

\* The remaining steps of the requests move along without touching a row.
LEMMA QuietStep ==
    ASSUME Inv, NEW r \in Requests,
           ReadRevoked(r) \/ ReadSuccessor(r) \/ ChangePassword(r) \/ BeginRevokeAll(r)
           \/ Finished(r) \/ (\E t \in Tokens : BeginLogout(r, t))
    PROVE  Inv'
<1>1. PICK s : WellPlaced(s) /\ Goes(r, s)
  <2>1. CASE ReadRevoked(r)
    <3>1. req[r] \in Request /\ req[r].tok \in Tokens /\ req[r].tok[2] < MaxChain
      BY <2>1, SMTT(40) DEF ReadRevoked, Inv, TypeOK, Placed
    <3> QED BY <2>1, <3>1, AnswerPlaced, GracePlaced, RevokingPlaced
        DEF ReadRevoked, Refuses, Answers
  <2>2. CASE ReadSuccessor(r)
    <3>1. req[r] \in Request /\ Successor(req[r].tok) \in Tokens
      BY <2>2, TokenShape, SMTT(40) DEF ReadSuccessor, Inv, TypeOK, Placed
    <3> QED BY <2>2, <3>1, AnswerPlaced, RevokingPlaced DEF ReadSuccessor, Answers
  <2>3. CASE ChangePassword(r)
    BY <2>3, RestingType, RevokingPlaced DEF ChangePassword
  <2>4. CASE BeginRevokeAll(r)
    <3>1. req[r] \in Request /\ Issued \in SUBSET Tokens
      BY DEF Issued, Inv, TypeOK
    <3> QED BY <2>4, <3>1, DeletingPlaced DEF BeginRevokeAll
  <2>5. CASE Finished(r)
    BY <2>5, RestingPlaced DEF Finished
  <2>6. CASE \E t \in Tokens : BeginLogout(r, t)
    BY <2>6, TokenPlaced, AnswerPlaced DEF BeginLogout, Refuses, Answers
  <2> QED BY <2>1, <2>2, <2>3, <2>4, <2>5, <2>6, SMTT(40)
<1>2. UNCHANGED tokenVars
  BY DEF ReadRevoked, ReadSuccessor, ChangePassword, BeginRevokeAll, Finished, BeginLogout
<1> QED BY <1>1, <1>2, Aside DEF tokenVars, Inv, TypeOK

\* Tokens leave the grace window and expire.
LEMMA TimeStep ==
    ASSUME Inv, Time
    PROVE  Inv'
<1>1. /\ UNCHANGED <<row, holder, logins, req, reused>>
      /\ recent' \in SUBSET Tokens /\ lapsed' \in SUBSET Tokens
  BY DEF Time, GraceEnds, Lapse, Inv, TypeOK
<1> QED BY <1>1 DEF Inv, TypeOK, LastOfItsFamily, Held, Placed

\* Every step keeps the invariant.
LEMMA InvStep == Inv /\ [Next]_vars => Inv'
<1> SUFFICES ASSUME Inv, [Next]_vars PROVE Inv'
  OBVIOUS
<1>1. ASSUME NEW r \in Requests, Login(r) PROVE Inv'
  BY <1>1, LoginStep
<1>2. ASSUME NEW r \in Requests, NEW t \in Known, Consume(r, t) \/ BeginLogout(r, t) PROVE Inv'
  BY <1>2, ConsumeStep, QuietStep DEF Known
<1>3. ASSUME NEW r \in Requests, Server(r) PROVE Inv'
  BY <1>3, RotationStep, QuietStep, RevokeStep, LogoutStep DEF Server
<1>4. ASSUME NEW r \in Requests, ChangePassword(r) \/ Finished(r) PROVE Inv'
  BY <1>4, QuietStep
<1>5. CASE Time
  BY <1>5, TimeStep
<1>6. CASE UNCHANGED vars
  BY <1>6 DEF vars, tokenVars, Inv, TypeOK, LastOfItsFamily, Held, Placed
<1> QED BY <1>1, <1>2, <1>3, <1>4, <1>5, <1>6 DEF Next

\* rotate_refresh, revoke_refresh and revoke_all_for_user: of the tokens a login
\* has led to at most one can be consumed, however many requests present,
\* rotate and revoke them at once.
THEOREM OneSessionPerLogin == Spec => []OneTokenPerFamily
<1> QED BY StartInv, InvStep, LastIsUnique, PTL DEF Spec

-----------------------------------------------------------------------------
(* A rotation and a change of the password.                                 *)

\* A request that deletes the tokens of a user whose password was changed.
Wipes(s) == s.ph = "deleting" /\ s.why = "password"

\* The sessions it has seen have no token it has not seen.
SnapInv ==
    \A p \in Requests : Wipes(req[p]) =>
        \A u \in req[p].snap :
            /\ u \in Tokens /\ u[1] <= logins
            /\ \A t \in Tokens : row[t] # "none" /\ t[1] = u[1] => t \in req[p].snap

\* No rotation of a session it has seen is waiting to commit.
NoRotationBesideWipe ==
    \A p, q \in Requests :
        Wipes(req[p]) /\ req[q].ph = "rotated" => \A u \in req[p].snap : u[1] # req[q].tok[1]

\* A request moves on that issues nothing and does not begin to delete.
LEMMA SnapStays ==
    ASSUME Inv, SnapInv, NEW r \in Requests, NEW s, Goes(r, s), s.ph # "deleting",
           \A t \in Tokens : row'[t] # "none" => row[t] # "none", logins' = logins
    PROVE  SnapInv'
<1>1. \A p \in Requests : req'[p] = IF p = r THEN s ELSE req[p]
  BY DEF Goes, Inv, TypeOK
<1> QED BY <1>1 DEF SnapInv, Wipes

\* The requests that write no row.
LEMMA ReadersKeepSnaps ==
    ASSUME Inv, SnapInv, NEW r \in Requests,
           \/ \E t \in Tokens : Consume(r, t) \/ BeginLogout(r, t)
           \/ ReadRevoked(r) \/ ReadSuccessor(r) \/ ChangePassword(r) \/ Finished(r)
    PROVE  SnapInv'
<1>1. row' = row /\ logins' = logins
  BY DEF Consume, BeginLogout, ReadRevoked, ReadSuccessor, ChangePassword, Finished, tokenVars
<1>2. req[r] \in Request
  BY DEF Inv, TypeOK
<1>3. \E s : Goes(r, s) /\ s.ph # "deleting"
  <2>1. /\ \A t : /\ [Resting EXCEPT !.ph = "rotated", !.tok = t].ph = "rotated"
                  /\ [Resting EXCEPT !.ph = "late", !.tok = t].ph = "late"
                  /\ [Resting EXCEPT !.ph = "leaving", !.tok = t].ph = "leaving"
                  /\ [Resting EXCEPT !.ph = "done", !.answer = t].ph = "done"
        /\ [Resting EXCEPT !.ph = "revoking", !.why = "password"].ph = "revoking"
        /\ [req[r] EXCEPT !.ph = "grace"].ph = "grace"
        /\ [req[r] EXCEPT !.ph = "revoking", !.why = "reuse"].ph = "revoking"
        /\ Resting.ph = "idle"
    BY <1>2 DEF Resting, Request
  <2>2. \/ \E t : \/ Goes(r, [Resting EXCEPT !.ph = "rotated", !.tok = t])
                  \/ Goes(r, [Resting EXCEPT !.ph = "late", !.tok = t])
                  \/ Goes(r, [Resting EXCEPT !.ph = "leaving", !.tok = t])
                  \/ Goes(r, [Resting EXCEPT !.ph = "done", !.answer = t])
        \/ Goes(r, [Resting EXCEPT !.ph = "revoking", !.why = "password"])
        \/ Goes(r, [req[r] EXCEPT !.ph = "grace"])
        \/ Goes(r, [req[r] EXCEPT !.ph = "revoking", !.why = "reuse"])
        \/ Goes(r, Resting)
    BY DEF Consume, BeginLogout, ReadRevoked, ReadSuccessor, ChangePassword, Finished, Refuses, Answers
  <2> QED BY <2>1, <2>2
<1> QED BY <1>1, <1>3, SnapStays

\* The requests that write rows.
LEMMA WritersKeepSnaps ==
    ASSUME Inv, SnapInv, NoRotationBesideWipe, NEW r \in Requests,
           Login(r) \/ CommitRotation(r) \/ BeginRevokeAll(r) \/ RevokeAll(r) \/ Logout(r)
    PROVE  SnapInv'
<1>1. /\ req \in [Requests -> Request] /\ row \in [Tokens -> {"none", "live", "revoked"}]
      /\ logins \in 0..MaxLogins /\ MaxLogins \in Nat
  BY ChainAssumption DEF Inv, TypeOK
<1>2. \A t : [Resting EXCEPT !.ph = "done", !.answer = t].ph = "done"
  BY DEF Resting
<1>3. CASE Login(r)
  <2> DEFINE n == <<logins + 1, 0>>
             s == [Resting EXCEPT !.ph = "done", !.answer = n]
  <2>1. \A p \in Requests : req'[p] = IF p = r THEN s ELSE req[p]
    BY <1>1, <1>3 DEF Login, Answers, Goes
  <2>2. \A t \in Tokens : row'[t] # "none" => row[t] # "none" \/ t[1] = logins + 1
    BY <1>1, <1>3 DEF Login
  <2>3. logins' = logins + 1 /\ s.ph = "done"
    BY <1>2, <1>3 DEF Login
  <2> HIDE DEF s
  <2>4. ASSUME NEW p \in Requests, Wipes(req'[p]), NEW u \in req'[p].snap
        PROVE  /\ u \in Tokens /\ u[1] <= logins'
               /\ \A t \in Tokens : row'[t] # "none" /\ t[1] = u[1] => t \in req'[p].snap
    <3>1. p # r /\ req'[p] = req[p]
      BY <2>1, <2>3, <2>4 DEF Wipes
    <3>2. u \in Tokens /\ u[1] <= logins /\ u[1] \in Nat
      BY <2>4, <3>1, TokenShape DEF SnapInv
    <3> QED BY <1>1, <2>2, <2>3, <2>4, <3>1, <3>2 DEF SnapInv
  <2> QED BY <2>4 DEF SnapInv
<1>4. CASE CommitRotation(r)
  <2> DEFINE t == req[r].tok
             s == [Resting EXCEPT !.ph = "done", !.answer = Successor(t)]
  <2>1. \A p \in Requests : req'[p] = IF p = r THEN s ELSE req[p]
    BY <1>1, <1>4 DEF CommitRotation, Answers, Goes
  <2>2. t \in Tokens /\ Successor(t)[1] = t[1] /\ req[r].ph = "rotated" /\ row[t] = "live"
    BY <1>4, TokenShape DEF CommitRotation, Inv, Held
  <2>3. \A x \in Tokens : row'[x] # "none" => row[x] # "none" \/ x[1] = t[1]
    BY <1>1, <1>4, <2>2 DEF CommitRotation, Rotate
  <2>4. logins' = logins /\ s.ph = "done"
    BY <1>2, <1>4 DEF CommitRotation
  <2> HIDE DEF s
  <2>5. ASSUME NEW p \in Requests, Wipes(req'[p]), NEW u \in req'[p].snap
        PROVE  /\ u \in Tokens /\ u[1] <= logins'
               /\ \A x \in Tokens : row'[x] # "none" /\ x[1] = u[1] => x \in req'[p].snap
    <3>1. p # r /\ req'[p] = req[p]
      BY <2>1, <2>4, <2>5 DEF Wipes
    <3>2. u[1] # t[1]
      BY <2>2, <2>5, <3>1 DEF NoRotationBesideWipe
    <3> QED BY <2>3, <2>4, <2>5, <3>1, <3>2 DEF SnapInv
  <2> QED BY <2>5 DEF SnapInv
<1>5. CASE BeginRevokeAll(r)
  <2> DEFINE s == [req[r] EXCEPT !.ph = "deleting", !.snap = Issued]
  <2>1. \A p \in Requests : req'[p] = IF p = r THEN s ELSE req[p]
    BY <1>1, <1>5 DEF BeginRevokeAll, Goes
  <2>2. s.snap = Issued
    BY <1>1 DEF Request
  <2>3. row' = row /\ logins' = logins
    BY <1>5 DEF BeginRevokeAll, tokenVars
  <2>4. \A u \in Issued : u \in Tokens /\ u[1] <= logins
    <3>1. \A u \in Tokens : u[1] > logins => row[u] = "none"
      BY DEF Inv, LastOfItsFamily
    <3> QED BY <1>1, <3>1, TokenShape DEF Issued
  <2> HIDE DEF s
  <2>5. \A t \in Tokens : row[t] # "none" => t \in Issued
    BY DEF Issued
  <2> QED BY <2>1, <2>2, <2>3, <2>4, <2>5 DEF SnapInv
<1>6. CASE RevokeAll(r) \/ Logout(r)
  <2>1. \A t \in Tokens : row'[t] # "none" => row[t] # "none"
    BY <1>1, <1>6 DEF RevokeAll, Logout
  <2>2. logins' = logins /\ Goes(r, [Resting EXCEPT !.ph = "done", !.answer = NoToken])
    BY <1>6 DEF RevokeAll, Logout, Refuses, Answers
  <2> QED BY <1>2, <2>1, <2>2, SnapStays
<1> QED BY <1>3, <1>4, <1>5, <1>6

\* "Revokes every refresh token, this login's included": true of every change of the
\* password beside which no rotation is waiting to commit.  That rotation, which outlives
\* the DELETE, is all that is left (`refresh_password`).
THEOREM PasswordChangesEndSessions ==
    Spec /\ []NoRotationBesideWipe => PasswordChangeEndsSessions
<1>1. Init => SnapInv
  BY DEF Init, SnapInv, Wipes, Resting
<1>2. Inv /\ SnapInv /\ NoRotationBesideWipe /\ [Next]_vars => SnapInv'
  <2> SUFFICES ASSUME Inv, SnapInv, NoRotationBesideWipe, [Next]_vars PROVE SnapInv'
    OBVIOUS
  <2>1. CASE Time \/ UNCHANGED vars
    BY <2>1 DEF Time, GraceEnds, Lapse, vars, tokenVars, SnapInv, Wipes
  <2>2. ASSUME NEW r \in Requests,
               \/ Login(r) \/ (\E t \in Known : Consume(r, t) \/ BeginLogout(r, t))
               \/ ChangePassword(r) \/ Server(r) \/ Finished(r)
        PROVE  SnapInv'
    BY <2>2, ReadersKeepSnaps, WritersKeepSnaps DEF Server, Known
  <2> QED BY <2>1, <2>2 DEF Next
<1>3. Inv /\ SnapInv /\ [Next]_vars =>
        [\A r \in Requests :
            req[r].ph = "deleting" /\ req[r].why = "password" /\ req'[r].ph = "done"
                => \A t \in Live', u \in req[r].snap : t[1] # u[1]]_vars
  <2> SUFFICES ASSUME Inv, SnapInv, Next, NEW r \in Requests, Wipes(req[r]), req'[r].ph = "done",
                      NEW t \in Live', NEW u \in req[r].snap
               PROVE  t[1] # u[1]
    BY DEF Wipes
  <2>1. req \in [Requests -> Request] /\ row \in [Tokens -> {"none", "live", "revoked"}]
    BY DEF Inv, TypeOK
  <2>2. req'[r] # req[r] /\ req[r].ph = "deleting"
    BY DEF Wipes
  <2>3. PICK q \in Requests :
           \/ Login(q) \/ (\E x \in Known : Consume(q, x) \/ BeginLogout(q, x))
           \/ ChangePassword(q) \/ Server(q) \/ Finished(q)
    BY <2>2 DEF Next, Time, GraceEnds, Lapse
  <2>4. q = r
    <3>1. \E s : Goes(q, s)
      BY <2>3 DEF Login, Consume, BeginLogout, ChangePassword, Server, Finished, CommitRotation,
         ReadRevoked, ReadSuccessor, BeginRevokeAll, RevokeAll, Logout, Refuses, Answers
    <3> QED BY <2>1, <2>2, <3>1 DEF Goes
  <2>5. RevokeAll(r)
    BY <2>2, <2>3, <2>4 DEF Login, Consume, BeginLogout, ChangePassword, Server, Finished,
       CommitRotation, ReadRevoked, ReadSuccessor, BeginRevokeAll, Logout
  <2>6. t \in Tokens /\ t \notin req[r].snap /\ row[t] = "live"
    BY <2>1, <2>5 DEF RevokeAll, Live, Usable
  <2> QED BY <2>6 DEF SnapInv
<1>4. Spec => []Inv
  BY StartInv, InvStep, PTL DEF Spec
<1> QED BY <1>1, <1>2, <1>3, <1>4, PTL DEF Spec, PasswordChangeEndsSessions

-----------------------------------------------------------------------------
(* A login is a session (LoginSessions).                                    *)

\* What has expired belongs to a family that has begun.
LapsedHaveBegun == \A t \in lapsed : t[1] <= logins

\* A step of the sessions, or none.
SessionMoves == [Promised!LoginsNext]_(Promised!loginVars)

\* The tokens of some sessions go.
LEMMA SomeEnd ==
    ASSUME Continuing' \subseteq Continuing, logins' = logins
    PROVE  SessionMoves
<1>1. Continuing' = Continuing \ (Continuing \ Continuing')
  OBVIOUS
<1>2. Promised!End(Continuing \ Continuing')
  BY <1>1 DEF Promised!End
<1> QED BY <1>2 DEF SessionMoves, Promised!LoginsNext

\* A login begins a session.
LEMMA LoginBegins ==
    ASSUME Inv, LapsedHaveBegun, NEW r \in Requests, Login(r)
    PROVE  SessionMoves /\ LapsedHaveBegun'
<1> DEFINE t == <<logins + 1, 0>>
<1>1. t \in Tokens /\ t[1] = logins + 1 /\ logins < MaxLogins /\ logins' = logins + 1
  BY ChainAssumption DEF Login, Inv, TypeOK, Tokens, Families
<1>2. row' = [row EXCEPT ![t] = "live"] /\ UNCHANGED <<lapsed, holder>>
  BY DEF Login
<1>3. logins \in Nat /\ row \in [Tokens -> {"none", "live", "revoked"}] /\ lapsed \in SUBSET Tokens
  BY ChainAssumption DEF Inv, TypeOK
<1>4. t \notin lapsed
  BY <1>1, <1>3 DEF LapsedHaveBegun
<1> HIDE DEF t
<1>5. Live' = Live \cup {t}
  BY <1>1, <1>2, <1>3, <1>4 DEF Live, Usable
<1>6. Continuing' = Continuing \cup {t}
  BY <1>2, <1>5 DEF Continuing
<1>7. SessionMoves
  BY <1>1, <1>6 DEF t, SessionMoves, Promised!LoginsNext, Promised!Begin
<1>8. LapsedHaveBegun'
  BY <1>1, <1>2, <1>3, TokenShape DEF LapsedHaveBegun
<1> QED BY <1>7, <1>8

\* A rotation spends a token and leaves its successor; what it held continues the
\* session until then.
LEMMA RotationRenews ==
    ASSUME Inv, NEW r \in Requests, CommitRotation(r)
    PROVE  SessionMoves
<1> DEFINE t == req[r].tok
           n == Successor(t)
<1>1. /\ t \in Tokens /\ t \in holder /\ t[2] < MaxChain /\ row[t] = "live"
      /\ n \in Tokens /\ n # t
  <2>1. t \in Tokens /\ t \in holder /\ t[2] < MaxChain /\ row[t] = "live"
    BY DEF CommitRotation, Inv, Held
  <2> QED BY <2>1, TokenShape
<1>2. /\ row' = [row EXCEPT ![t] = "revoked", ![n] = "live"]
      /\ holder' = holder \ {t} /\ UNCHANGED <<lapsed, logins>>
  BY DEF CommitRotation, Rotate
<1>3. row \in [Tokens -> {"none", "live", "revoked"}]
  BY DEF Inv, TypeOK
<1> HIDE DEF t, n
<1>4. row'[t] = "revoked" /\ row'[n] = "live" /\ \A u \in Tokens : u # t /\ u # n => row'[u] = row[u]
  BY <1>1, <1>2, <1>3
<1>5. CASE n \in lapsed
  <2>1. Continuing' \subseteq Continuing
    BY <1>1, <1>2, <1>4, <1>5 DEF Continuing, Live, Usable
  <2> QED BY <1>2, <2>1, SomeEnd
<1>6. CASE n \notin lapsed
  <2>1. Live' = (Live \ {t}) \cup {n}
    BY <1>1, <1>2, <1>4, <1>6 DEF Live, Usable
  <2>2. Continuing' = (Continuing \ {t}) \cup {n}
    BY <1>1, <1>2, <2>1 DEF Continuing
  <2>3. Promised!Successor(t) = n
    BY DEF n, Successor, Promised!Successor
  <2>4. t \in Continuing /\ Promised!Renew(t)
    BY <1>1, <1>2, <2>2, <2>3 DEF Continuing, Promised!Renew
  <2> QED BY <2>4 DEF SessionMoves, Promised!LoginsNext
<1> QED BY <1>5, <1>6

\* The steps of a request, with any token.
RequestStep(r) ==
    \/ Login(r) \/ ChangePassword(r) \/ Server(r) \/ Finished(r)
    \/ \E t \in Tokens : Consume(r, t) \/ BeginLogout(r, t)

LEMMA RequestsFollow ==
    ASSUME Inv, LapsedHaveBegun, NEW r \in Requests, RequestStep(r)
    PROVE  SessionMoves /\ LapsedHaveBegun'
<1>1. CASE Login(r)
  BY <1>1, LoginBegins
<1>2. ASSUME NEW t \in Tokens, Consume(r, t)
      PROVE  SessionMoves /\ LapsedHaveBegun'
  <2>1. UNCHANGED <<row, lapsed, logins>> /\ holder' \subseteq holder \cup {u \in {t} : Usable(u)}
    BY <1>2 DEF Consume
  <2>2. Continuing' \subseteq Continuing
    BY <2>1 DEF Continuing, Live, Usable
  <2> QED BY <2>1, <2>2, SomeEnd DEF LapsedHaveBegun
<1>3. CASE CommitRotation(r)
  BY <1>3, RotationRenews DEF CommitRotation, LapsedHaveBegun
<1>4. CASE RevokeAll(r)
  <2>1. UNCHANGED <<lapsed, holder, logins>> /\ \A t \in Tokens : row'[t] = "live" => row[t] = "live"
    BY <1>4 DEF RevokeAll
  <2>2. Continuing' \subseteq Continuing
    BY <2>1 DEF Continuing, Live, Usable
  <2> QED BY <2>1, <2>2, SomeEnd DEF LapsedHaveBegun
<1>5. CASE Logout(r)
  <2>1. UNCHANGED <<lapsed, holder, logins>> /\ \A t \in Tokens : row'[t] = "live" => row[t] = "live"
    BY <1>5 DEF Logout, Inv, TypeOK
  <2>2. Continuing' \subseteq Continuing
    BY <2>1 DEF Continuing, Live, Usable
  <2> QED BY <2>1, <2>2, SomeEnd DEF LapsedHaveBegun
<1>6. CASE UNCHANGED tokenVars
  <2>1. Continuing' \subseteq Continuing /\ UNCHANGED <<lapsed, logins>>
    BY <1>6 DEF tokenVars, Continuing, Live, Usable
  <2> QED BY <2>1, SomeEnd DEF LapsedHaveBegun
<1> QED BY <1>1, <1>2, <1>3, <1>4, <1>5, <1>6
    DEF RequestStep, Server, ChangePassword, Finished, BeginLogout, ReadRevoked, ReadSuccessor, BeginRevokeAll

\* A window ends; a token expires, and with it its session.
LEMMA TimeEnds ==
    ASSUME Inv, LapsedHaveBegun, Time
    PROVE  SessionMoves /\ LapsedHaveBegun'
<1>1. UNCHANGED <<row, holder, logins>> /\ lapsed \subseteq lapsed'
        /\ \A t \in lapsed' : t \in lapsed \/ (t \in Tokens /\ row[t] = "live")
  BY DEF Time, GraceEnds, Lapse, Usable
<1>2. Continuing' \subseteq Continuing
  BY <1>1 DEF Continuing, Live, Usable
<1>3. LapsedHaveBegun'
  <2> SUFFICES ASSUME NEW t \in Tokens, row[t] = "live" PROVE t[1] <= logins
    BY <1>1 DEF LapsedHaveBegun
  <2>1. ~(t[1] > logins)
    BY DEF Inv, LastOfItsFamily
  <2> QED BY <2>1, TokenShape, ChainAssumption DEF Inv, TypeOK
<1> QED BY <1>1, <1>2, <1>3, SomeEnd

LEMMA NothingMoves ==
    ASSUME LapsedHaveBegun, UNCHANGED vars
    PROVE  SessionMoves /\ LapsedHaveBegun'
<1>1. Continuing' \subseteq Continuing /\ UNCHANGED <<lapsed, logins>>
  BY DEF vars, tokenVars, Continuing, Live, Usable
<1> QED BY <1>1, SomeEnd DEF LapsedHaveBegun

LEMMA SessionsBegin == Init => Promised!LoginsInit /\ LapsedHaveBegun
BY DEF Init, Promised!LoginsInit, LapsedHaveBegun, Continuing, Live, Usable

\* auth.py as a whole keeps what a login promises, whatever clients present: the
\* families of tokens, with their transactions, grace windows and revocations, are
\* sessions that go from token to token and end once.
THEOREM FamiliesAreSessions == Spec => LoginsAreSessions
<1>1. Inv /\ LapsedHaveBegun /\ [Next]_vars => SessionMoves /\ LapsedHaveBegun'
  BY RequestsFollow, TimeEnds, NothingMoves DEF Next, RequestStep, Known
<1>2. Spec => []Inv
  BY StartInv, InvStep, PTL DEF Spec
<1> QED BY <1>1, <1>2, SessionsBegin, PTL DEF Spec, LoginsAreSessions, Promised!LoginsSpec, SessionMoves

-----------------------------------------------------------------------------
(* The tabs of a browser (Sessions).                                       *)

Kept == Tokens \cup {NoToken}

\* A request that presents a token knows one, and of other clients' behaviours the
\* browser has no part.
TabsInv ==
    /\ Inv /\ SessionsTypeOK
    /\ \A r \in Requests : tab[r].act \in {"refresh", "gone", "logout"} => tab[r].held \in Tokens
    /\ anyClient => stored = NoToken /\ losses = 0 /\ \A r \in Requests : tab[r].act = "quiet"

\* What a tab may hold: a token, or none, which is of no family.
LEMMA KeptShape ==
    ASSUME NEW x \in Kept
    PROVE  /\ x[1] \in Nat /\ x[2] \in Nat
           /\ x # NoToken => x \in Tokens /\ x[1] >= 1
           /\ x = NoToken => x \notin Tokens /\ x[1] = 0
<1>1. CASE x = NoToken
  <2>1. x[1] = 0 /\ x[2] = 0
    BY <1>1 DEF NoToken
  <2> QED BY <1>1, <2>1, TokenShape
<1>2. CASE x # NoToken
  BY <1>2, TokenShape DEF Kept
<1> QED BY <1>1, <1>2

\* The fields of tabs and requests.
LEMMA TabFields ==
    ASSUME TabsInv, NEW r \in Requests
    PROVE  /\ req[r] \in Request /\ tab[r] \in Tab
           /\ tab[r].held \in Kept /\ req[r].answer \in Kept /\ stored \in Kept
BY DEF TabsInv, SessionsTypeOK, TypeOK, Request, Tab, Kept

\* One tab moves.
LEMMA TabGoes ==
    ASSUME TabsInv, NEW r \in Requests, NEW s \in Tab, Does(r, s)
    PROVE  tab' \in [Requests -> Tab] /\ tab'[r] = s /\ \A q \in Requests : q # r => tab'[q] = tab[q]
BY DEF Does, TabsInv, SessionsTypeOK

\* What a tab may become.
LEMMA TabShapes ==
    /\ Quiet \in Tab /\ Quiet.act = "quiet" /\ Quiet.held = NoToken
    /\ [Quiet EXCEPT !.act = "login"] \in Tab
    /\ \A x \in Kept : /\ [Quiet EXCEPT !.act = "refresh", !.held = x] \in Tab
                       /\ [Quiet EXCEPT !.act = "logout", !.held = x] \in Tab
                       /\ [act |-> "refresh", held |-> x, retried |-> TRUE] \in Tab
    /\ \A s \in Tab : [s EXCEPT !.act = "gone"] \in Tab
BY DEF Quiet, Tab, Kept

\* A tab's steps are steps of the tokens.
LEMMA TabsKeepTokens ==
    ASSUME TabsInv, NEW r \in Requests, Tabs(r)
    PROVE  Inv'
<1> USE DEF TabsInv
<1>1. CASE Refresh(r) \/ AnswerLost(r) \/ LogOut(r)
  BY <1>1, InvStep DEF Refresh, AnswerLost, LogOut
<1>2. CASE LogIn(r)
  BY <1>2, LoginStep DEF LogIn
<1>3. CASE Present(r)
  BY <1>3, ConsumeStep DEF Present
<1>4. CASE SendLogout(r)
  <2>1. tab[r].held \in Tokens /\ BeginLogout(r, tab[r].held)
    BY <1>4 DEF SendLogout
  <2> QED BY <2>1, QuietStep
<1>5. CASE Finished(r)
  BY <1>5, QuietStep
<1> QED BY <1>1, <1>2, <1>3, <1>4, <1>5 DEF Tabs, LoggedIn, Refreshed, Refused, Unread, LoggedOut

\* The invariant of the tabs holds at the start.
LEMMA TabsStart == SessionsInit => TabsInv
<1> SUFFICES ASSUME SessionsInit PROVE TabsInv
  OBVIOUS
<1>1. Inv
  BY StartInv DEF SessionsInit
<1>2. tab \in [Requests -> Tab] /\ \A r \in Requests : tab[r].act = "quiet"
  BY TabShapes DEF SessionsInit
<1>3. losses \in 0..MaxLosses /\ anyClient \in BOOLEAN
  BY SessionsAssumption DEF SessionsInit
<1> QED BY <1>1, <1>2, <1>3 DEF SessionsInit, TabsInv, SessionsTypeOK, Inv

\* Every step of a tab keeps it.
LEMMA TabsKeep ==
    ASSUME TabsInv, NEW r \in Requests, ~anyClient, Tabs(r), UNCHANGED anyClient
    PROVE  TabsInv'
<1>1. Inv'
  BY TabsKeepTokens
<1>2. /\ req[r] \in Request /\ tab[r] \in Tab /\ tab[r].held \in Kept /\ req[r].answer \in Kept /\ stored \in Kept
      /\ lock \in Requests \cup {NoRequest} /\ left \in BOOLEAN /\ parted \in BOOLEAN /\ losses \in 0..MaxLosses
      /\ tab \in [Requests -> Tab]
      /\ \A q \in Requests : tab[q].act \in {"refresh", "gone", "logout"} => tab[q].held \in Tokens
  BY TabFields DEF TabsInv, SessionsTypeOK
<1>3. losses' \in 0..MaxLosses
  BY <1>2, SessionsAssumption
     DEF Tabs, LogIn, LoggedIn, Refresh, Present, Refreshed, Refused, AnswerLost, Unread, LogOut, SendLogout,
         LoggedOut, tabVars
<1>4. stored' \in Kept /\ lock' \in Requests \cup {NoRequest} /\ left' \in BOOLEAN /\ parted' \in BOOLEAN
  <2> USE <1>2
  <2>1. CASE LogIn(r) \/ Refresh(r) \/ Present(r) \/ AnswerLost(r) \/ Unread(r) \/ LogOut(r) \/ SendLogout(r)
    BY <2>1 DEF LogIn, Refresh, Present, AnswerLost, Unread, LogOut, SendLogout, tabVars
  <2>2. CASE LoggedIn(r) \/ Refreshed(r) \/ Refused(r) \/ LoggedOut(r)
    BY <2>2 DEF LoggedIn, Refreshed, Refused, LoggedOut, Settles, Kept
  <2> QED BY <2>1, <2>2 DEF Tabs
<1>5. \/ UNCHANGED tab
      \/ \E s \in Tab : Does(r, s) /\ (s.act \in {"refresh", "gone", "logout"} => s.held \in Tokens)
  <2>1. CASE Present(r) \/ SendLogout(r)
    BY <2>1 DEF Present, SendLogout, tabVars
  <2>2. CASE LogIn(r) \/ LoggedIn(r) \/ Refreshed(r) \/ Unread(r) \/ LoggedOut(r)
    BY <2>2, TabShapes DEF LogIn, LoggedIn, Refreshed, Unread, LoggedOut, Settles, Quiet
  <2>3. CASE Refresh(r) \/ LogOut(r)
    <3>1. stored \in Tokens
      BY <1>2, <2>3, KeptShape DEF Refresh, LogOut
    <3> QED BY <1>2, <2>3, <3>1, TabShapes DEF Refresh, LogOut, Quiet
  <2>4. CASE AnswerLost(r)
    <3>1. [tab[r] EXCEPT !.act = "gone"].held = tab[r].held
      BY <1>2 DEF Tab
    <3> QED BY <1>2, <2>4, <3>1, TabShapes DEF AnswerLost
  <2>5. CASE Refused(r)
    <3>1. CASE Settles(r)
      BY <3>1, TabShapes DEF Settles
    <3>2. CASE stored # NoToken /\ Does(r, [act |-> "refresh", held |-> stored, retried |-> TRUE])
      BY <1>2, <3>2, KeptShape, TabShapes
    <3> QED BY <2>5, <3>1, <3>2 DEF Refused
  <2> QED BY <2>1, <2>2, <2>3, <2>4, <2>5 DEF Tabs
<1>6. /\ tab' \in [Requests -> Tab]
      /\ \A q \in Requests : tab'[q].act \in {"refresh", "gone", "logout"} => tab'[q].held \in Tokens
  <2>1. CASE UNCHANGED tab
    BY <1>2, <2>1
  <2>2. ASSUME NEW s \in Tab, Does(r, s), s.act \in {"refresh", "gone", "logout"} => s.held \in Tokens
        PROVE  /\ tab' \in [Requests -> Tab]
               /\ \A q \in Requests : tab'[q].act \in {"refresh", "gone", "logout"} => tab'[q].held \in Tokens
    BY <1>2, <2>2, TabGoes
  <2> QED BY <1>5, <2>1, <2>2
<1> QED BY <1>1, <1>3, <1>4, <1>6 DEF TabsInv, SessionsTypeOK, Inv, Kept

\* Every step of the server keeps it.
LEMMA TokensKeepTabs ==
    ASSUME TabsInv, [Next]_vars, UNCHANGED tabVars
    PROVE  TabsInv'
BY InvStep DEF TabsInv, SessionsTypeOK, tabVars, Inv

\* The invariant of Sessions that needs no lock.
LEMMA TabsInvariant == SessionsSpec => []TabsInv
<1>1. TabsInv /\ [SessionsNext]_<<vars, tabVars>> => TabsInv'
  <2> SUFFICES ASSUME TabsInv, [SessionsNext]_<<vars, tabVars>> PROVE TabsInv'
    OBVIOUS
  <2>1. CASE UNCHANGED <<vars, tabVars>>
    BY <2>1, TokensKeepTabs
  <2>2. CASE ~anyClient /\ UNCHANGED anyClient /\ \E r \in Requests : Tabs(r)
    BY <2>2, TabsKeep
  <2>3. CASE ((\E r \in Requests : Server(r)) \/ Time \/ Next) /\ UNCHANGED tabVars
    BY <2>3, TokensKeepTabs DEF Next
  <2> QED BY <2>1, <2>2, <2>3 DEF SessionsNext
<1> QED BY <1>1, TabsStart, PTL DEF SessionsSpec

\* The rows, requests and tabs are such as the table, the processes and the
\* localStorage hold.
THEOREM SessionsTypes == SessionsSpec => []SessionsTypeOK
<1>1. TabsInv => SessionsTypeOK
  BY DEF TabsInv
<1> QED BY <1>1, TabsInvariant, PTL

\* The same promise to the tabs of a browser, with or without the Locks API, and to
\* clients that present any token they were ever given: a login is one session.
THEOREM OneSessionPerBrowser == SessionsSpec => []OneTokenPerFamily
<1>1. TabsInv => OneTokenPerFamily
  BY LastIsUnique DEF TabsInv
<1> QED BY <1>1, TabsInvariant, PTL

\* The steps of a tab are those of its request.
LEMMA TabsAreRequests ==
    ASSUME TabsInv, NEW r \in Requests, Tabs(r)
    PROVE  RequestStep(r) \/ UNCHANGED vars
<1>1. CASE Refresh(r) \/ AnswerLost(r) \/ LogOut(r)
  BY <1>1 DEF Refresh, AnswerLost, LogOut
<1>2. CASE LogIn(r)
  BY <1>2 DEF LogIn, RequestStep
<1>3. CASE Present(r) \/ SendLogout(r)
  BY <1>3 DEF Present, SendLogout, RequestStep, TabsInv
<1>4. CASE Finished(r)
  BY <1>4 DEF RequestStep
<1> QED BY <1>1, <1>2, <1>3, <1>4 DEF Tabs, LoggedIn, Refreshed, Refused, Unread, LoggedOut

\* Nor do tabs that lose answers, log out beside a refresh or have no lock bring a
\* session back: what the browser and any other client do to the tokens of a user is
\* what the promise allows.
THEOREM BrowserLoginsAreSessions == SessionsSpec => LoginsAreSessions
<1>1. TabsInv /\ LapsedHaveBegun /\ [SessionsNext]_<<vars, tabVars>> => SessionMoves /\ LapsedHaveBegun'
  <2> SUFFICES ASSUME TabsInv, LapsedHaveBegun, [SessionsNext]_<<vars, tabVars>>
               PROVE  SessionMoves /\ LapsedHaveBegun'
    OBVIOUS
  <2>1. Inv
    BY DEF TabsInv
  <2>2. ASSUME NEW r \in Requests, Tabs(r) PROVE SessionMoves /\ LapsedHaveBegun'
    BY <2>1, <2>2, TabsAreRequests, RequestsFollow, NothingMoves
  <2>3. ASSUME NEW r \in Requests, RequestStep(r) PROVE SessionMoves /\ LapsedHaveBegun'
    BY <2>1, <2>3, RequestsFollow
  <2>4. CASE Time
    BY <2>1, <2>4, TimeEnds
  <2>5. CASE UNCHANGED <<vars, tabVars>>
    BY <2>5, NothingMoves
  <2> QED BY <2>2, <2>3, <2>4, <2>5 DEF SessionsNext, Next, RequestStep, Known
<1>2. SessionsInit => Promised!LoginsInit /\ LapsedHaveBegun
  BY SessionsBegin DEF SessionsInit
<1> QED BY <1>1, <1>2, TabsInvariant, PTL
    DEF SessionsSpec, LoginsAreSessions, Promised!LoginsSpec, SessionMoves

\* The promise, for itself: a session that has begun is continued by one token, ...
LEMMA PromisedOneToken == LoginsAreSessions => []Promised!OneTokenContinues
<1> DEFINE Begun == \A t \in Continuing : t[1] \in 1..logins
           PInv == logins \in Nat /\ Begun /\ Promised!OneTokenContinues
<1>1. Promised!LoginsInit => PInv
  BY DEF Promised!LoginsInit, Promised!OneTokenContinues
<1>2. PInv /\ SessionMoves => PInv'
  <2> SUFFICES ASSUME PInv, SessionMoves PROVE PInv'
    OBVIOUS
  <2>1. CASE Promised!Begin
    <3> DEFINE n == <<logins + 1, 0>>
    <3>1. logins' = logins + 1 /\ Continuing' = Continuing \cup {n} /\ n[1] = logins + 1
      BY <2>1 DEF Promised!Begin
    <3> HIDE DEF n
    <3>2. (logins \in Nat)' /\ Begun'
      BY <3>1
    <3>3. ASSUME NEW t \in Continuing', NEW u \in Continuing', t[1] = u[1] PROVE t = u
      BY <3>1, <3>3 DEF Promised!OneTokenContinues
    <3> QED BY <3>2, <3>3 DEF Promised!OneTokenContinues
  <2>2. ASSUME NEW t \in Continuing, Promised!Renew(t) PROVE PInv'
    BY <2>2 DEF Promised!Renew, Promised!Successor, Promised!OneTokenContinues
  <2>3. ASSUME NEW S \in SUBSET Continuing, Promised!End(S) PROVE PInv'
    BY <2>3 DEF Promised!End, Promised!OneTokenContinues
  <2>4. CASE UNCHANGED Promised!loginVars
    BY <2>4 DEF Promised!loginVars, Promised!OneTokenContinues
  <2> QED BY <2>1, <2>2, <2>3, <2>4 DEF SessionMoves, Promised!LoginsNext
<1>3. PInv => Promised!OneTokenContinues
  OBVIOUS
<1> HIDE DEF PInv
<1> QED BY <1>1, <1>2, <1>3, PTL DEF LoginsAreSessions, Promised!LoginsSpec, SessionMoves

\* ... and what continues it follows what has continued it before.
LEMMA PromisedEnds == LoginsAreSessions => Promised!EndedSessionsStayEnded
<1> DEFINE Follows == \A t \in Continuing' :
                        t[1] <= logins => t \in Continuing \/ \E u \in Continuing : t = Promised!Successor(u)
<1>1. Promised!LoginsInit => logins \in Nat
  BY DEF Promised!LoginsInit
<1>2. logins \in Nat /\ SessionMoves => (logins \in Nat)'
  BY DEF SessionMoves, Promised!LoginsNext, Promised!Begin, Promised!Renew, Promised!End, Promised!loginVars
<1>3. logins \in Nat /\ SessionMoves => [Follows]_(Promised!loginVars)
  <2> SUFFICES ASSUME logins \in Nat, Promised!LoginsNext PROVE Follows
    BY DEF SessionMoves
  <2>1. CASE Promised!Begin
    BY <2>1 DEF Promised!Begin
  <2>2. ASSUME NEW t \in Continuing, Promised!Renew(t) PROVE Follows
    BY <2>2 DEF Promised!Renew
  <2>3. ASSUME NEW S \in SUBSET Continuing, Promised!End(S) PROVE Follows
    BY <2>3 DEF Promised!End
  <2> QED BY <2>1, <2>2, <2>3 DEF Promised!LoginsNext
<1> QED BY <1>1, <1>2, <1>3, PTL
    DEF LoginsAreSessions, Promised!LoginsSpec, SessionMoves, Promised!EndedSessionsStayEnded

\* What a logout, a revocation or the expiry has ended stays so: in the browser and out of
\* it no late presentation, double-present or answer of a rotation brings a session back,
\* and a session that goes on goes from a token to the next one.
THEOREM EndedIsEnded ==
    SessionsSpec => []Promised!OneTokenContinues /\ Promised!EndedSessionsStayEnded
BY BrowserLoginsAreSessions, PromisedOneToken, PromisedEnds, PTL

\* No tab is refreshing when a logout has completed.
NoRefreshOutlives == left => \A r \in Requests : tab[r].act # "refresh"

\* A logout is final, in any number of tabs and with or without the Locks API, as long as
\* no refresh outlives it: it is the refresh that was under way in another tab, and nothing
\* else, that stores a token again (`sessions_logout`).
THEOREM LogoutsAreFinal == SessionsSpec /\ []NoRefreshOutlives => []LogoutIsFinal
<1>1. LogoutIsFinal /\ NoRefreshOutlives /\ [SessionsNext]_<<vars, tabVars>> => LogoutIsFinal'
  <2> SUFFICES ASSUME LogoutIsFinal, NoRefreshOutlives, [SessionsNext]_<<vars, tabVars>>
               PROVE  LogoutIsFinal'
    OBVIOUS
  <2>1. CASE UNCHANGED tabVars
    BY <2>1 DEF LogoutIsFinal, tabVars
  <2>2. ASSUME NEW r \in Requests, Tabs(r)
        PROVE  LogoutIsFinal'
    <3>1. CASE Refreshed(r) \/ Refused(r) \/ AnswerLost(r)
      BY <3>1 DEF Refreshed, Refused, AnswerLost, LogoutIsFinal, NoRefreshOutlives
    <3>2. CASE LoggedIn(r) \/ LoggedOut(r)
      BY <3>2 DEF LoggedIn, LoggedOut, LogoutIsFinal
    <3>3. CASE LogIn(r) \/ Refresh(r) \/ Present(r) \/ Unread(r) \/ LogOut(r) \/ SendLogout(r)
      BY <3>3 DEF LogIn, Refresh, Present, Unread, LogOut, SendLogout, LogoutIsFinal, tabVars
    <3> QED BY <2>2, <3>1, <3>2, <3>3 DEF Tabs
  <2> QED BY <2>1, <2>2 DEF SessionsNext
<1>2. SessionsInit => LogoutIsFinal
  BY DEF SessionsInit, LogoutIsFinal
<1> QED BY <1>1, <1>2, PTL DEF SessionsSpec

-----------------------------------------------------------------------------
(* Under the lock.                                                         *)

\* What a tab does and where its request stands; a refresh has the lock.
TabOK(r) ==
    /\ lock = r <=> tab[r].act = "refresh"
    /\ req[r].ph # "done" => req[r].answer = NoToken
    /\ req[r].why # "password" /\ (req[r].ph \in {"revoking", "deleting"} => req[r].why = "reuse")
    /\ tab[r].act = "quiet" => req[r].ph = "idle"
    /\ tab[r].act = "login" => req[r].ph = "done" /\ req[r].answer \in Tokens
    /\ tab[r].act \in {"refresh", "gone"} =>
          /\ tab[r].held \in Tokens /\ req[r].ph # "leaving"
          /\ req[r].ph \notin {"idle", "done"} => req[r].tok = tab[r].held
          /\ req[r].ph = "done" => req[r].answer \in {NoToken, Successor(tab[r].held)}
    /\ tab[r].act = "logout" =>
          /\ parted /\ tab[r].held \in Tokens /\ req[r].ph \in {"idle", "leaving", "done"}
          /\ req[r].ph = "leaving" => req[r].tok = tab[r].held
          /\ req[r].ph = "done" => req[r].answer = NoToken

Fresher(x, y) == x[1] = y[1] /\ x[2] > y[2]

\* No tab presents a token after x, and none was consumed.
Foremost(x) ==
    /\ \A q \in Requests : ~Fresher(tab[q].held, x)
    /\ ~parted => \A u \in Tokens : Fresher(u, x) => row[u] # "revoked"

\* The token of a login is known to its tab alone.
Private(r) ==
    tab[r].act = "login" =>
        /\ stored[1] # req[r].answer[1]
        /\ \A q \in Requests : tab[q].held[1] # req[r].answer[1]
        /\ \A q \in Requests \ {r} : req[q].answer[1] # req[r].answer[1]

FrontOK ==
    /\ stored[1] <= logins /\ \A r \in Requests : tab[r].held[1] <= logins /\ req[r].answer[1] <= logins
    /\ stored # NoToken => Foremost(stored)
    /\ \A r \in Requests :
          /\ Private(r)
          /\ tab[r].act = "login" => Foremost(req[r].answer)
          /\ tab[r].act = "refresh" => Foremost(tab[r].held) /\ ~Fresher(stored, tab[r].held)

Renewed(r) == tab[r].act = "refresh" /\ req[r].ph = "done" /\ req[r].answer # NoToken
Unspent(x) == \A u \in Tokens : Fresher(u, x) => row[u] = "none"

\* No answer lost, no reuse seen.
CurrentOK ==
    losses = 0 /\ ~reused =>
        /\ stored # NoToken =>
              /\ row[stored] # "none"
              /\ \/ \E r \in Requests : Renewed(r) /\ tab[r].held = stored
                 \/ Unspent(stored) /\ (row[stored] = "live" \/ \E r \in Requests : tab[r].act = "logout" /\ tab[r].held = stored)
        /\ \A r \in Requests :
              /\ tab[r].act # "gone"
              /\ tab[r].act \in {"refresh", "logout"} => row[tab[r].held] # "none"
              /\ tab[r].act = "refresh" /\ ~Renewed(r) => Unspent(tab[r].held)
              /\ Renewed(r) \/ tab[r].act = "login" => row[req[r].answer] = "live"

NoReplay ==
    losses = 0 /\ ~parted =>
        /\ ~reused
        /\ \A r \in Requests :
              /\ req[r].ph \notin {"grace", "revoking", "deleting"}
              /\ tab[r].act = "refresh" /\ req[r].ph \in {"idle", "rotated", "late"} => row[tab[r].held] = "live"

BrowserInv ==
    TabsInv /\ (~anyClient => (\A r \in Requests : TabOK(r)) /\ FrontOK /\ CurrentOK /\ NoReplay)

\* Fresher orders the tokens of a family.
LEMMA FresherMeans ==
    ASSUME NEW x \in Kept, NEW y \in Kept
    PROVE  /\ ~Fresher(x, x) /\ (Fresher(x, y) => ~Fresher(y, x))
           /\ \A z \in Kept : Fresher(x, y) /\ Fresher(y, z) => Fresher(x, z)
           /\ \A z \in Kept : Fresher(z, x) /\ ~Fresher(y, x) /\ x[1] = y[1] => Fresher(z, y)
           /\ x \in Tokens /\ y = Successor(x) => Fresher(y, x) /\ \A z \in Kept : Fresher(z, y) => Fresher(z, x)
<1>1. x[1] \in Nat /\ x[2] \in Nat /\ y[1] \in Nat /\ y[2] \in Nat /\ \A z \in Kept : z[1] \in Nat /\ z[2] \in Nat
  BY KeptShape
<1>2. Successor(x)[1] = x[1] /\ Successor(x)[2] = x[2] + 1
  BY DEF Successor
<1> QED BY <1>1, <1>2 DEF Fresher

\* A step of the server that changes no row and lets no request be answered that
\* presented a token, while none was lost and none replayed.
LEMMA MovesOn ==
    ASSUME BrowserInv, ~anyClient, NEW r \in Requests,
           UNCHANGED <<row, logins, reused, tabVars>>,
           req' \in [Requests -> Request], \A q \in Requests : q # r => req'[q] = req[q],
           tab[r].act \in {"refresh", "gone", "logout"}, req[r].ph # "done",
           TabOK(r)', req'[r].answer \in {NoToken, Successor(tab[r].held)},
           losses = 0 /\ ~reused => ~Renewed(r)',
           losses = 0 /\ ~parted =>
              /\ req'[r].ph \notin {"grace", "revoking", "deleting"}
              /\ tab[r].act = "refresh" /\ req'[r].ph \in {"idle", "rotated", "late"} => row[tab[r].held] = "live",
           TabsInv'
    PROVE  BrowserInv'
<1> USE DEF BrowserInv, tabVars
<1>1. \A q \in Requests : TabOK(q)'
  BY DEF TabOK
<1>2. /\ tab[r].held[1] <= logins /\ req'[r].answer[1] \in {0, tab[r].held[1]}
      /\ logins \in Nat /\ req'[r].answer[1] <= logins
  <2>1. Successor(tab[r].held)[1] = tab[r].held[1] /\ NoToken[1] = 0
    BY DEF Successor, NoToken
  <2> QED BY <2>1 DEF FrontOK, TabsInv, SessionsTypeOK, TypeOK
<1>3. \A q \in Requests : Private(q)'
  <2>1. ASSUME NEW q \in Requests, tab[q].act = "login"
        PROVE  Private(q)'
    <3>1. q # r /\ req[q].answer[1] >= 1 /\ req[q].answer[1] # tab[r].held[1]
      BY <2>1, TokenShape DEF FrontOK, Private, TabOK
    <3> QED BY <1>2, <2>1, <3>1 DEF FrontOK, Private
  <2> QED BY <2>1 DEF Private
<1>4. FrontOK'
  BY <1>2, <1>3 DEF FrontOK, Foremost
<1>5. \A q \in Requests : Renewed(q)' => Renewed(q) \/ q = r
  BY DEF Renewed
<1>6. CurrentOK'
  <2> SUFFICES ASSUME losses = 0, ~reused PROVE CurrentOK'
    BY DEF CurrentOK
  <2>1. \A q \in Requests : Renewed(q)' <=> Renewed(q)
    BY DEF Renewed
  <2> QED BY <2>1 DEF CurrentOK, Unspent
<1>7. NoReplay'
  BY DEF NoReplay
<1> QED BY <1>1, <1>4, <1>6, <1>7

\* The request that moves and where it goes.
LEMMA MovesTo ==
    ASSUME TabsInv, NEW r \in Requests, NEW s \in Request, Goes(r, s)
    PROVE  req' \in [Requests -> Request] /\ req'[r] = s /\ \A q \in Requests : q # r => req'[q] = req[q]
BY GoesTo DEF TabsInv, Inv, TypeOK

\* Who is served by a step of the server.
LEMMA ServedTabs ==
    ASSUME BrowserInv, ~anyClient, NEW r \in Requests, req[r].ph \notin {"idle", "done"}
    PROVE  /\ tab[r].act \in {"refresh", "gone", "logout"} /\ TabOK(r)
           /\ req[r].tok = tab[r].held /\ tab[r].held \in Tokens
           /\ req[r].ph = "leaving" <=> tab[r].act = "logout"
           /\ req[r] \in Request
<1>1. TabOK(r) /\ tab[r] \in Tab /\ req[r] \in Request
  BY TabFields DEF BrowserInv
<1> QED BY <1>1 DEF TabOK, Tab

\* A request that has its answer.
LEMMA AnswerShape ==
    ASSUME NEW t \in Kept
    PROVE  /\ [Resting EXCEPT !.ph = "done", !.answer = t] \in Request
           /\ [Resting EXCEPT !.ph = "done", !.answer = t].ph = "done"
           /\ [Resting EXCEPT !.ph = "done", !.answer = t].why = "none"
           /\ [Resting EXCEPT !.ph = "done", !.answer = t].answer = t
BY RestingType DEF Resting, Request, Phases, Kept

\* A tab sends the token it read under the lock.
LEMMA PresentKeeps ==
    ASSUME BrowserInv, ~anyClient, NEW r \in Requests, Present(r), TabsInv'
    PROVE  BrowserInv'
<1> USE DEF BrowserInv
<1>1. /\ tab[r].act \in {"refresh", "gone"} /\ req[r].ph = "idle" /\ tab[r].held \in Tokens
      /\ UNCHANGED <<row, logins, reused, tabVars>>
      /\ TabOK(r)
  BY DEF Present, Consume, TabsInv
<1>2. PICK s \in Request : /\ Goes(r, s) /\ s.ph \in {"rotated", "late"} /\ s.tok = tab[r].held
                           /\ s.why = "none" /\ s.answer = NoToken
  <2>1. \A p \in {"rotated", "late"} :
           /\ [Resting EXCEPT !.ph = p, !.tok = tab[r].held] \in Request
           /\ [Resting EXCEPT !.ph = p, !.tok = tab[r].held].ph = p
           /\ [Resting EXCEPT !.ph = p, !.tok = tab[r].held].tok = tab[r].held
           /\ [Resting EXCEPT !.ph = p, !.tok = tab[r].held].why = "none"
           /\ [Resting EXCEPT !.ph = p, !.tok = tab[r].held].answer = NoToken
    BY <1>1, RestingType DEF Resting, Request, Phases
  <2> QED BY <2>1 DEF Present, Consume
<1>3. req' \in [Requests -> Request] /\ req'[r] = s /\ \A q \in Requests : q # r => req'[q] = req[q]
  BY <1>2, MovesTo
<1>4. TabOK(r)' /\ ~Renewed(r)'
  BY <1>1, <1>2, <1>3 DEF TabOK, Renewed, tabVars
<1>5. losses = 0 /\ ~parted =>
              /\ req'[r].ph \notin {"grace", "revoking", "deleting"}
              /\ tab[r].act = "refresh" /\ req'[r].ph \in {"idle", "rotated", "late"} => row[tab[r].held] = "live"
  BY <1>1, <1>2, <1>3 DEF NoReplay
<1> QED BY <1>1, <1>2, <1>3, <1>4, <1>5, MovesOn

\* A logout is sent.
LEMMA SendLogoutKeeps ==
    ASSUME BrowserInv, ~anyClient, NEW r \in Requests, SendLogout(r), TabsInv'
    PROVE  BrowserInv'
<1> USE DEF BrowserInv
<1>1. /\ tab[r].act = "logout" /\ req[r].ph = "idle" /\ tab[r].held \in Tokens
      /\ UNCHANGED <<row, logins, reused, tabVars>> /\ TabOK(r)
  BY DEF SendLogout, BeginLogout, TabsInv, tokenVars
<1>2. PICK s \in Request : /\ Goes(r, s) /\ s.ph \in {"leaving", "done"} /\ (s.ph = "leaving" => s.tok = tab[r].held)
                           /\ s.why = "none" /\ s.answer = NoToken
  <2>1. /\ [Resting EXCEPT !.ph = "leaving", !.tok = tab[r].held] \in Request
        /\ [Resting EXCEPT !.ph = "leaving", !.tok = tab[r].held].ph = "leaving"
        /\ [Resting EXCEPT !.ph = "leaving", !.tok = tab[r].held].tok = tab[r].held
        /\ [Resting EXCEPT !.ph = "leaving", !.tok = tab[r].held].why = "none"
        /\ [Resting EXCEPT !.ph = "leaving", !.tok = tab[r].held].answer = NoToken
    BY <1>1, RestingType DEF Resting, Request, Phases
  <2>2. CASE Goes(r, [Resting EXCEPT !.ph = "leaving", !.tok = tab[r].held])
    BY <2>1, <2>2
  <2>3. CASE Refuses(r)
    BY <2>3, AnswerShape DEF Refuses, Answers, Kept
  <2> QED BY <2>2, <2>3 DEF SendLogout, BeginLogout
<1>3. req' \in [Requests -> Request] /\ req'[r] = s /\ \A q \in Requests : q # r => req'[q] = req[q]
  BY <1>2, MovesTo
<1>4. TabOK(r)' /\ ~Renewed(r)' /\ parted
  BY <1>1, <1>2, <1>3 DEF TabOK, Renewed, tabVars
<1> QED BY <1>1, <1>2, <1>3, <1>4, MovesOn

\* A token that cannot be consumed: what the row says decides.
LEMMA ReadsKeep ==
    ASSUME BrowserInv, ~anyClient, NEW r \in Requests,
           ReadRevoked(r) \/ ReadSuccessor(r) \/ BeginRevokeAll(r),
           UNCHANGED tabVars, TabsInv'
    PROVE  BrowserInv'
<1> USE DEF BrowserInv
<1>1. /\ UNCHANGED <<row, logins, reused>>
      /\ req[r].ph \in {"late", "grace", "revoking"}
  BY DEF ReadRevoked, ReadSuccessor, BeginRevokeAll, tokenVars
<1>2. /\ tab[r].act \in {"refresh", "gone"} /\ TabOK(r) /\ req[r].tok = tab[r].held /\ tab[r].held \in Tokens
      /\ req[r] \in Request
  BY <1>1, ServedTabs
<1>3. req[r].ph \in {"late", "grace"} => tab[r].held[2] < MaxChain
  BY <1>1, <1>2 DEF TabsInv, Inv, Placed
<1>4. PICK s \in Request :
          /\ Goes(r, s) /\ s.why \in {"none", "reuse"} /\ (s.ph \in {"revoking", "deleting"} => s.why = "reuse")
          /\ (s.ph \in {"grace", "revoking", "deleting"} /\ s.tok = tab[r].held) \/ s.ph = "done"
          /\ \/ s.answer = NoToken
             \/ s.ph # "done" /\ s.answer = req[r].answer
             \/ /\ s.ph = "done" /\ s.answer = Successor(tab[r].held)
                /\ Usable(Successor(tab[r].held)) /\ req[r].ph = "grace"
          /\ req[r].ph = "late" /\ s.ph # "done" => row[tab[r].held] = "revoked"
  <2>1. /\ \A w \in {"none", "reuse"} : [req[r] EXCEPT !.ph = "revoking", !.why = w] \in Request
        /\ [req[r] EXCEPT !.ph = "grace"] \in Request
        /\ [req[r] EXCEPT !.ph = "deleting", !.snap = Issued] \in Request
        /\ req[r].answer \in Kept /\ req[r].why \in {"none", "reuse"}
    BY <1>2 DEF Request, Phases, Issued, Kept, TabOK
  <2>2. CASE ReadRevoked(r)
    <3>1. CASE Refuses(r)
      BY <2>2, <3>1, AnswerShape DEF Refuses, Answers, Kept
    <3>2. CASE Goes(r, [req[r] EXCEPT !.ph = "grace"]) /\ row[tab[r].held] = "revoked"
      BY <1>2, <2>1, <2>2, <3>2 DEF Request, ReadRevoked
    <3>3. CASE Goes(r, [req[r] EXCEPT !.ph = "revoking", !.why = "reuse"]) /\ row[tab[r].held] = "revoked"
      BY <1>2, <2>1, <2>2, <3>3 DEF Request, ReadRevoked
    <3> QED BY <1>2, <2>2, <3>1, <3>2, <3>3 DEF ReadRevoked
  <2>3. CASE ReadSuccessor(r)
    <3>1. Successor(tab[r].held) \in Kept
      BY <1>2, <1>3, <2>3, TokenShape DEF ReadSuccessor, Kept
    <3>2. CASE Usable(Successor(tab[r].held)) /\ Answers(r, Successor(tab[r].held))
      BY <2>3, <3>1, <3>2, AnswerShape DEF Answers, ReadSuccessor
    <3>3. CASE Goes(r, [req[r] EXCEPT !.ph = "revoking", !.why = "reuse"])
      BY <1>2, <2>1, <2>3, <3>3 DEF Request, ReadSuccessor
    <3> QED BY <1>2, <2>3, <3>2, <3>3 DEF ReadSuccessor
  <2>4. CASE BeginRevokeAll(r)
    <3>1. req[r].ph = "revoking" /\ req[r].why = "reuse"
      BY <1>2, <2>4 DEF BeginRevokeAll, TabOK
    <3> QED BY <1>2, <2>1, <2>4, <3>1 DEF BeginRevokeAll, Request
  <2> QED BY <2>2, <2>3, <2>4
<1>5. req' \in [Requests -> Request] /\ req'[r] = s /\ \A q \in Requests : q # r => req'[q] = req[q]
  BY <1>4, MovesTo
<1>10. req[r].answer = NoToken
  BY <1>1, <1>2 DEF TabOK
<1>6. TabOK(r)'
  <2>1. s.ph # "done" => s.answer = NoToken
    BY <1>4, <1>10
  <2>2. s.answer \in {NoToken, Successor(tab[r].held)}
    BY <1>4, <1>10
  <2> QED BY <1>2, <1>4, <1>5, <2>1, <2>2 DEF TabOK, tabVars
<1>7. ASSUME losses = 0, ~reused PROVE ~Renewed(r)'
  <2> SUFFICES ASSUME Renewed(r)' PROVE FALSE
    OBVIOUS
  <2>1. tab[r].act = "refresh" /\ s.answer # NoToken /\ s.ph = "done"
    BY <1>5 DEF Renewed, tabVars
  <2>2. Usable(Successor(tab[r].held)) /\ Successor(tab[r].held) \in Tokens
    BY <1>2, <1>3, <1>4, <2>1, TokenShape
  <2>3. Unspent(tab[r].held)
    BY <1>1, <1>7, <2>1 DEF CurrentOK, Renewed
  <2>4. Fresher(Successor(tab[r].held), tab[r].held)
    BY <1>2, <2>2, FresherMeans DEF Kept
  <2> QED BY <2>2, <2>3, <2>4 DEF Unspent, Usable
<1>8. ASSUME losses = 0, ~parted
      PROVE  req'[r].ph \notin {"idle", "rotated", "late", "grace", "revoking", "deleting"}
  <2>1. req[r].ph = "late" /\ tab[r].act = "refresh"
    BY <1>1, <1>2, <1>8 DEF NoReplay, CurrentOK
  <2>2. row[tab[r].held] = "live"
    BY <1>8, <2>1 DEF NoReplay
  <2> QED BY <1>4, <1>5, <2>1, <2>2
<1>9. req'[r].answer \in {NoToken, Successor(tab[r].held), req[r].answer}
  BY <1>4, <1>5
<1> QED BY <1>1, <1>2, <1>4, <1>5, <1>6, <1>7, <1>8, <1>9, <1>10, MovesOn

\* The families of the tokens the tabs know have begun, and a login's answer is a
\* token of its own.
LEMMA Known1 ==
    ASSUME BrowserInv, ~anyClient, NEW q \in Requests
    PROVE  /\ tab[q].held[1] <= logins /\ req[q].answer[1] <= logins /\ logins \in Nat
           /\ tab[q].act = "login" => req[q].answer \in Tokens /\ req[q].answer[1] >= 1 /\ Private(q)
           /\ TabOK(q)
<1>1. FrontOK /\ TabOK(q) /\ logins \in Nat
  BY DEF BrowserInv, TabsInv, SessionsTypeOK, TypeOK
<1> QED BY <1>1, TokenShape DEF FrontOK, TabOK

\* A rotation commits and answers.
LEMMA RotationKeeps ==
    ASSUME BrowserInv, ~anyClient, NEW r \in Requests, CommitRotation(r), UNCHANGED tabVars, TabsInv'
    PROVE  BrowserInv'
<1> DEFINE t == tab[r].held
           n == Successor(tab[r].held)
<1>1. /\ tab[r].act \in {"refresh", "gone"} /\ TabOK(r) /\ req[r].tok = t /\ t \in Tokens
      /\ t[2] < MaxChain /\ req[r].ph = "rotated" /\ row[t] = "live"
  <2>1. req[r].ph = "rotated"
    BY DEF CommitRotation
  <2> QED BY <2>1, ServedTabs DEF BrowserInv, TabsInv, Inv, Held
<1>2. n \in Tokens /\ n[1] = t[1] /\ n # t /\ Fresher(n, t) /\ n \in Kept /\ n # NoToken
  <2>1. n \in Tokens /\ n[1] = t[1] /\ n[2] = t[2] + 1 /\ t[2] \in Nat /\ t[1] >= 1 /\ t[1] \in Nat
    BY <1>1, TokenShape
  <2> QED BY <2>1 DEF Fresher, Kept, NoToken
<1>3. /\ req' \in [Requests -> Request] /\ req'[r].ph = "done" /\ req'[r].why = "none" /\ req'[r].answer = n
      /\ \A q \in Requests : q # r => req'[q] = req[q]
  BY <1>1, <1>2, AnswerShape, MovesTo, ZenonT(60) DEF CommitRotation, Answers, BrowserInv
<1>4. /\ row'[t] = "revoked" /\ row'[n] = "live" /\ \A u \in Tokens : u # t /\ u # n => row'[u] = row[u]
      /\ UNCHANGED <<logins, reused, tabVars>>
  BY <1>1, <1>2 DEF CommitRotation, Rotate, BrowserInv, TabsInv, SessionsTypeOK, TypeOK
<1>5. Fresher(n, t) /\ row[n] = "none"
  BY <1>1, <1>2 DEF BrowserInv, TabsInv, Inv, LastOfItsFamily, Fresher
<1> HIDE DEF n
<1>6. \A q \in Requests : TabOK(q)'
  BY <1>1, <1>3, <1>4 DEF BrowserInv, TabOK, tabVars, n
<1>7. \A q \in Requests : Private(q)'
  <2> SUFFICES ASSUME NEW q \in Requests, tab[q].act = "login" PROVE Private(q)'
    BY <1>4 DEF Private, tabVars
  <2>1. q # r /\ Private(q) /\ req'[q].answer = req[q].answer /\ req'[r].answer[1] = tab[r].held[1]
    BY <1>1, <1>2, <1>3, Known1
  <2> QED BY <1>3, <1>4, <2>1 DEF Private, tabVars
<1>8. FrontOK'
  <2>1. ASSUME NEW x, Foremost(x) PROVE Foremost(x)'
    BY <1>4, <2>1 DEF Foremost, tabVars
  <2> QED BY <1>1, <1>2, <1>3, <1>4, <1>7, <2>1, Known1 DEF BrowserInv, FrontOK, tabVars, TabOK
<1>9. CurrentOK'
  <2> SUFFICES ASSUME losses = 0, ~reused PROVE CurrentOK'
    BY <1>4 DEF CurrentOK, tabVars
  <2>1. /\ tab[r].act = "refresh" /\ \A q \in Requests : tab[q].act = "refresh" => q = r
        /\ Renewed(r)' /\ \A q \in Requests : ~Renewed(q)
    BY <1>1, <1>2, <1>3, <1>4 DEF BrowserInv, CurrentOK, Renewed, TabOK, tabVars
  <2>2. \A u \in Tokens : row[u] # "none" => row'[u] # "none"
    BY <1>4
  <2>3. ASSUME stored # NoToken
        PROVE  /\ row'[stored] # "none"
               /\ \/ stored = t
                  \/ /\ Unspent(stored)'
                     /\ row'[stored] = "live" \/ \E q \in Requests : tab[q].act = "logout" /\ tab[q].held = stored
    <3>1. /\ stored \in Tokens /\ row[stored] # "none" /\ Unspent(stored) /\ ~Fresher(stored, t)
          /\ row[stored] = "live" \/ \E q \in Requests : tab[q].act = "logout" /\ tab[q].held = stored
      BY <2>1, <2>3, TabFields DEF BrowserInv, CurrentOK, FrontOK, Kept
    <3>2. CASE stored # t
      <4>1. stored[1] # t[1]
        BY <1>1, <3>1, <3>2, SameToken, TokenShape DEF Fresher, Unspent
      <4> QED BY <1>2, <1>4, <3>1, <4>1 DEF Unspent, Fresher, tabVars
    <3> QED BY <2>2, <3>1, <3>2
  <2>4. ASSUME NEW q \in Requests
        PROVE  /\ tab[q].act # "gone"
               /\ tab[q].act \in {"refresh", "logout"} => row'[tab[q].held] # "none"
               /\ tab[q].act = "login" => row'[req'[q].answer] = "live"
    <3>1. /\ tab[q].act # "gone"
          /\ tab[q].act \in {"refresh", "logout"} => row[tab[q].held] # "none" /\ tab[q].held \in Tokens
          /\ tab[q].act = "login" => row[req[q].answer] = "live"
      BY Known1 DEF BrowserInv, CurrentOK, TabsInv
    <3>2. ASSUME tab[q].act = "login" PROVE row'[req'[q].answer] = "live"
      <4>1. q # r /\ req[q].answer \in Tokens /\ req[q].answer[1] # t[1]
        BY <2>1, <3>2, Known1 DEF Private
      <4> QED BY <1>2, <1>3, <1>4, <3>1, <3>2, <4>1
    <3> QED BY <2>2, <3>1, <3>2
  <2>5. /\ losses' = losses /\ reused' = reused /\ stored' = stored /\ tab' = tab
        /\ row'[req'[r].answer] = "live" /\ \A q \in Requests : Renewed(q)' => q = r
    BY <1>3, <1>4, <2>1 DEF tabVars, Renewed
  <2> QED BY <2>1, <2>3, <2>4, <2>5 DEF CurrentOK
<1>10. NoReplay'
  <2> SUFFICES ASSUME losses = 0, ~parted PROVE NoReplay'
    BY <1>4 DEF NoReplay, tabVars
  <2>1. ~reused /\ tab[r].act = "refresh"
    BY <1>1 DEF BrowserInv, NoReplay, CurrentOK
  <2>2. \A q \in Requests : tab[q].act = "refresh" => q = r
    BY <2>1, <1>1 DEF BrowserInv, TabOK
  <2> QED BY <1>3, <1>4, <2>1, <2>2 DEF BrowserInv, NoReplay, tabVars
<1> QED BY <1>6, <1>8, <1>9, <1>10 DEF BrowserInv

\* A request that is answered with nothing: what the requests then say.
LEMMA RefusedShape ==
    ASSUME BrowserInv, ~anyClient, NEW r \in Requests, Refuses(r), UNCHANGED tabVars,
           tab[r].act \in {"refresh", "gone", "logout"}, TabOK(r)
    PROVE  /\ req' \in [Requests -> Request] /\ req'[r].ph = "done" /\ req'[r].answer = NoToken
           /\ \A q \in Requests : q # r => req'[q] = req[q]
           /\ \A q \in Requests : TabOK(q)' /\ (Private(q) => Private(q)') /\ (Renewed(q)' => Renewed(q))
<1>1. /\ req' \in [Requests -> Request] /\ req'[r].ph = "done" /\ req'[r].why = "none" /\ req'[r].answer = NoToken
      /\ \A q \in Requests : q # r => req'[q] = req[q]
  <2>1. NoToken \in Kept /\ Goes(r, [Resting EXCEPT !.ph = "done", !.answer = NoToken])
    BY DEF Refuses, Answers, Kept
  <2>2. PICK s \in Request : Goes(r, s) /\ s.ph = "done" /\ s.why = "none" /\ s.answer = NoToken
    BY <2>1, AnswerShape
  <2> QED BY <2>2, MovesTo DEF BrowserInv
<1>2. \A q \in Requests : TabOK(q)'
  BY <1>1 DEF BrowserInv, TabOK, tabVars
<1>3. ASSUME NEW q \in Requests, Private(q) PROVE Private(q)'
  <2> SUFFICES ASSUME tab[q].act = "login" PROVE Private(q)'
    BY DEF Private, tabVars
  <2>1. q # r /\ req'[q].answer = req[q].answer /\ req'[q].answer[1] >= 1 /\ req'[r].answer[1] = 0
    BY <1>1, Known1 DEF NoToken
  <2> QED BY <1>1, <1>3, <2>1 DEF Private, tabVars
<1>4. \A q \in Requests : Renewed(q)' => Renewed(q)
  BY <1>1 DEF Renewed, tabVars
<1> QED BY <1>1, <1>2, <1>3, <1>4

\* A reuse was seen, and every session ends.
LEMMA RevokeKeeps ==
    ASSUME BrowserInv, ~anyClient, NEW r \in Requests, RevokeAll(r), UNCHANGED tabVars, TabsInv'
    PROVE  BrowserInv'
<1>1. /\ tab[r].act \in {"refresh", "gone"} /\ TabOK(r) /\ req[r].ph = "deleting" /\ req[r].why = "reuse"
  <2>1. req[r].ph = "deleting"
    BY DEF RevokeAll
  <2> QED BY <2>1, ServedTabs DEF TabOK
<1>2. /\ Refuses(r) /\ reused' /\ logins' = logins /\ \A u \in Tokens : row'[u] = "revoked" => row[u] = "revoked"
  BY <1>1 DEF RevokeAll
<1>3. /\ req' \in [Requests -> Request] /\ req'[r].ph = "done" /\ req'[r].answer = NoToken
      /\ \A q \in Requests : q # r => req'[q] = req[q]
      /\ \A q \in Requests : TabOK(q)' /\ Private(q)'
  BY <1>1, <1>2, RefusedShape, Known1 DEF BrowserInv, FrontOK
<1>4. FrontOK'
  <2>1. ASSUME NEW x, Foremost(x) PROVE Foremost(x)'
    BY <1>2, <2>1 DEF Foremost, tabVars
  <2>2. \A q \in Requests : tab'[q].held[1] <= logins' /\ req'[q].answer[1] <= logins'
    BY <1>2, <1>3, Known1 DEF tabVars, NoToken
  <2> QED BY <1>1, <1>2, <1>3, <2>1, <2>2 DEF BrowserInv, FrontOK, tabVars
<1>5. CurrentOK' /\ NoReplay'
  <2>1. ~(losses = 0 /\ ~parted)
    BY <1>1 DEF BrowserInv, NoReplay
  <2> QED BY <1>2, <2>1 DEF CurrentOK, NoReplay, tabVars
<1> QED BY <1>3, <1>4, <1>5 DEF BrowserInv

\* The server revokes what was logged out.
LEMMA LogoutKeeps ==
    ASSUME BrowserInv, ~anyClient, NEW r \in Requests, Logout(r), UNCHANGED tabVars, TabsInv'
    PROVE  BrowserInv'
<1> DEFINE t == tab[r].held
<1>1. tab[r].act = "logout" /\ TabOK(r) /\ parted /\ t \in Tokens /\ req[r].tok = t
  <2>1. req[r].ph = "leaving"
    BY DEF Logout
  <2> QED BY <2>1, ServedTabs DEF TabOK
<1>2. /\ Refuses(r) /\ UNCHANGED <<logins, reused>>
      /\ \A u \in Tokens : u # t => row'[u] = row[u]
      /\ row[t] # "none" => row'[t] = "revoked"
      /\ \A u \in Tokens : row[u] = "none" <=> row'[u] = "none"
  BY <1>1 DEF Logout, BrowserInv, TabsInv, SessionsTypeOK, TypeOK
<1>3. /\ req' \in [Requests -> Request] /\ req'[r].ph = "done" /\ req'[r].answer = NoToken
      /\ \A q \in Requests : q # r => req'[q] = req[q]
      /\ \A q \in Requests : TabOK(q)' /\ Private(q)' /\ (Renewed(q)' => Renewed(q))
  BY <1>1, <1>2, RefusedShape, Known1 DEF BrowserInv, FrontOK
<1>4. FrontOK'
  <2>1. ASSUME NEW x, Foremost(x) PROVE Foremost(x)'
    BY <1>1, <2>1 DEF Foremost, tabVars
  <2>2. \A q \in Requests : tab'[q].held[1] <= logins' /\ req'[q].answer[1] <= logins'
    BY <1>2, <1>3, Known1 DEF tabVars, NoToken
  <2> QED BY <1>1, <1>2, <1>3, <2>1, <2>2 DEF BrowserInv, FrontOK, tabVars
<1>5. CurrentOK'
  <2> SUFFICES ASSUME losses = 0, ~reused PROVE CurrentOK'
    BY <1>2 DEF CurrentOK, tabVars
  <2> USE DEF BrowserInv, CurrentOK
  <2>1. \A q \in Requests : Renewed(q)' <=> Renewed(q)
    BY <1>1, <1>3 DEF Renewed, tabVars
  <2>6. losses' = losses /\ reused' = reused /\ stored' = stored /\ tab' = tab
    BY <1>2 DEF tabVars
  <2>2. /\ Unspent(stored) => Unspent(stored)'
        /\ \A q \in Requests : Unspent(tab[q].held) => Unspent(tab[q].held)'
    BY <1>2, <2>6 DEF Unspent
  <2>3. ASSUME stored # NoToken
        PROVE  /\ row'[stored] # "none"
               /\ \/ \E q \in Requests : Renewed(q) /\ tab[q].held = stored
                  \/ /\ Unspent(stored)'
                     /\ row'[stored] = "live" \/ \E q \in Requests : tab[q].act = "logout" /\ tab[q].held = stored
    <3>1. stored \in Tokens /\ row[stored] # "none"
      BY <2>3, TabFields DEF Kept
    <3>2. row'[stored] = row[stored] \/ stored = t
      BY <1>2, <3>1
    <3>3. \/ \E q \in Requests : Renewed(q) /\ tab[q].held = stored
          \/ /\ Unspent(stored)
             /\ row[stored] = "live" \/ \E q \in Requests : tab[q].act = "logout" /\ tab[q].held = stored
      BY <2>3
    <3>4. Unspent(stored) => Unspent(stored)'
      BY <2>2, <2>6
    <3> QED BY <1>1, <1>2, <3>1, <3>2, <3>3, <3>4
  <2>4. ASSUME NEW q \in Requests, Renewed(q) \/ tab[q].act = "login"
        PROVE  row'[req[q].answer] = "live"
    <3>1. row[req[q].answer] = "live" /\ req[q].answer \in Tokens
      <4>1. req[q].answer \in Kept
        BY TabFields
      <4> QED BY <2>4, <4>1, Known1 DEF Kept, Renewed
    <3>2. CASE tab[q].act = "login"
      BY <1>2, <3>1, <3>2, Known1 DEF Private
    <3>3. CASE Renewed(q)
      <4>1. /\ tab[q].held \in Tokens /\ req[q].answer = Successor(tab[q].held) /\ ~Fresher(t, tab[q].held)
        BY <3>3, Known1 DEF Renewed, FrontOK, Foremost, TabOK
      <4>2. Fresher(req[q].answer, tab[q].held)
        BY <3>1, <4>1, FresherMeans DEF Kept
      <4> QED BY <1>2, <3>1, <4>1, <4>2
    <3> QED BY <2>4, <3>2, <3>3
  <2>5. ASSUME NEW q \in Requests
        PROVE  /\ tab[q].act # "gone"
               /\ tab[q].act \in {"refresh", "logout"} => row'[tab[q].held] # "none"
               /\ tab[q].act = "refresh" /\ ~Renewed(q) => Unspent(tab[q].held)'
               /\ Renewed(q) \/ tab[q].act = "login" => req'[q].answer = req[q].answer
    <3>1. tab[q].act \in {"refresh", "logout"} => tab[q].held \in Tokens
      BY Known1 DEF TabOK
    <3>2. tab[q].act = "refresh" /\ ~Renewed(q) => Unspent(tab[q].held)'
      BY <2>2, <2>6
    <3>3. Renewed(q) \/ tab[q].act = "login" => q # r
      BY <1>1 DEF Renewed
    <3> QED BY <1>2, <1>3, <3>1, <3>2, <3>3
  <2> QED BY <2>1, <2>3, <2>4, <2>5, <2>6
<1>6. NoReplay'
  BY <1>1 DEF NoReplay, tabVars
<1> QED BY <1>3, <1>4, <1>5, <1>6 DEF BrowserInv

\* A tab takes the token that is stored: no tab knows one that is older or newer
\* and still to be given away.
LEMMA HoldsStored ==
    ASSUME BrowserInv, ~anyClient, NEW r \in Requests, NEW s \in Tab, Does(r, s), s.act # "login",
           s.held \in {NoToken, stored, tab[r].held}, UNCHANGED <<vars, stored>>, parted => parted'
    PROVE  /\ tab' \in [Requests -> Tab] /\ tab'[r] = s /\ \A q \in Requests : q # r => tab'[q] = tab[q]
           /\ \A q \in Requests : Private(q)' /\ tab'[q].held[1] <= logins' /\ req'[q].answer[1] <= logins'
           /\ stored # NoToken => Foremost(stored)'
           /\ \A q \in Requests : q # r =>
                 /\ tab[q].act = "login" => Foremost(req[q].answer)'
                 /\ tab[q].act = "refresh" => Foremost(tab[q].held)'
<1>1. tab' \in [Requests -> Tab] /\ tab'[r] = s /\ \A q \in Requests : q # r => tab'[q] = tab[q]
  BY TabGoes DEF BrowserInv
<1>2. /\ \A q \in Requests : tab[q].held[1] <= logins /\ req[q].answer[1] <= logins
      /\ stored[1] <= logins /\ logins \in Nat /\ NoToken[1] = 0 /\ stored \in Kept
      /\ req' = req /\ row' = row /\ logins' = logins /\ stored' = stored
  BY Known1, TabFields DEF BrowserInv, FrontOK, vars, tokenVars, NoToken
<1>3. ASSUME NEW q \in Requests, tab'[q].act = "login" PROVE Private(q)'
  <2>1. /\ q # r /\ tab[q].act = "login" /\ Private(q) /\ req[q].answer[1] >= 1
    BY <1>1, <1>3, Known1
  <2>2. \A p \in Requests : tab'[p].held[1] # req[q].answer[1]
    BY <1>1, <1>2, <2>1 DEF Private
  <2> QED BY <1>2, <2>1, <2>2 DEF Private
<1>4. ASSUME NEW x \in Kept, Foremost(x), ~Fresher(stored, x) PROVE Foremost(x)'
  <2>1. x # NoToken => ~Fresher(NoToken, x)
    BY <1>2, KeptShape DEF Fresher
  <2>2. x = NoToken => ~Fresher(NoToken, x)
    BY FresherMeans DEF Kept
  <2>3. \A q \in Requests : ~Fresher(tab'[q].held, x)
    BY <1>1, <1>4, <2>1, <2>2 DEF Foremost
  <2> QED BY <1>2, <1>4, <2>3 DEF Foremost
<1>5. stored # NoToken => Foremost(stored)'
  <2>1. stored # NoToken => Foremost(stored) /\ ~Fresher(stored, stored)
    BY <1>2, FresherMeans DEF BrowserInv, FrontOK
  <2> QED BY <1>2, <1>4, <2>1 DEF Foremost
<1>6. ASSUME NEW q \in Requests, q # r
      PROVE  /\ tab[q].act = "login" => Foremost(req[q].answer)'
             /\ tab[q].act = "refresh" => Foremost(tab[q].held)'
  <2>1. tab[q].act = "login" => Foremost(req[q].answer)'
    <3>1. tab[q].act = "login" => Foremost(req[q].answer) /\ ~Fresher(stored, req[q].answer)
      BY Known1 DEF BrowserInv, FrontOK, Private, Fresher
    <3>2. req[q].answer \in Kept /\ req' = req
      BY <1>2, TabFields DEF BrowserInv
    <3> QED BY <1>4, <3>1, <3>2 DEF Foremost
  <2>2. tab[q].act = "refresh" => Foremost(tab[q].held)'
    <3>1. tab[q].act = "refresh" => Foremost(tab[q].held) /\ ~Fresher(stored, tab[q].held)
      BY DEF BrowserInv, FrontOK
    <3>2. tab[q].held \in Kept /\ tab'[q] = tab[q]
      BY <1>1, <1>6, TabFields DEF BrowserInv
    <3> QED BY <1>4, <3>1, <3>2 DEF Foremost
  <2> QED BY <2>1, <2>2
<1>7. \A q \in Requests : tab'[q].held[1] <= logins' /\ req'[q].answer[1] <= logins'
  BY <1>1, <1>2
<1> QED BY <1>1, <1>3, <1>5, <1>6, <1>7 DEF Private

\* A tab takes the lock and reads what is stored.
LEMMA RefreshKeeps ==
    ASSUME Locks, BrowserInv, ~anyClient, NEW r \in Requests, Refresh(r), TabsInv'
    PROVE  BrowserInv'
<1> DEFINE s == [Quiet EXCEPT !.act = "refresh", !.held = stored]
<1>1. /\ tab[r].act = "quiet" /\ req[r].ph = "idle" /\ stored # NoToken /\ lock = NoRequest
      /\ lock' = r /\ Does(r, s) /\ UNCHANGED <<vars, stored, left, losses, parted>> /\ TabOK(r)
      /\ NoRequest \notin Requests
  BY NoRequestAssumption, Known1 DEF Refresh, LockIsFree
<1>2. stored \in Kept /\ stored \in Tokens
  BY <1>1, TabFields DEF BrowserInv, Kept
<1>3. s \in Tab /\ s.act = "refresh" /\ s.held = stored
  BY <1>2, TabShapes DEF Quiet
<1> HIDE DEF s
<1>4. /\ tab' \in [Requests -> Tab] /\ tab'[r] = s /\ \A q \in Requests : q # r => tab'[q] = tab[q]
      /\ \A q \in Requests : Private(q)' /\ tab'[q].held[1] <= logins' /\ req'[q].answer[1] <= logins'
      /\ stored # NoToken => Foremost(stored)'
      /\ \A q \in Requests : q # r =>
            /\ tab[q].act = "login" => Foremost(req[q].answer)'
            /\ tab[q].act = "refresh" => Foremost(tab[q].held)'
  BY <1>1, <1>3, HoldsStored
<1>5. \A q \in Requests : tab[q].act # "refresh" /\ ~Renewed(q)
  BY <1>1 DEF BrowserInv, TabOK, Renewed
<1>6. \A q \in Requests : TabOK(q)'
  <2> SUFFICES ASSUME NEW q \in Requests PROVE TabOK(q)'
    OBVIOUS
  <2>1. req' = req /\ parted' = parted
    BY <1>1 DEF vars
  <2>2. CASE q = r
    BY <1>1, <1>2, <1>3, <1>4, <2>1, <2>2 DEF TabOK
  <2>3. CASE q # r
    BY <1>1, <1>4, <1>5, <2>1, <2>3 DEF BrowserInv, TabOK
  <2> QED BY <2>2, <2>3
<1>7. FrontOK'
  <2>1. ASSUME NEW q \in Requests
        PROVE  /\ tab'[q].act = "login" => Foremost(req[q].answer)'
               /\ tab'[q].act = "refresh" => Foremost(tab[q].held)' /\ ~Fresher(stored, tab[q].held)'
    <3>1. CASE q # r
      BY <1>4, <1>5, <3>1
    <3>2. CASE q = r
      <4>1. tab'[q].act = "refresh" /\ tab'[q].held = stored /\ stored' = stored
        BY <1>1, <1>3, <1>4, <3>2
      <4>2. Foremost(stored)' /\ ~Fresher(stored, stored)
        BY <1>1, <1>2, <1>4, FresherMeans
      <4> QED BY <4>1, <4>2 DEF Foremost
    <3> QED BY <3>1, <3>2
  <2>2. stored'[1] <= logins' /\ stored' = stored
    BY <1>1 DEF BrowserInv, FrontOK, vars, tokenVars
  <2> QED BY <1>4, <2>1, <2>2 DEF FrontOK
<1>8. UNCHANGED <<row, req, reused, stored, losses, parted>>
  BY <1>1 DEF vars, tokenVars
<1>9. CurrentOK'
  <2> SUFFICES ASSUME losses = 0, ~reused PROVE CurrentOK'
    BY <1>8 DEF CurrentOK
  <2>1. /\ row[stored] # "none" /\ Unspent(stored)
        /\ row[stored] = "live" \/ \E q \in Requests : tab[q].act = "logout" /\ tab[q].held = stored
    BY <1>1, <1>5 DEF BrowserInv, CurrentOK
  <2>2. /\ row'[stored'] # "none" /\ Unspent(stored)'
        /\ row'[stored'] = "live" \/ \E q \in Requests : tab'[q].act = "logout" /\ tab'[q].held = stored'
    BY <1>1, <1>4, <1>8, <2>1 DEF Unspent
  <2>3. \A q \in Requests : ~Renewed(q)'
    BY <1>1, <1>4, <1>5, <1>8 DEF Renewed
  <2>4. ASSUME NEW q \in Requests
        PROVE  /\ tab'[q].act # "gone"
               /\ tab'[q].act \in {"refresh", "logout"} => row'[tab'[q].held] # "none"
               /\ tab'[q].act = "refresh" => Unspent(tab[q].held)'
               /\ tab'[q].act = "login" => row'[req'[q].answer] = "live"
    <3>1. CASE q = r
      BY <1>3, <1>4, <1>8, <2>1, <3>1 DEF Unspent
    <3>2. CASE q # r
      BY <1>4, <1>5, <1>8, <3>2 DEF BrowserInv, CurrentOK
    <3> QED BY <3>1, <3>2
  <2> QED BY <2>2, <2>3, <2>4 DEF CurrentOK
<1>10. NoReplay'
  <2> SUFFICES ASSUME losses = 0, ~parted PROVE NoReplay'
    BY <1>8 DEF NoReplay
  <2>1. /\ ~reused /\ row[stored] = "live"
        /\ \A q \in Requests : req[q].ph \notin {"grace", "revoking", "deleting"}
    BY <1>1, <1>5 DEF BrowserInv, NoReplay, CurrentOK, TabOK
  <2> QED BY <1>3, <1>4, <1>5, <1>8, <2>1 DEF NoReplay
<1> QED BY <1>6, <1>7, <1>9, <1>10 DEF BrowserInv

\* A tab begins to log out with the token that is stored.
LEMMA LogOutKeeps ==
    ASSUME BrowserInv, ~anyClient, NEW r \in Requests, LogOut(r), TabsInv'
    PROVE  BrowserInv'
<1> DEFINE s == [Quiet EXCEPT !.act = "logout", !.held = stored]
<1>1. /\ tab[r].act = "quiet" /\ req[r].ph = "idle" /\ stored # NoToken
      /\ Does(r, s) /\ parted' = TRUE /\ UNCHANGED <<vars, stored, lock, losses>> /\ TabOK(r)
  BY Known1 DEF LogOut
<1>2. stored \in Kept /\ stored \in Tokens
  BY <1>1, TabFields DEF BrowserInv, Kept
<1>3. s \in Tab /\ s.act = "logout" /\ s.held = stored
  BY <1>2, TabShapes DEF Quiet
<1> HIDE DEF s
<1>4. /\ tab' \in [Requests -> Tab] /\ tab'[r] = s /\ \A q \in Requests : q # r => tab'[q] = tab[q]
      /\ \A q \in Requests : Private(q)' /\ tab'[q].held[1] <= logins' /\ req'[q].answer[1] <= logins'
      /\ stored # NoToken => Foremost(stored)'
      /\ \A q \in Requests : q # r =>
            /\ tab[q].act = "login" => Foremost(req[q].answer)'
            /\ tab[q].act = "refresh" => Foremost(tab[q].held)'
  BY <1>1, <1>3, HoldsStored
<1>5. UNCHANGED <<row, req, reused, logins, stored, lock, losses>>
  BY <1>1 DEF vars, tokenVars
<1>6. \A q \in Requests : TabOK(q)'
  <2> SUFFICES ASSUME NEW q \in Requests PROVE TabOK(q)'
    OBVIOUS
  <2>1. CASE q = r
    BY <1>1, <1>2, <1>3, <1>4, <1>5, <2>1 DEF TabOK
  <2>2. CASE q # r
    BY <1>1, <1>4, <1>5, <2>2 DEF BrowserInv, TabOK
  <2> QED BY <2>1, <2>2
<1>7. FrontOK'
  <2>1. ASSUME NEW q \in Requests
        PROVE  /\ tab'[q].act = "login" => Foremost(req[q].answer)'
               /\ tab'[q].act = "refresh" => Foremost(tab[q].held)' /\ ~Fresher(stored, tab[q].held)'
    <3>1. CASE q # r
      BY <1>4, <1>5, <3>1 DEF BrowserInv, FrontOK
    <3>2. CASE q = r
      BY <1>3, <1>4, <3>2
    <3> QED BY <3>1, <3>2
  <2>2. stored'[1] <= logins' /\ stored' = stored
    BY <1>5 DEF BrowserInv, FrontOK
  <2> QED BY <1>4, <2>1, <2>2 DEF FrontOK
<1>9. CurrentOK'
  <2> SUFFICES ASSUME losses = 0, ~reused PROVE CurrentOK'
    BY <1>5 DEF CurrentOK
  <2>1. \A q \in Requests : Renewed(q)' <=> Renewed(q)
    BY <1>1, <1>3, <1>4, <1>5 DEF Renewed
  <2>2. /\ row[stored] # "none"
        /\ \/ \E q \in Requests : Renewed(q) /\ tab[q].held = stored
           \/ Unspent(stored)
    BY <1>1 DEF BrowserInv, CurrentOK
  <2>3. /\ row'[stored'] # "none"
        /\ \/ \E q \in Requests : Renewed(q)' /\ tab'[q].held = stored'
           \/ Unspent(stored)' /\ tab'[r].act = "logout" /\ tab'[r].held = stored'
    BY <1>1, <1>3, <1>4, <1>5, <2>1, <2>2 DEF Unspent, Renewed
  <2>4. ASSUME NEW q \in Requests
        PROVE  /\ tab'[q].act # "gone"
               /\ tab'[q].act \in {"refresh", "logout"} => row'[tab'[q].held] # "none"
               /\ tab'[q].act = "refresh" /\ ~Renewed(q) => Unspent(tab[q].held)'
               /\ Renewed(q) \/ tab'[q].act = "login" => row'[req'[q].answer] = "live"
    <3>1. CASE q = r
      BY <1>1, <1>3, <1>4, <1>5, <2>2, <3>1 DEF Renewed
    <3>2. CASE q # r
      BY <1>4, <1>5, <3>2 DEF BrowserInv, CurrentOK, Unspent
    <3> QED BY <3>1, <3>2
  <2> QED BY <2>1, <2>3, <2>4 DEF CurrentOK
<1>10. NoReplay'
  BY <1>1 DEF NoReplay
<1> QED BY <1>6, <1>7, <1>9, <1>10 DEF BrowserInv

\* An answer is lost.
LEMMA LostKeeps ==
    ASSUME BrowserInv, ~anyClient, NEW r \in Requests, AnswerLost(r), TabsInv'
    PROVE  BrowserInv'
<1> DEFINE s == [tab[r] EXCEPT !.act = "gone"]
<1>1. /\ tab[r].act = "refresh" /\ lock = r /\ lock' = NoRequest
      /\ losses' = losses + 1 /\ losses \in Nat
      /\ Does(r, s) /\ UNCHANGED <<vars, stored, parted>> /\ TabOK(r)
      /\ NoRequest \notin Requests
  <2>1. TabOK(r) /\ losses \in Nat
    BY Known1, SessionsAssumption DEF BrowserInv, TabsInv, SessionsTypeOK
  <2> QED BY <2>1, NoRequestAssumption DEF AnswerLost, TabOK
<1>2. s \in Tab /\ s.act = "gone" /\ s.held = tab[r].held
  <2>1. tab[r] \in Tab
    BY TabFields DEF BrowserInv
  <2> QED BY <2>1 DEF Tab
<1> HIDE DEF s
<1>4. /\ tab' \in [Requests -> Tab] /\ tab'[r] = s /\ \A q \in Requests : q # r => tab'[q] = tab[q]
      /\ \A q \in Requests : Private(q)' /\ tab'[q].held[1] <= logins' /\ req'[q].answer[1] <= logins'
      /\ stored # NoToken => Foremost(stored)'
      /\ \A q \in Requests : q # r =>
            /\ tab[q].act = "login" => Foremost(req[q].answer)'
            /\ tab[q].act = "refresh" => Foremost(tab[q].held)'
  BY <1>1, <1>2, HoldsStored
<1>5. UNCHANGED <<row, req, reused, logins, stored>>
  BY <1>1 DEF vars, tokenVars
<1>6. \A q \in Requests : TabOK(q)'
  <2> SUFFICES ASSUME NEW q \in Requests PROVE TabOK(q)'
    OBVIOUS
  <2>1. CASE q = r
    BY <1>1, <1>2, <1>4, <1>5, <2>1 DEF TabOK
  <2>2. CASE q # r
    BY <1>1, <1>4, <1>5, <2>2 DEF BrowserInv, TabOK
  <2> QED BY <2>1, <2>2
<1>7. FrontOK'
  <2>1. ASSUME NEW q \in Requests
        PROVE  /\ tab'[q].act = "login" => Foremost(req[q].answer)'
               /\ tab'[q].act = "refresh" => Foremost(tab[q].held)' /\ ~Fresher(stored, tab[q].held)'
    <3>1. CASE q # r
      BY <1>4, <1>5, <3>1 DEF BrowserInv, FrontOK
    <3>2. CASE q = r
      BY <1>2, <1>4, <3>2
    <3> QED BY <3>1, <3>2
  <2>2. stored'[1] <= logins' /\ stored' = stored
    BY <1>5 DEF BrowserInv, FrontOK
  <2> QED BY <1>4, <2>1, <2>2 DEF FrontOK
<1>8. losses' # 0
  BY <1>1
<1>9. CurrentOK' /\ NoReplay'
  BY <1>8 DEF CurrentOK, NoReplay
<1> QED BY <1>6, <1>7, <1>9 DEF BrowserInv

\* A tab has its answer: x is stored from now on, and the tab rests or tries x.
Finishes(r, s, x) ==
    /\ Finished(r) /\ Does(r, s) /\ stored' = x /\ UNCHANGED <<parted, losses, anyClient>>
    /\ s = Quiet \/ (s.act = "refresh" /\ s.held = x /\ x # NoToken)
    /\ lock' = r <=> s.act = "refresh"
    /\ \A q \in Requests \ {r} : lock' = q <=> lock = q

\* No token that a tab knows of comes before x or after it.
MayBeStored(r, x) ==
    /\ x # NoToken => Foremost(x) /\ x[1] <= logins
    /\ \A q \in Requests \ {r} :
          /\ tab[q].act = "login" => x[1] # req[q].answer[1]
          /\ tab[q].act = "refresh" => ~Fresher(x, tab[q].held)
    /\ losses = 0 /\ ~reused /\ x # NoToken =>
          /\ row[x] # "none" /\ Unspent(x)
          /\ row[x] = "live" \/ \E q \in Requests \ {r} : tab[q].act = "logout" /\ tab[q].held = x

\* A tab that has its answer stores what it may store.
LEMMA FinishKeeps ==
    ASSUME BrowserInv, ~anyClient, NEW r \in Requests, TabsInv', NEW s \in Tab, NEW x \in Kept,
           Finishes(r, s, x), MayBeStored(r, x),
           losses = 0 /\ ~parted /\ s.act = "refresh" => row[x] = "live"
    PROVE  BrowserInv'
<1> USE DEF Finishes, MayBeStored
<1>1. tab' \in [Requests -> Tab] /\ tab'[r] = s /\ \A q \in Requests : q # r => tab'[q] = tab[q]
  BY TabGoes DEF BrowserInv
<1>2. /\ req' \in [Requests -> Request] /\ req'[r] = Resting /\ \A q \in Requests : q # r => req'[q] = req[q]
      /\ UNCHANGED <<row, logins, reused>>
  BY RestingType, MovesTo DEF Finished, tokenVars, BrowserInv
<1>3. Resting.ph = "idle" /\ Resting.why = "none" /\ Resting.answer = NoToken
  BY DEF Resting
<1>4. s.act \in {"quiet", "refresh"} /\ s.held \in {NoToken, x} /\ (s.act = "refresh" => s.held = x /\ x \in Tokens)
  BY TabShapes DEF Kept
<1>5. /\ \A q \in Requests : tab[q].held[1] <= logins /\ req[q].answer[1] <= logins
      /\ logins \in Nat /\ NoToken[1] = 0
  BY Known1 DEF NoToken
<1> HIDE DEF Resting
<1>6. \A q \in Requests : TabOK(q)'
  <2> SUFFICES ASSUME NEW q \in Requests PROVE TabOK(q)'
    OBVIOUS
  <2>1. CASE q = r
    BY <1>1, <1>2, <1>3, <1>4, <2>1 DEF TabOK
  <2>2. CASE q # r
    BY <1>1, <1>2, <2>2 DEF BrowserInv, TabOK
  <2> QED BY <2>1, <2>2
<1>7. ASSUME NEW q \in Requests, tab'[q].act = "login" PROVE Private(q)'
  <2>1. q # r /\ tab[q].act = "login" /\ Private(q) /\ req[q].answer[1] >= 1 /\ x[1] # req[q].answer[1]
    BY <1>1, <1>4, <1>7, Known1
  <2>2. \A p \in Requests : tab'[p].held[1] # req[q].answer[1]
    BY <1>1, <1>4, <1>5, <2>1 DEF Private
  <2>3. \A p \in Requests \ {q} : req'[p].answer[1] # req[q].answer[1]
    BY <1>2, <1>3, <1>5, <2>1 DEF Private
  <2> QED BY <1>2, <2>1, <2>2, <2>3 DEF Private
<1>8. ASSUME NEW y \in Kept, Foremost(y), ~Fresher(x, y) PROVE Foremost(y)'
  <2>1. ~Fresher(NoToken, y)
    BY <1>5, KeptShape, FresherMeans DEF Fresher
  <2>2. \A q \in Requests : ~Fresher(tab'[q].held, y)
    BY <1>1, <1>4, <1>8, <2>1 DEF Foremost
  <2> QED BY <1>2, <1>8, <2>2 DEF Foremost
<1>9. FrontOK'
  <2>1. x # NoToken => Foremost(x)'
    BY <1>8, FresherMeans
  <2>2. ASSUME NEW q \in Requests
        PROVE  /\ tab'[q].act = "login" => Foremost(req[q].answer)' /\ q # r
               /\ tab'[q].act = "refresh" => Foremost(tab[q].held)' /\ ~Fresher(stored', tab'[q].held)
    <3>1. CASE q # r
      <4>1. tab'[q] = tab[q] /\ req'[q] = req[q] /\ tab[q].held \in Kept /\ req[q].answer \in Kept
        BY <1>1, <1>2, <3>1, TabFields DEF BrowserInv
      <4>2. tab[q].act = "login" => Foremost(req[q].answer) /\ ~Fresher(x, req[q].answer)
        BY <3>1 DEF BrowserInv, FrontOK, Fresher
      <4>3. tab[q].act = "refresh" => Foremost(tab[q].held) /\ ~Fresher(x, tab[q].held)
        BY <3>1 DEF BrowserInv, FrontOK
      <4> QED BY <1>8, <3>1, <4>1, <4>2, <4>3 DEF Foremost
    <3>2. CASE q = r
      <4>1. tab'[q].act = "refresh" => tab'[q].held = x /\ x # NoToken /\ ~Fresher(x, x)
        BY <1>1, <1>4, <3>2, FresherMeans, KeptShape
      <4> QED BY <1>1, <1>4, <2>1, <3>2, <4>1 DEF Foremost
    <3> QED BY <3>1, <3>2
  <2>3. \A q \in Requests : tab'[q].held[1] <= logins' /\ req'[q].answer[1] <= logins'
    BY <1>1, <1>2, <1>3, <1>4, <1>5, KeptShape
  <2>4. stored'[1] <= logins'
    BY <1>2, <1>5
  <2>5. \A q \in Requests : Private(q)'
    BY <1>7 DEF Private
  <2> QED BY <2>1, <2>2, <2>3, <2>4, <2>5 DEF FrontOK, Foremost
<1>10. CurrentOK'
  <2> SUFFICES ASSUME losses = 0, ~reused PROVE CurrentOK'
    BY <1>2 DEF CurrentOK
  <2>1. ~Renewed(r)' /\ \A q \in Requests \ {r} : Renewed(q)' <=> Renewed(q)
    BY <1>1, <1>2, <1>3 DEF Renewed
  <2>2. ASSUME x # NoToken
        PROVE  /\ row'[x] # "none"
               /\ \/ \E q \in Requests : Renewed(q)' /\ tab'[q].held = x
                  \/ Unspent(x)' /\ (row'[x] = "live" \/ \E q \in Requests : tab'[q].act = "logout" /\ tab'[q].held = x)
    BY <1>1, <1>2, <2>1, <2>2 DEF Unspent
  <2>3. ASSUME NEW q \in Requests
        PROVE  /\ tab'[q].act # "gone"
               /\ tab'[q].act \in {"refresh", "logout"} => row'[tab'[q].held] # "none"
               /\ tab'[q].act = "refresh" /\ ~Renewed(q)' => Unspent(tab[q].held)'
               /\ Renewed(q)' \/ tab'[q].act = "login" => row'[req'[q].answer] = "live"
    <3>1. CASE q = r
      <4>1. s.act = "refresh" => row[x] # "none" /\ Unspent(x) /\ s.held = x
        BY <1>4, KeptShape
      <4>2. tab'[r] = s /\ row' = row /\ s.act \in {"quiet", "refresh"} /\ ~Renewed(r)'
        BY <1>1, <1>2, <1>4, <2>1
      <4>3. s.act = "refresh" => Unspent(tab[r].held)'
        BY <4>1, <4>2 DEF Unspent
      <4> QED BY <3>1, <4>1, <4>2, <4>3
    <3>2. CASE q # r
      BY <1>1, <1>2, <2>1, <3>2 DEF BrowserInv, CurrentOK, Unspent
    <3> QED BY <3>1, <3>2
  <2> QED BY <2>2, <2>3 DEF CurrentOK, Unspent
<1>11. NoReplay'
  <2> SUFFICES ASSUME losses = 0, ~parted PROVE NoReplay'
    BY DEF NoReplay
  <2>1. /\ ~reused
        /\ \A q \in Requests :
              /\ req[q].ph \notin {"grace", "revoking", "deleting"}
              /\ tab[q].act = "refresh" /\ req[q].ph \in {"idle", "rotated", "late"} => row[tab[q].held] = "live"
    BY DEF BrowserInv, NoReplay
  <2>2. ASSUME NEW q \in Requests
        PROVE  /\ req'[q].ph \notin {"grace", "revoking", "deleting"}
               /\ tab'[q].act = "refresh" /\ req'[q].ph \in {"idle", "rotated", "late"} => row'[tab'[q].held] = "live"
    BY <1>1, <1>2, <1>3, <1>4, <2>1
  <2> QED BY <1>2, <2>1, <2>2 DEF NoReplay
<1> QED BY <1>6, <1>9, <1>10, <1>11 DEF BrowserInv

\* ... and rests, with the lock given back.
LEMMA RestKeeps ==
    ASSUME BrowserInv, ~anyClient, NEW r \in Requests, TabsInv', NEW x \in Kept,
           Finished(r), Does(r, Quiet), stored' = x, UNCHANGED <<parted, losses, anyClient>>,
           lock' = IF lock = r THEN NoRequest ELSE lock, MayBeStored(r, x)
    PROVE  BrowserInv'
<1>1. Quiet \in Tab /\ ~(Quiet.act = "refresh")
  BY TabShapes
<1>2. Finishes(r, Quiet, x)
  <2>1. lock' = r <=> Quiet.act = "refresh"
    BY <1>1, NoRequestAssumption
  <2>2. \A q \in Requests \ {r} : lock' = q <=> lock = q
    BY NoRequestAssumption
  <2> QED BY <2>1, <2>2 DEF Finishes
<1> QED BY <1>1, <1>2, FinishKeeps

\* The tab of the lock, and of the others none refreshes.
LEMMA AloneUnderLock ==
    ASSUME BrowserInv, ~anyClient, NEW r \in Requests, tab[r].act = "refresh"
    PROVE  /\ lock = r /\ lock # NoRequest
           /\ \A q \in Requests \ {r} : tab[q].act # "refresh" /\ lock # q
BY NoRequestAssumption DEF BrowserInv, TabOK

\* A login is stored.
LEMMA LoggedInKeeps ==
    ASSUME BrowserInv, ~anyClient, NEW r \in Requests, LoggedIn(r), TabsInv', UNCHANGED anyClient
    PROVE  BrowserInv'
<1> DEFINE x == req[r].answer
<1>1. /\ tab[r].act = "login" /\ Finished(r) /\ stored' = x /\ Does(r, Quiet)
      /\ UNCHANGED <<lock, losses, parted>>
  BY DEF LoggedIn
<1>2. x \in Kept /\ x \in Tokens /\ Private(r) /\ x[1] <= logins /\ lock # r /\ Quiet \in Tab /\ Quiet.act = "quiet"
  BY <1>1, Known1, TabShapes DEF Kept, TabOK
<1>3. Foremost(x)
  BY <1>1 DEF BrowserInv, FrontOK
<1>4. \A q \in Requests \ {r} :
         /\ tab[q].act = "login" => x[1] # req[q].answer[1]
         /\ tab[q].act = "refresh" => ~Fresher(x, tab[q].held)
  BY <1>1, <1>2, Known1 DEF Private, Fresher
<1>5. losses = 0 /\ ~reused => row[x] = "live" /\ Unspent(x)
  <2> SUFFICES ASSUME losses = 0, ~reused PROVE row[x] = "live" /\ Unspent(x)
    OBVIOUS
  <2>1. row[x] = "live"
    BY <1>1 DEF BrowserInv, CurrentOK
  <2> QED BY <1>2, <2>1 DEF Unspent, Fresher, BrowserInv, TabsInv, Inv, LastOfItsFamily
<1> HIDE DEF x
<1>6. lock' = IF lock = r THEN NoRequest ELSE lock
  BY <1>1, <1>2
<1>7. MayBeStored(r, x)
  BY <1>2, <1>3, <1>4, <1>5 DEF MayBeStored, BrowserInv, TabsInv
<1> QED BY <1>1, <1>2, <1>6, <1>7, RestKeeps

\* A refreshed token is stored.
LEMMA RefreshedKeeps ==
    ASSUME BrowserInv, ~anyClient, NEW r \in Requests, Refreshed(r), TabsInv', UNCHANGED anyClient
    PROVE  BrowserInv'
<1> DEFINE x == req[r].answer
<1>1. /\ tab[r].act = "refresh" /\ Finished(r) /\ stored' = x /\ x # NoToken /\ Does(r, Quiet)
      /\ lock' = NoRequest /\ UNCHANGED <<losses, parted>> /\ TabOK(r) /\ req[r].ph = "done"
  BY AloneUnderLock, Known1 DEF Refreshed, Settles, Finished
<1>2. /\ x \in Kept /\ x \in Tokens /\ x = Successor(tab[r].held) /\ tab[r].held \in Tokens /\ x[1] <= logins
      /\ Quiet \in Tab /\ Quiet.act = "quiet"
  BY <1>1, Known1, TabFields, TabShapes DEF Kept, TabOK, BrowserInv
<1>3. x[1] = tab[r].held[1] /\ Fresher(x, tab[r].held) /\ \A z \in Kept : Fresher(z, x) => Fresher(z, tab[r].held)
  BY <1>2, FresherMeans DEF Fresher, Kept
<1>4. Foremost(x)
  <2>1. Foremost(tab[r].held) /\ \A q \in Requests : tab[q].held \in Kept
    BY <1>1, TabFields DEF BrowserInv, FrontOK
  <2> QED BY <1>3, <2>1 DEF Foremost, Kept
<1>5. \A q \in Requests \ {r} : tab[q].act = "login" => x[1] # req[q].answer[1]
  BY <1>3, Known1 DEF Private
<1>6. losses = 0 /\ ~reused => row[x] = "live" /\ Unspent(x)
  <2> SUFFICES ASSUME losses = 0, ~reused PROVE row[x] = "live" /\ Unspent(x)
    OBVIOUS
  <2>1. row[x] = "live"
    BY <1>1 DEF BrowserInv, CurrentOK, Renewed
  <2> QED BY <1>2, <2>1 DEF Unspent, Fresher, BrowserInv, TabsInv, Inv, LastOfItsFamily
<1> HIDE DEF x
<1>7. MayBeStored(r, x)
  BY <1>1, <1>2, <1>4, <1>5, <1>6, AloneUnderLock DEF MayBeStored
<1>8. lock = r
  BY <1>1, AloneUnderLock
<1> QED BY <1>1, <1>2, <1>7, <1>8, RestKeeps

\* What is stored while a tab has been refused.
LEMMA StoredMeanwhile ==
    ASSUME BrowserInv, ~anyClient, NEW r \in Requests, tab[r].act = "refresh", ~Renewed(r), stored # NoToken
    PROVE  /\ stored \in Kept /\ stored[1] <= logins /\ Foremost(stored)
           /\ \A q \in Requests \ {r} : tab[q].act = "login" => stored[1] # req[q].answer[1]
           /\ losses = 0 /\ ~reused =>
                 /\ row[stored] # "none" /\ Unspent(stored)
                 /\ row[stored] = "live" \/ \E q \in Requests \ {r} : tab[q].act = "logout" /\ tab[q].held = stored
           /\ losses = 0 /\ ~parted => row[stored] = "live"
<1>1. stored \in Kept /\ stored[1] <= logins /\ Foremost(stored)
  BY TabFields DEF BrowserInv, FrontOK
<1>2. \A q \in Requests \ {r} : tab[q].act = "login" => stored[1] # req[q].answer[1]
  BY Known1 DEF Private
<1>3. \A q \in Requests : ~Renewed(q)
  BY AloneUnderLock DEF Renewed
<1>4. losses = 0 /\ ~reused =>
                 /\ row[stored] # "none" /\ Unspent(stored)
                 /\ row[stored] = "live" \/ \E q \in Requests \ {r} : tab[q].act = "logout" /\ tab[q].held = stored
  BY <1>3 DEF BrowserInv, CurrentOK
<1>5. losses = 0 /\ ~parted => row[stored] = "live"
  BY <1>4, Known1 DEF BrowserInv, NoReplay, TabOK
<1> QED BY <1>1, <1>2, <1>4, <1>5

\* A tab that is refused tries once more with a token another tab has stored, or gives up.
LEMMA RefusedKeeps ==
    ASSUME BrowserInv, ~anyClient, NEW r \in Requests, Refused(r), TabsInv', UNCHANGED anyClient
    PROVE  BrowserInv'
<1>1. /\ tab[r].act = "refresh" /\ Finished(r) /\ UNCHANGED <<losses, parted>> /\ ~Renewed(r)
      /\ lock = r /\ lock' \in Requests \cup {NoRequest}
      /\ \A q \in Requests \ {r} : tab[q].act # "refresh" /\ lock # q
  BY AloneUnderLock DEF Refused, Renewed, TabsInv, SessionsTypeOK
<1>2. CASE Settles(r) /\ stored' \in {NoToken, stored}
  <2> DEFINE x == stored'
  <2>1. lock' = NoRequest /\ Does(r, Quiet) /\ Quiet \in Tab /\ Quiet.act = "quiet" /\ NoRequest \notin Requests
    BY <1>1, <1>2, TabShapes, NoRequestAssumption DEF Settles
  <2>2. x \in Kept /\ (x # NoToken => x = stored)
    BY <1>2, TabFields DEF Kept, BrowserInv
  <2>3. NoToken[1] = 0 /\ \A q \in Requests \ {r} : tab[q].act = "login" => req[q].answer[1] >= 1
    BY Known1 DEF NoToken
  <2>4. \A q \in Requests \ {r} : tab[q].act = "login" => x[1] # req[q].answer[1]
    BY <1>1, <2>2, <2>3, StoredMeanwhile
  <2>5. x # NoToken => /\ Foremost(x) /\ x[1] <= logins
                       /\ losses = 0 /\ ~reused =>
                             /\ row[x] # "none" /\ Unspent(x)
                             /\ row[x] = "live" \/ \E q \in Requests \ {r} : tab[q].act = "logout" /\ tab[q].held = x
    BY <1>1, <2>2, StoredMeanwhile
  <2> HIDE DEF x
  <2>6. stored' = x
    BY DEF x
  <2>7. MayBeStored(r, x)
    BY <1>1, <2>4, <2>5 DEF MayBeStored
  <2> QED BY <1>1, <2>1, <2>2, <2>6, <2>7, RestKeeps
<1>3. CASE /\ stored # NoToken /\ Does(r, [act |-> "refresh", held |-> stored, retried |-> TRUE])
           /\ UNCHANGED <<stored, lock>>
  <2> DEFINE s == [act |-> "refresh", held |-> stored, retried |-> TRUE]
  <2>1. s \in Tab /\ s.act = "refresh" /\ s.held = stored
    BY TabFields, TabShapes DEF BrowserInv
  <2> HIDE DEF s
  <2>2. Does(r, s)
    BY <1>3 DEF s
  <2>3. /\ stored \in Kept /\ stored[1] <= logins /\ Foremost(stored)
        /\ \A q \in Requests \ {r} : tab[q].act = "login" => stored[1] # req[q].answer[1]
        /\ losses = 0 /\ ~reused =>
              /\ row[stored] # "none" /\ Unspent(stored)
              /\ row[stored] = "live" \/ \E q \in Requests \ {r} : tab[q].act = "logout" /\ tab[q].held = stored
        /\ losses = 0 /\ ~parted => row[stored] = "live"
    BY <1>1, <1>3, StoredMeanwhile
  <2>4. stored' = stored /\ lock' = lock /\ stored # NoToken
    BY <1>3
  <2>5. MayBeStored(r, stored) /\ Finishes(r, s, stored)
    BY <1>1, <2>1, <2>2, <2>3, <2>4 DEF MayBeStored, Finishes
  <2> QED BY <2>1, <2>3, <2>5, FinishKeeps
<1> QED BY <1>2, <1>3 DEF Refused

\* A tab whose answer was lost, or that has logged out, is done.
LEMMA UnreadKeeps ==
    ASSUME BrowserInv, ~anyClient, NEW r \in Requests, Unread(r) \/ LoggedOut(r), TabsInv', UNCHANGED anyClient
    PROVE  BrowserInv'
<1>1. /\ tab[r].act \in {"gone", "logout"} /\ Finished(r) /\ UNCHANGED <<lock, losses, parted>> /\ ~Renewed(r)
      /\ Does(r, Quiet) /\ TabOK(r) /\ lock \in Requests \cup {NoRequest}
      /\ stored' = NoToken \/ (tab[r].act = "gone" /\ stored' = stored)
  <2>1. TabOK(r) /\ lock \in Requests \cup {NoRequest}
    BY Known1 DEF BrowserInv, TabsInv, SessionsTypeOK
  <2>2. CASE Unread(r)
    BY <2>1, <2>2 DEF Unread, Renewed
  <2>3. CASE LoggedOut(r)
    BY <2>1, <2>3 DEF LoggedOut, Renewed
  <2> QED BY <2>2, <2>3
<1>2. lock # r /\ Quiet \in Tab /\ Quiet.act = "quiet"
  BY <1>1, TabShapes DEF TabOK
<1> DEFINE x == stored'
<1>3. x \in Kept /\ (x # NoToken => x = stored /\ tab[r].act = "gone")
  BY <1>1, TabFields DEF Kept, BrowserInv
<1>4. NoToken[1] = 0 /\ \A q \in Requests \ {r} : tab[q].act = "login" => req[q].answer[1] >= 1 /\ Private(q)
  BY Known1 DEF NoToken
<1>5. \A q \in Requests \ {r} : tab[q].act = "login" => x[1] # req[q].answer[1]
  BY <1>3, <1>4 DEF Private
<1>6. \A q \in Requests \ {r} : tab[q].act = "refresh" => ~Fresher(x, tab[q].held)
  <2> SUFFICES ASSUME NEW q \in Requests \ {r}, tab[q].act = "refresh" PROVE ~Fresher(x, tab[q].held)
    OBVIOUS
  <2>1. tab[q].held[1] >= 1 /\ ~Fresher(stored, tab[q].held)
    BY TokenShape DEF BrowserInv, TabsInv, FrontOK
  <2> QED BY <1>3, <1>4, <2>1 DEF Fresher
<1>7. x # NoToken => Foremost(x) /\ x[1] <= logins
  BY <1>3 DEF BrowserInv, FrontOK
<1>8. x # NoToken => ~(losses = 0 /\ ~reused)
  BY <1>3 DEF BrowserInv, CurrentOK
<1> HIDE DEF x
<1>9. stored' = x
  BY DEF x
<1>10. MayBeStored(r, x)
  BY <1>5, <1>6, <1>7, <1>8 DEF MayBeStored
<1> QED BY <1>1, <1>2, <1>3, <1>9, <1>10, RestKeeps

\* A login starts a family that nobody knows.
LEMMA LogInKeeps ==
    ASSUME BrowserInv, ~anyClient, NEW r \in Requests, LogIn(r), TabsInv'
    PROVE  BrowserInv'
<1> DEFINE s == [Quiet EXCEPT !.act = "login"]
<1>0. PICK t : t = <<logins + 1, 0>>
  OBVIOUS
<1>1. /\ tab[r].act = "quiet" /\ Does(r, s)
      /\ logins' = logins + 1 /\ logins' <= MaxLogins /\ Answers(r, t) /\ row' = [row EXCEPT ![t] = "live"]
      /\ UNCHANGED <<reused, stored, lock, losses, parted>> /\ TabOK(r)
  <2>1. TabOK(r) /\ logins \in 0..MaxLogins /\ MaxLogins \in Nat
    BY Known1, ChainAssumption DEF BrowserInv, TabsInv, SessionsTypeOK, TypeOK
  <2> QED BY <1>0, <2>1 DEF LogIn, Login
<1>2. /\ t \in Tokens /\ t \in Kept /\ t # NoToken /\ t[1] = logins + 1 /\ t[2] = 0 /\ logins \in Nat
  BY <1>0, <1>1, ChainAssumption DEF BrowserInv, TabsInv, SessionsTypeOK, TypeOK, Tokens, Families, Kept, NoToken
<1>3. s \in Tab /\ s.act = "login" /\ s.held = NoToken
  BY TabShapes DEF Quiet
<1> HIDE DEF s
<1>4. /\ tab' \in [Requests -> Tab] /\ tab'[r] = s /\ \A q \in Requests : q # r => tab'[q] = tab[q]
  BY <1>1, <1>3, TabGoes DEF BrowserInv
<1>5. /\ req' \in [Requests -> Request] /\ req'[r].ph = "done" /\ req'[r].why = "none" /\ req'[r].answer = t
      /\ \A q \in Requests : q # r => req'[q] = req[q]
  <2>1. PICK a \in Request : Goes(r, a) /\ a.ph = "done" /\ a.why = "none" /\ a.answer = t
    BY <1>1, <1>2, AnswerShape DEF Answers
  <2> QED BY <2>1, MovesTo DEF BrowserInv
<1>6. row'[t] = "live" /\ \A u \in Tokens : u # t => row'[u] = row[u]
  BY <1>1, <1>2 DEF BrowserInv, TabsInv, SessionsTypeOK, TypeOK
<1>7. /\ \A q \in Requests : tab[q].held[1] <= logins /\ req[q].answer[1] <= logins
      /\ NoToken[1] = 0
      /\ \A q \in Requests : tab[q].held \in Kept /\ req[q].answer \in Kept
      /\ stored \in Kept /\ stored[1] <= logins /\ stored' = stored
  <2>1. stored \in Kept /\ stored[1] <= logins
    BY DEF BrowserInv, TabsInv, SessionsTypeOK, FrontOK, Kept
  <2> QED BY <1>1, <2>1, Known1, TabFields DEF NoToken, BrowserInv
<1>8. \A q \in Requests : TabOK(q)'
  <2> SUFFICES ASSUME NEW q \in Requests PROVE TabOK(q)'
    OBVIOUS
  <2>1. CASE q = r
    BY <1>1, <1>2, <1>3, <1>4, <1>5, <2>1 DEF TabOK
  <2>2. CASE q # r
    BY <1>1, <1>4, <1>5, <2>2 DEF BrowserInv, TabOK
  <2> QED BY <2>1, <2>2
<1>9. ASSUME NEW q \in Requests, tab'[q].act = "login" PROVE Private(q)'
  <2>1. CASE q = r
    <3>1. \A p \in Requests : tab'[p].held[1] # t[1]
      BY <1>2, <1>3, <1>4, <1>7, KeptShape
    <3>2. \A p \in Requests \ {r} : req'[p].answer[1] # t[1]
      BY <1>2, <1>5, <1>7, KeptShape
    <3>3. stored'[1] # t[1]
      BY <1>2, <1>7, KeptShape
    <3> QED BY <1>5, <2>1, <3>1, <3>2, <3>3 DEF Private
  <2>2. CASE q # r
    <3>1. tab[q].act = "login" /\ req'[q].answer = req[q].answer /\ Private(q) /\ req[q].answer[1] >= 1
      BY <1>4, <1>5, <1>9, <2>2, Known1
    <3>2. \A p \in Requests : tab'[p].held[1] # req[q].answer[1]
      BY <1>3, <1>4, <1>7, <3>1 DEF Private
    <3>3. \A p \in Requests \ {q} : req'[p].answer[1] # req[q].answer[1]
      <4>1. \A p \in Requests \ {q} : p # r => req'[p].answer[1] # req[q].answer[1]
        BY <1>5, <3>1 DEF Private
      <4>2. t[1] # req[q].answer[1]
        BY <1>2, <1>7, KeptShape
      <4> QED BY <1>5, <4>1, <4>2
    <3> QED BY <1>7, <3>1, <3>2, <3>3 DEF Private
  <2> QED BY <2>1, <2>2
<1>10. ASSUME NEW y \in Kept, y[1] <= logins, Foremost(y) PROVE Foremost(y)'
  <2>1. ~Fresher(NoToken, y)
    BY <1>7, KeptShape, FresherMeans DEF Fresher
  <2>2. \A q \in Requests : ~Fresher(tab'[q].held, y)
    BY <1>3, <1>4, <1>10, <2>1 DEF Foremost
  <2>3. \A u \in Tokens : row'[u] = "revoked" => row[u] = "revoked"
    BY <1>6
  <2> QED BY <1>1, <1>10, <2>2, <2>3 DEF Foremost
<1>11. Foremost(t)'
  <2>1. \A q \in Requests : ~Fresher(tab'[q].held, t)
    BY <1>2, <1>3, <1>4, <1>7, KeptShape DEF Fresher
  <2>2. ASSUME NEW u \in Tokens, Fresher(u, t) PROVE row'[u] # "revoked"
    <3>1. row[u] = "none" /\ u # t
      BY <1>2, <2>2, FresherMeans DEF Fresher, BrowserInv, TabsInv, Inv, LastOfItsFamily
    <3> QED BY <1>6, <3>1
  <2> QED BY <2>1, <2>2 DEF Foremost
<1>12. FrontOK'
  <2>1. ASSUME NEW q \in Requests
        PROVE  /\ tab'[q].act = "login" => Foremost(req[q].answer)'
               /\ tab'[q].act = "refresh" => Foremost(tab[q].held)' /\ ~Fresher(stored', tab'[q].held)
    <3>1. CASE q = r
      BY <1>3, <1>4, <1>5, <1>11, <3>1 DEF Foremost
    <3>2. CASE q # r
      <4>1. tab'[q] = tab[q] /\ req'[q] = req[q] /\ stored' = stored
        BY <1>1, <1>4, <1>5, <3>2
      <4>2. tab[q].act = "login" => Foremost(req[q].answer)
        BY DEF BrowserInv, FrontOK
      <4>3. tab[q].act = "refresh" => Foremost(tab[q].held) /\ ~Fresher(stored, tab[q].held)
        BY DEF BrowserInv, FrontOK
      <4> QED BY <1>7, <1>10, <4>1, <4>2, <4>3 DEF Foremost
    <3> QED BY <3>1, <3>2
  <2>2. \A q \in Requests : tab'[q].held[1] <= logins' /\ req'[q].answer[1] <= logins'
    BY <1>1, <1>2, <1>3, <1>4, <1>5, <1>7, KeptShape
  <2>3. stored'[1] <= logins'
    BY <1>1, <1>2, <1>7, KeptShape
  <2>5. stored' # NoToken => Foremost(stored)'
    <3>1. stored # NoToken => Foremost(stored)
      BY DEF BrowserInv, FrontOK
    <3> QED BY <1>7, <1>10, <3>1 DEF Foremost
  <2>4. \A q \in Requests : Private(q)'
    BY <1>9 DEF Private
  <2> QED BY <2>1, <2>2, <2>3, <2>4, <2>5 DEF FrontOK
<1>13. CurrentOK'
  <2> SUFFICES ASSUME losses = 0, ~reused PROVE CurrentOK'
    BY <1>1 DEF CurrentOK
  <2>1. ~Renewed(r)' /\ \A q \in Requests \ {r} : Renewed(q)' <=> Renewed(q)
    BY <1>3, <1>4, <1>5 DEF Renewed
  <2>3. ASSUME NEW q \in Requests
        PROVE  /\ tab'[q].act # "gone"
               /\ tab'[q].act \in {"refresh", "logout"} => row'[tab'[q].held] # "none"
               /\ tab'[q].act = "refresh" /\ ~Renewed(q)' => Unspent(tab[q].held)'
               /\ Renewed(q)' \/ tab'[q].act = "login" => row'[req'[q].answer] = "live"
    <3>1. CASE q = r
      BY <1>3, <1>4, <1>5, <1>6, <2>1, <3>1
    <3>2. CASE q # r
      <4>1. tab'[q] = tab[q] /\ req'[q] = req[q] /\ (Renewed(q)' <=> Renewed(q))
        BY <1>4, <1>5, <2>1, <3>2
      <4>2. /\ tab[q].act # "gone"
            /\ tab[q].act \in {"refresh", "logout"} => row[tab[q].held] # "none" /\ tab[q].held \in Tokens
            /\ tab[q].act = "refresh" /\ ~Renewed(q) => Unspent(tab[q].held)
            /\ Renewed(q) \/ tab[q].act = "login" => row[req[q].answer] = "live" /\ req[q].answer \in Tokens
        BY <1>7, Known1 DEF BrowserInv, CurrentOK, TabsInv, Renewed, Kept
      <4>3. Unspent(tab[q].held) => Unspent(tab[q].held)'
        <5> SUFFICES ASSUME Unspent(tab[q].held), NEW u \in Tokens, Fresher(u, tab[q].held) PROVE row'[u] = "none"
          BY <4>1 DEF Unspent
        <5>1. u # t
          BY <1>2, <1>7, KeptShape DEF Fresher
        <5> QED BY <1>6, <5>1 DEF Unspent
      <4>4. tab[q].act = "refresh" /\ ~Renewed(q)' => Unspent(tab[q].held)'
        BY <4>1, <4>2, <4>3
      <4>5. tab[q].act \in {"refresh", "logout"} => row'[tab[q].held] # "none"
        BY <1>6, <4>2
      <4>6. Renewed(q) \/ tab[q].act = "login" => row'[req[q].answer] = "live"
        BY <1>6, <4>2
      <4> QED BY <4>1, <4>2, <4>4, <4>5, <4>6
    <3> QED BY <3>1, <3>2
  <2>4. ASSUME stored # NoToken
        PROVE  /\ row'[stored] # "none"
               /\ \/ \E q \in Requests : Renewed(q)' /\ tab'[q].held = stored
                  \/ /\ Unspent(stored)'
                     /\ row'[stored] = "live" \/ \E q \in Requests : tab'[q].act = "logout" /\ tab'[q].held = stored
    <3>1. /\ stored \in Tokens /\ row[stored] # "none"
          /\ \/ \E q \in Requests : Renewed(q) /\ tab[q].held = stored
             \/ Unspent(stored) /\ (row[stored] = "live" \/ \E q \in Requests : tab[q].act = "logout" /\ tab[q].held = stored)
      BY <2>4 DEF BrowserInv, TabsInv, SessionsTypeOK, CurrentOK
    <3>2. row'[stored] = "live" <=> row[stored] = "live" \/ stored = t
      BY <1>6, <3>1
    <3>3. row'[stored] # "none"
      BY <1>6, <3>1
    <3>4. Unspent(stored) => Unspent(stored)'
      <4> SUFFICES ASSUME Unspent(stored), NEW u \in Tokens, Fresher(u, stored) PROVE row'[u] = "none"
        BY <1>7 DEF Unspent
      <4>1. u # t
        BY <1>2, <1>7, KeptShape DEF Fresher
      <4> QED BY <1>6, <4>1 DEF Unspent
    <3>5. CASE \E q \in Requests : Renewed(q) /\ tab[q].held = stored
      <4>1. PICK q \in Requests : Renewed(q) /\ tab[q].held = stored
        BY <3>5
      <4>2. q # r
        BY <1>1, <4>1 DEF Renewed
      <4> QED BY <1>4, <2>1, <3>3, <4>1, <4>2
    <3>6. CASE \E q \in Requests : tab[q].act = "logout" /\ tab[q].held = stored
      <4>1. PICK q \in Requests : tab[q].act = "logout" /\ tab[q].held = stored
        BY <3>6
      <4>2. tab'[q] = tab[q]
        BY <1>1, <1>4, <4>1
      <4> QED BY <3>1, <3>3, <3>4, <3>5, <4>1, <4>2
    <3> QED BY <3>1, <3>2, <3>3, <3>4, <3>5, <3>6
  <2> QED BY <1>7, <2>3, <2>4 DEF CurrentOK
<1>14. NoReplay'
  <2> SUFFICES ASSUME losses = 0, ~parted PROVE NoReplay'
    BY <1>1 DEF NoReplay
  <2>1. /\ ~reused
        /\ \A q \in Requests :
              /\ req[q].ph \notin {"grace", "revoking", "deleting"}
              /\ tab[q].act = "refresh" /\ req[q].ph \in {"idle", "rotated", "late"} => row[tab[q].held] = "live"
              /\ tab[q].act = "refresh" => tab[q].held \in Tokens
    BY DEF BrowserInv, NoReplay, TabsInv
  <2>2. ASSUME NEW q \in Requests
        PROVE  /\ req'[q].ph \notin {"grace", "revoking", "deleting"}
               /\ tab'[q].act = "refresh" /\ req'[q].ph \in {"idle", "rotated", "late"} => row'[tab'[q].held] = "live"
    BY <1>3, <1>4, <1>5, <1>6, <2>1
  <2> QED BY <1>1, <2>1, <2>2 DEF NoReplay
<1> QED BY <1>8, <1>12, <1>13, <1>14 DEF BrowserInv

\* Time passes.
LEMMA TimeKeeps ==
    ASSUME BrowserInv, UNCHANGED <<row, logins, req, reused, tabVars>>, TabsInv'
    PROVE  BrowserInv'
<1>1. \A q \in Requests : (TabOK(q) => TabOK(q)') /\ (Private(q) => Private(q)') /\ (Renewed(q)' <=> Renewed(q))
  BY DEF TabOK, Private, Renewed, tabVars
<1>2. FrontOK => FrontOK'
  BY <1>1 DEF FrontOK, Foremost, tabVars
<1>3. CurrentOK => CurrentOK'
  BY <1>1 DEF CurrentOK, Unspent, tabVars
<1>4. NoReplay => NoReplay'
  BY DEF NoReplay, tabVars
<1> QED BY <1>1, <1>2, <1>3, <1>4 DEF BrowserInv, tabVars

\* The invariant under the lock holds at the start.
LEMMA BrowserStart == SessionsInit => BrowserInv
<1> SUFFICES ASSUME SessionsInit PROVE BrowserInv
  OBVIOUS
<1>1. TabsInv
  BY TabsStart
<1>2. /\ \A r \in Requests : /\ req[r].ph = "idle" /\ req[r].why = "none" /\ req[r].answer = NoToken
                             /\ tab[r].act = "quiet" /\ tab[r].held = NoToken
      /\ stored = NoToken /\ lock = NoRequest /\ NoRequest \notin Requests /\ ~reused /\ logins = 0
  BY NoRequestAssumption DEF SessionsInit, Init, Resting, Quiet
<1>3. NoToken[1] <= 0
  BY DEF NoToken
<1>4. \A r \in Requests : TabOK(r) /\ Private(r) /\ ~Renewed(r)
  BY <1>2 DEF TabOK, Private, Renewed
<1>5. FrontOK
  BY <1>2, <1>3, <1>4 DEF FrontOK
<1>6. CurrentOK /\ NoReplay
  BY <1>2, <1>4 DEF CurrentOK, NoReplay
<1> QED BY <1>1, <1>4, <1>5, <1>6 DEF BrowserInv

\* Every step keeps it.
LEMMA BrowserStep ==
    ASSUME Locks, BrowserInv, [SessionsNext]_<<vars, tabVars>>, TabsInv'
    PROVE  BrowserInv'
<1>1. CASE UNCHANGED <<vars, tabVars>>
  BY <1>1, TimeKeeps DEF vars, tokenVars
<1>2. ASSUME ~anyClient, UNCHANGED anyClient, NEW r \in Requests, Tabs(r) PROVE BrowserInv'
  BY <1>2, LogInKeeps, LoggedInKeeps, RefreshKeeps, PresentKeeps, RefreshedKeeps, RefusedKeeps,
     LostKeeps, UnreadKeeps, LogOutKeeps, SendLogoutKeeps DEF Tabs
<1>3. ASSUME ~anyClient, NEW r \in Requests, Server(r), UNCHANGED tabVars PROVE BrowserInv'
  BY <1>3, RotationKeeps, ReadsKeep, RevokeKeeps, LogoutKeeps DEF Server
<1>4. CASE ~anyClient /\ Time /\ UNCHANGED tabVars
  BY <1>4, TimeKeeps DEF Time, GraceEnds, Lapse
<1>5. CASE anyClient /\ Next /\ UNCHANGED tabVars
  BY <1>5 DEF BrowserInv, tabVars
<1> QED BY <1>1, <1>2, <1>3, <1>4, <1>5 DEF SessionsNext

\* The invariant of Sessions under the lock.
LEMMA BrowserInvariant ==
    ASSUME Locks
    PROVE  SessionsSpec => []BrowserInv
<1>1. BrowserInv /\ [SessionsNext]_<<vars, tabVars>> /\ TabsInv' => BrowserInv'
  BY BrowserStep
<1> QED BY <1>1, BrowserStart, TabsInvariant, PTL DEF SessionsSpec

\* refreshOnce under navigator.locks: however many tabs, logins and rotations,
\* reuse detection is not set off by the browser itself, unless an answer was
\* lost or a token logged out.
THEOREM TabsAreNotAReplay == Locks => (SessionsSpec => []ReuseNeedsALostAnswer)
<1> SUFFICES ASSUME Locks PROVE SessionsSpec => []ReuseNeedsALostAnswer
  OBVIOUS
<1>1. BrowserInv => ReuseNeedsALostAnswer
  <2> SUFFICES ASSUME BrowserInv, reused, ~anyClient, ~(losses > 0), ~parted PROVE FALSE
    BY DEF ReuseNeedsALostAnswer
  <2>1. losses \in Nat
    BY SessionsAssumption DEF BrowserInv, TabsInv, SessionsTypeOK
  <2>2. losses = 0
    BY <2>1
  <2> QED BY <2>2 DEF BrowserInv, NoReplay
<1> QED BY <1>1, BrowserInvariant, PTL

\* What setTokens has stored is what the server will accept: while no tab has a
\* request under way the token in localStorage is live, if no answer was lost and
\* no replay was detected.
THEOREM StoredTokenIsTheLast == Locks => (SessionsSpec => []StoredTokenIsCurrent)
<1> SUFFICES ASSUME Locks PROVE SessionsSpec => []StoredTokenIsCurrent
  OBVIOUS
<1>1. BrowserInv => StoredTokenIsCurrent
  <2> SUFFICES ASSUME BrowserInv, stored # NoToken, losses = 0, ~reused, \A r \in Requests : tab[r].act = "quiet"
               PROVE  row[stored] = "live"
    BY DEF StoredTokenIsCurrent
  <2>1. ~anyClient
    BY DEF BrowserInv, TabsInv
  <2> QED BY <2>1 DEF BrowserInv, CurrentOK, Renewed
<1> QED BY <1>1, BrowserInvariant, PTL

\* Who leaves the grace branch, and why.
LEMMA GraceLeaves ==
    ASSUME TabsInv, NEW r \in Requests, [SessionsNext]_<<vars, tabVars>>, ~anyClient,
           req[r].ph = "grace", req'[r].ph = "revoking"
    PROVE  ~Usable(Successor(req[r].tok))
<1>1. req'[r] # req[r]
  OBVIOUS
<1>2. CASE UNCHANGED <<vars, tabVars>> \/ Time
  BY <1>1, <1>2 DEF vars, Time, GraceEnds, Lapse
<1>3. ASSUME NEW q \in Requests, NEW s, Goes(q, s), s.ph # "revoking" \/ req[q].ph # "grace" PROVE FALSE
  BY <1>1, <1>3 DEF Goes, TabsInv, Inv, TypeOK
<1>4. ASSUME NEW q \in Requests, Tabs(q) PROVE FALSE
  <2>1. CASE UNCHANGED vars
    BY <1>1, <2>1 DEF vars
  <2>2. CASE req[q].ph = "idle" /\ \E s : Goes(q, s)
    BY <1>3, <2>2
  <2>3. CASE Finished(q)
    BY <1>3, <2>3 DEF Finished
  <2> QED BY <1>4, <2>1, <2>2, <2>3
      DEF Tabs, LogIn, Login, Answers, LoggedIn, Refresh, Present, Consume, Refreshed, Refused, AnswerLost, Unread,
          LogOut, SendLogout, BeginLogout, Refuses, LoggedOut
<1>5. ASSUME NEW q \in Requests, Server(q) PROVE ~Usable(Successor(req[r].tok))
  <2>1. CASE req[q].ph # "grace" /\ \E s : Goes(q, s)
    BY <1>3, <2>1
  <2>2. CASE ReadSuccessor(q)
    <3>1. CASE Answers(q, Successor(req[q].tok))
      <4>1. [Resting EXCEPT !.ph = "done", !.answer = Successor(req[q].tok)].ph = "done"
        BY DEF Resting
      <4> QED BY <1>3, <3>1, <4>1 DEF Answers
    <3>2. CASE ~Usable(Successor(req[q].tok)) /\ Goes(q, [req[q] EXCEPT !.ph = "revoking", !.why = "reuse"])
      <4>1. q = r
        BY <1>1, <3>2 DEF Goes, TabsInv, Inv, TypeOK
      <4> QED BY <3>2, <4>1
    <3> QED BY <2>2, <3>1, <3>2 DEF ReadSuccessor
  <2> QED BY <1>5, <2>1, <2>2
      DEF Server, CommitRotation, Answers, ReadRevoked, Refuses, BeginRevokeAll, RevokeAll, Logout
<1> QED BY <1>2, <1>4, <1>5 DEF SessionsNext

\* rotate_refresh: a tab that presents a consumed token inside the grace window is
\* given the successor, whatever was lost before; it is taken for a replay
\* only if that successor has expired.
THEOREM GraceAbsorbs == Locks => (SessionsSpec => AbsorbedWithinGrace)
<1> SUFFICES ASSUME Locks PROVE SessionsSpec => AbsorbedWithinGrace
  OBVIOUS
<1>1. BrowserInv /\ [SessionsNext]_<<vars, tabVars>> =>
        [ \A r \in Requests :
          tab[r].act = "refresh" /\ req[r].tok \in recent
            /\ row[Successor(req[r].tok)] # "none" /\ ~parted
            /\ req[r].ph = "grace" /\ req'[r].ph = "revoking"
              => Successor(req[r].tok) \in lapsed ]_vars
  <2> SUFFICES ASSUME BrowserInv, [SessionsNext]_<<vars, tabVars>>, NEW r \in Requests,
                      tab[r].act = "refresh", row[Successor(req[r].tok)] # "none", ~parted,
                      req[r].ph = "grace", req'[r].ph = "revoking"
               PROVE  Successor(req[r].tok) \in lapsed
    OBVIOUS
  <2>1. TabsInv /\ ~anyClient
    BY DEF BrowserInv, TabsInv
  <2>2. /\ req[r].tok = tab[r].held /\ tab[r].held \in Tokens /\ tab[r].held[2] < MaxChain /\ Foremost(tab[r].held)
    <3>1. TabOK(r) /\ Placed /\ FrontOK
      BY <2>1 DEF BrowserInv, TabsInv, Inv
    <3> QED BY <3>1 DEF TabOK, Placed, FrontOK
  <2>3. Successor(tab[r].held) \in Tokens /\ Fresher(Successor(tab[r].held), tab[r].held)
    BY <2>2, TokenShape, FresherMeans DEF Kept
  <2>4. row[Successor(tab[r].held)] = "live"
    BY <2>1, <2>2, <2>3 DEF Foremost, TabsInv, SessionsTypeOK, TypeOK
  <2> QED BY <2>1, <2>2, <2>4, GraceLeaves DEF Usable
<1> QED BY <1>1, BrowserInvariant, PTL DEF SessionsSpec, AbsorbedWithinGrace

============================================================================
