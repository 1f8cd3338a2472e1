------------------------------ MODULE Sessions ------------------------------
(***************************************************************************)
(* The tabs of one browser and the refresh tokens of its user              *)
(* (frontend stores/auth.ts beside services/auth.py).                      *)
(*                                                                         *)
(* The tabs share one refresh token, in localStorage.  refreshOnce allows  *)
(* a tab one refresh at a time, and navigator.locks serializes the tabs;   *)
(* Locks = FALSE is a browser, or an origin, without the Locks API.  The   *)
(* token is read inside the lock, which is held until the answer has been  *)
(* stored.  An answer may be lost, and the server has rotated nonetheless. *)
(* A logout takes no lock.  Each tab is one of the Requests.  A behaviour  *)
(* is that of one browser, or of clients that present any token they were  *)
(* ever given and change the password (`anyClient`).                       *)
(***************************************************************************)
EXTENDS RefreshTokens

CONSTANTS
    Locks,     \* navigator.locks exists
    Logouts,   \* the user logs out
    MaxLosses, \* bound: answers that never arrive
    Clients    \* whether behaviours of other clients are considered

ASSUME NoRequestAssumption == NoRequest \notin Requests
ASSUME SessionsAssumption  == Locks \in BOOLEAN /\ Logouts \in BOOLEAN /\ MaxLosses \in Nat
                                /\ Clients \subseteq BOOLEAN

VARIABLES
    stored,  \* localStorage grui_refresh
    lock,    \* the tab that holds the "grui-refresh" lock
    tab,     \* what each tab is doing, with the token it presented
    left,    \* a logout has completed and no login since
    parted,  \* a logout has been sent, at some time
    losses,  \* answers lost so far
    anyClient  \* the requests are not those of one browser

tabVars == <<stored, lock, tab, left, parted, losses, anyClient>>

Quiet == [act |-> "quiet", held |-> NoToken, retried |-> FALSE]
Tab   == [act : {"quiet", "login", "refresh", "gone", "logout"}, held : Tokens \cup {NoToken},
          retried : BOOLEAN]

SessionsTypeOK ==
    /\ TypeOK
    /\ stored \in Tokens \cup {NoToken}
    /\ lock \in Requests \cup {NoRequest}
    /\ tab \in [Requests -> Tab]
    /\ left \in BOOLEAN /\ parted \in BOOLEAN /\ losses \in 0..MaxLosses /\ anyClient \in BOOLEAN

SessionsInit ==
    /\ Init
    /\ stored = NoToken /\ lock = NoRequest
    /\ tab = [r \in Requests |-> Quiet]
    /\ left = FALSE /\ parted = FALSE /\ losses = 0 /\ anyClient \in Clients

Does(r, s) == tab' = [tab EXCEPT ![r] = s]

-----------------------------------------------------------------------------
\* Mutant: single-flight inside a tab, and nothing between the tabs.
NoLockAcrossTabs(r) == TRUE

\* withRefreshLock.
LockIsFree(r) == Locks => lock = NoRequest

\* The login page of a tab, which another tab's login does not close.
LogIn(r) ==
    /\ tab[r].act = "quiet"
    /\ Login(r)
    /\ Does(r, [Quiet EXCEPT !.act = "login"])
    /\ UNCHANGED <<stored, lock, left, losses, parted>>

LoggedIn(r) ==
    /\ tab[r].act = "login" /\ Finished(r)
    /\ stored' = req[r].answer /\ left' = FALSE
    /\ Does(r, Quiet)
    /\ UNCHANGED <<lock, losses, parted>>

\* refreshWith reads the token and sends it; the request is on its way.
Refresh(r) ==
    /\ tab[r].act = "quiet" /\ req[r].ph = "idle" /\ stored # NoToken
    /\ LockIsFree(r)
    /\ lock' = IF Locks THEN r ELSE lock
    /\ Does(r, [Quiet EXCEPT !.act = "refresh", !.held = stored])
    /\ UNCHANGED <<vars, stored, left, losses, parted>>

Present(r) ==
    /\ tab[r].act \in {"refresh", "gone"} /\ Consume(r, tab[r].held)
    /\ UNCHANGED tabVars

\* The lock is released when the refresh settles.
Settles(r) ==
    /\ lock' = IF lock = r THEN NoRequest ELSE lock
    /\ Does(r, Quiet)

Refreshed(r) ==
    /\ tab[r].act = "refresh" /\ Finished(r) /\ req[r].answer # NoToken
    /\ stored' = req[r].answer
    /\ Settles(r)
    /\ UNCHANGED <<left, losses, parted>>

\* A 401 ends the session, unless another tab has stored a token meanwhile,
\* which is tried once.
Refused(r) ==
    LET t == tab[r].held
        other == stored # NoToken /\ stored # t
    IN
    /\ tab[r].act = "refresh" /\ Finished(r) /\ req[r].answer = NoToken
    /\ \/ /\ other /\ ~tab[r].retried
          /\ Does(r, [act |-> "refresh", held |-> stored, retried |-> TRUE])
          /\ UNCHANGED <<stored, lock>>
       \/ /\ ~other \/ tab[r].retried
          /\ stored' = IF stored = t THEN NoToken ELSE stored
          /\ Settles(r)
    /\ UNCHANGED <<left, losses, parted>>

\* The answer is lost, or the tab is closed: the token and the user stay.  The
\* request still reaches the server, perhaps much later.
AnswerLost(r) ==
    /\ tab[r].act = "refresh"
    /\ losses < MaxLosses /\ losses' = losses + 1
    /\ lock' = IF lock = r THEN NoRequest ELSE lock
    /\ Does(r, [tab[r] EXCEPT !.act = "gone"])
    /\ UNCHANGED <<vars, stored, left, parted>>

Unread(r) ==
    /\ tab[r].act = "gone" /\ Finished(r)
    /\ Does(r, Quiet)
    /\ UNCHANGED <<stored, lock, left, losses, parted>>

LogOut(r) ==
    /\ Logouts
    /\ tab[r].act = "quiet" /\ req[r].ph = "idle" /\ stored # NoToken
    /\ Does(r, [Quiet EXCEPT !.act = "logout", !.held = stored])
    /\ parted' = TRUE
    /\ UNCHANGED <<vars, stored, lock, left, losses>>

SendLogout(r) ==
    /\ tab[r].act = "logout" /\ BeginLogout(r, tab[r].held)
    /\ UNCHANGED tabVars

\* The finally block clears the local session, whatever the answer.
LoggedOut(r) ==
    /\ tab[r].act = "logout" /\ Finished(r)
    /\ stored' = NoToken /\ left' = TRUE
    /\ Does(r, Quiet)
    /\ UNCHANGED <<lock, losses, parted>>

-----------------------------------------------------------------------------
Tabs(r) ==
    \/ LogIn(r) \/ LoggedIn(r)
    \/ Refresh(r) \/ Present(r) \/ Refreshed(r) \/ Refused(r)
    \/ AnswerLost(r) \/ Unread(r)
    \/ LogOut(r) \/ SendLogout(r) \/ LoggedOut(r)

SessionsNext ==
    \/ /\ ~anyClient /\ UNCHANGED anyClient
       /\ \/ \E r \in Requests : Tabs(r)
          \/ (\E r \in Requests : Server(r)) /\ UNCHANGED tabVars
          \/ Time /\ UNCHANGED tabVars
    \/ anyClient /\ Next /\ UNCHANGED tabVars

SessionsSpec == SessionsInit /\ [][SessionsNext]_<<vars, tabVars>>

-----------------------------------------------------------------------------
\* Rotation in several tabs never looks like a replay: reuse detection, which
\* ends the sessions of the user on every device, needs an answer that was lost
\* or a logout, whose token a refresh in another tab presents.
ReuseNeedsALostAnswer == reused /\ ~anyClient => losses > 0 \/ parted

\* Inside the grace window a tab that presents a consumed token, because it
\* was fast or because an answer was lost, receives the successor: it is taken
\* for a replay only if that successor has expired.
AbsorbedWithinGrace ==
    [][ \A r \in Requests :
          tab[r].act = "refresh" /\ req[r].tok \in recent
            /\ row[Successor(req[r].tok)] # "none" /\ ~parted
            /\ req[r].ph = "grace" /\ req'[r].ph = "revoking"
              => Successor(req[r].tok) \in lapsed ]_vars

\* Between refreshes the token the tabs share is the usable one of its family,
\* as long as no answer was lost and reuse detection has not struck: the replay of a
\* token that was logged out takes a login made meanwhile with it.
StoredTokenIsCurrent ==
    stored # NoToken /\ losses = 0 /\ ~reused /\ (\A r \in Requests : tab[r].act = "quiet")
        => row[stored] = "live"

\* A logout in one tab ends the session of the browser until the next login.
LogoutIsFinal == left => stored = NoToken
=============================================================================
