---------------------------- MODULE Provisioning ----------------------------
(***************************************************************************)
(* AUTH_MODE=proxy: the identity of every request comes in headers, and    *)
(* the account is made on the first one (services/auth.py                  *)
(* get_or_provision_user, resolve_proxy_identity; api/deps.py              *)
(* resolve_proxy_user).  Statements of concurrent requests interleave, and *)
(* an insert waits for a transaction that has inserted the same address.   *)
(***************************************************************************)
EXTENDS FiniteSets

CONSTANTS
    Addresses,   \* normalized email addresses
    Resolvers    \* requests under way together

VARIABLES
    account,     \* the committed row of each address and its global grants
    listed,      \* PROXY_ADMIN_EMAILS of the running pod
    resolve,     \* the requests: phase, address and what they have read
    touched      \* history: accounts an administrator or a new list has changed

provisionVars == <<account, listed, resolve, touched>>

Composition == {"user_admin", "ops"}
Account == [state : {"absent", "active", "disabled"}, grants : SUBSET Composition]
NoAccount == [state |-> "absent", grants |-> {}]
NoResolve == [ph |-> "idle", addr |-> "none", active |-> TRUE, held |-> {}]

Exists(a) == account[a].state # "absent"
At(r, ph) == resolve[r].ph = ph
Moves(r, ph) == resolve' = [resolve EXCEPT ![r].ph = ph]

\* The user object of a request is the row as its lookup read it.
Found(r, a) ==
    resolve' = [resolve EXCEPT ![r] =
                  [ph |-> "found", addr |-> a, active |-> account[a].state = "active", held |-> {}]]

ProvisioningInit ==
    /\ account = [a \in Addresses |-> NoAccount]
    /\ listed \in SUBSET Addresses
    /\ resolve = [r \in Resolvers |-> NoResolve]
    /\ touched = {}

-----------------------------------------------------------------------------
\* The secret and the one address of the headers are right; then _lookup.
BeginResolve(r, a) ==
    /\ At(r, "idle")
    /\ IF Exists(a) THEN Found(r, a)
       ELSE resolve' = [resolve EXCEPT ![r] = [NoResolve EXCEPT !.ph = "unknown", !.addr = a]]
    /\ UNCHANGED <<account, listed, touched>>

\* The flush: the loser of the race rolls back and takes the winner's row.
InsertUser(r) ==
    LET a == resolve[r].addr IN
    /\ At(r, "unknown")
    /\ \A s \in Resolvers : ~(At(s, "inserted") /\ resolve[s].addr = a)
    /\ IF Exists(a) THEN Found(r, a) ELSE Moves(r, "inserted")
    /\ UNCHANGED <<account, listed, touched>>

\* Mutant: the grants are left to the reconcile.
NoGrants(a) == {}
\* A listed address is granted the composition in the insert's own transaction.
FirstGrants(a) == IF a \in listed THEN Composition ELSE {}

CommitUser(r) ==
    LET a == resolve[r].addr IN
    /\ At(r, "inserted")
    /\ account' = [account EXCEPT ![a] = [state |-> "active", grants |-> FirstGrants(a)]]
    /\ Moves(r, "found")
    /\ UNCHANGED <<listed, touched>>

\* resolve_proxy_identity: global_grants, and what the composition still lacks.
ReadGrants(r) ==
    LET a == resolve[r].addr IN
    /\ At(r, "found")
    /\ resolve' = [resolve EXCEPT ![r].held = account[a].grants,
                     ![r].ph = IF a \in listed /\ Composition \ account[a].grants # {}
                               THEN "promote" ELSE "resolved"]
    /\ UNCHANGED <<account, listed, touched>>

\* The missing grants in one commit.  A grant made meanwhile is a conflict of keys,
\* which nothing catches.
PromoteUser(r) ==
    LET a == resolve[r].addr
        missing == Composition \ resolve[r].held
    IN  /\ At(r, "promote")
        /\ IF missing \cap account[a].grants = {}
           THEN /\ account' = [account EXCEPT ![a].grants = @ \cup missing]
                /\ Moves(r, "promoted")
           ELSE Moves(r, "failed") /\ UNCHANGED account
        /\ UNCHANGED <<listed, touched>>

\* The atoms are read again after a promotion.
ReadPromoted(r) ==
    /\ At(r, "promoted")
    /\ resolve' = [resolve EXCEPT ![r].held = account[resolve[r].addr].grants, ![r].ph = "resolved"]
    /\ UNCHANGED <<account, listed, touched>>

\* The request goes on as the principal, or is refused as disabled; or it failed.
Respond(r) ==
    /\ resolve[r].ph \in {"resolved", "failed"}
    /\ resolve' = [resolve EXCEPT ![r] = NoResolve]
    /\ UNCHANGED <<account, listed, touched>>

-----------------------------------------------------------------------------
\* services/users.py create_user: waits for, and loses to, an insert like any other.
CreateAccount(a, grants) ==
    /\ ~Exists(a) /\ \A r \in Resolvers : ~(At(r, "inserted") /\ resolve[r].addr = a)
    /\ account' = [account EXCEPT ![a] = [state |-> "active", grants |-> grants]]
    /\ touched' = touched \cup {a}
    /\ UNCHANGED <<listed, resolve>>

\* update_user: other roles, or another active status.
PatchAccount(a, state, grants) ==
    /\ Exists(a)
    /\ account' = [account EXCEPT ![a] = [state |-> state, grants |-> grants]]
    /\ touched' = touched \cup {a}
    /\ UNCHANGED <<listed, resolve>>

\* The pod starts again with another list; its requests are gone.
Relist(emails) ==
    /\ listed' = emails
    /\ touched' = touched \cup {a \in emails \ listed : Exists(a)}
    /\ resolve' = [r \in Resolvers |-> NoResolve]
    /\ UNCHANGED account

ProvisioningNext ==
    \/ \E r \in Resolvers :
          \/ \E a \in Addresses : BeginResolve(r, a)
          \/ InsertUser(r) \/ CommitUser(r)
          \/ ReadGrants(r) \/ PromoteUser(r) \/ ReadPromoted(r)
          \/ Respond(r)
    \/ \E a \in Addresses, grants \in SUBSET Composition :
          \/ CreateAccount(a, grants)
          \/ \E state \in {"active", "disabled"} : PatchAccount(a, state, grants)
    \/ \E emails \in SUBSET Addresses : Relist(emails)

ProvisioningSpec == ProvisioningInit /\ [][ProvisioningNext]_provisionVars

-----------------------------------------------------------------------------
ProvisioningTypeOK ==
    /\ account \in [Addresses -> Account] /\ listed \subseteq Addresses
    /\ resolve \in [Resolvers ->
                      [ph : {"idle", "unknown", "inserted", "found", "promote", "promoted",
                             "resolved", "failed"},
                       addr : Addresses \cup {"none"}, active : BOOLEAN, held : SUBSET Composition]]
    /\ touched \subseteq Addresses
    /\ \A r, s \in Resolvers : At(r, "inserted") /\ At(s, "inserted") /\ r # s =>
          resolve[r].addr # resolve[s].addr

\* However many first requests of an address race, none of them fails, and each
\* goes on with the grants that the list gives the address: only an account that an
\* administrator has made or changed, or that was listed after its first request,
\* can fail a request on the keys of the grants or lack a grant for a moment.
FirstLoginsDoNotFail ==
    \A r \in Resolvers : LET a == resolve[r].addr IN
        a \notin touched =>
            /\ ~At(r, "failed")
            /\ At(r, "found") => Exists(a)
            /\ At(r, "resolved") => resolve[r].active /\ (a \in listed => resolve[r].held = Composition)
=============================================================================
