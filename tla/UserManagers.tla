---------------------------- MODULE UserManagers ----------------------------
(***************************************************************************)
(* Who may manage users: the guards of services/users.py and               *)
(* services/roles.py that keep at least one active user with the atom      *)
(* `users:manage`, and the bootstrap of services/auth.py.                  *)
(*                                                                         *)
(* A request is authorized and loads what it is about, then asks whether   *)
(* anybody else holds the atom, then writes.  Each of these is a statement *)
(* of its own under READ COMMITTED, and nothing is locked between them.    *)
(* Of a role only whether it grants the atom matters.                      *)
(***************************************************************************)
EXTENDS FiniteSets

CONSTANTS
    Users,
    FirstUser,   \* the user of BOOTSTRAP_ADMIN_EMAIL
    CustomRoles, \* global roles that an administrator may create
    UserAdmin,   \* the built-in role with the atom, which is immutable
    Admins       \* concurrent requests of administrators

ASSUME UsersAssumption == FirstUser \in Users /\ UserAdmin \notin CustomRoles

VARIABLES
    user,    \* the users: whether they exist and are active, and their roles
    role,    \* the custom roles: whether they exist and grant the atom
    request, \* the requests under way
    started  \* an administrator has been bootstrapped

managerVars == <<user, role, request, started>>

Roles == CustomRoles \cup {UserAdmin}

User    == [state : {"absent", "active", "disabled"}, roles : SUBSET Roles]
Grants  == {"absent", "manages", "other"}

\* A patch has `fields`, of which the roles `give` the atom or not; `was` is the
\* user and `had` the role as they were loaded.
AdminRequest ==
    [op : {"none", "patch", "edit"}, ph : {"idle", "loaded", "allowed"},
     who : Users, fields : SUBSET {"roles", "active"}, roles : SUBSET Roles,
     active : {"active", "disabled"}, give : BOOLEAN, was : {"active", "disabled"},
     what : Roles, grants : Grants, had : Grants]

NoPatch == [op |-> "none", ph |-> "idle", who |-> FirstUser, fields |-> {}, roles |-> {},
            active |-> "active", give |-> FALSE, was |-> "active",
            what |-> UserAdmin, grants |-> "other", had |-> "other"]

Existing == {UserAdmin} \cup {r \in CustomRoles : role[r] # "absent"}
Sources  == {UserAdmin} \cup {r \in CustomRoles : role[r] = "manages"}

\* manager_holders_stmt, where `sources` leaves out an excluded role.
HoldersThrough(sources) == {u \in Users : user[u].state = "active" /\ user[u].roles \cap sources # {}}
Holders == HoldersThrough(Sources)

\* The types, and that every grant is of a role that exists.
ManagersTypeOK ==
    /\ user \in [Users -> User] /\ role \in [CustomRoles -> Grants]
    /\ request \in [Admins -> AdminRequest] /\ started \in BOOLEAN
    /\ \A u \in Users : user[u].roles \subseteq Existing

ManagersInit ==
    /\ user = [u \in Users |-> [state |-> "absent", roles |-> {}]]
    /\ role = [r \in CustomRoles |-> "absent"]
    /\ request = [q \in Admins |-> NoPatch]
    /\ started = FALSE

Continues(q, r) == request' = [request EXCEPT ![q] = r]
Answered(q)     == Continues(q, NoPatch)

-----------------------------------------------------------------------------
\* bootstrap_admin, at the start of a pod: with an email that is taken the
\* insert fails, and the pod does not start.
Bootstrap ==
    /\ Holders = {} /\ user[FirstUser].state = "absent"
    /\ user' = [user EXCEPT ![FirstUser] = [state |-> "active", roles |-> {UserAdmin}]]
    /\ started' = TRUE
    /\ UNCHANGED <<role, request>>

CreateUser(u, rs) ==
    /\ Holders # {} /\ user[u].state = "absent" /\ rs \subseteq Existing
    /\ user' = [user EXCEPT ![u] = [state |-> "active", roles |-> rs]]
    /\ UNCHANGED <<role, request, started>>

CreateRole(r, grants) ==
    /\ Holders # {} /\ role[r] = "absent" /\ grants # "absent"
    /\ role' = [role EXCEPT ![r] = grants]
    /\ UNCHANGED <<user, request, started>>

\* Mutant: grants go with the role.
UnusedOrNot(r) == TRUE
\* A role in use is refused, by the count or by the foreign key.
Unused(r) == \A u \in Users : r \notin user[u].roles

DeleteRole(r) ==
    /\ Holders # {} /\ role[r] # "absent" /\ Unused(r)
    /\ role' = [role EXCEPT ![r] = "absent"]
    /\ UNCHANGED <<user, request, started>>

-----------------------------------------------------------------------------
(* patch_user_guarded.                                                     *)

\* Nobody changes their own roles or active status.
BeginPatch(q, u, fields, rs, state) ==
    /\ request[q].op = "none" /\ Holders \ {u} # {}
    /\ user[u].state # "absent" /\ rs \subseteq Existing
    /\ Continues(q, [NoPatch EXCEPT !.op = "patch", !.ph = "loaded", !.who = u, !.fields = fields,
                        !.roles = rs, !.give = rs \cap Sources # {},
                        !.active = state, !.was = user[u].state])
    /\ UNCHANGED <<user, role, started>>

KeepsTheAtom(r) ==
    /\ "active" \in r.fields => r.active = "active"
    /\ "roles" \in r.fields => r.give

LosesLastManager(r) ==
    /\ r.who \in Holders /\ ~KeepsTheAtom(r)
    /\ Holders \ {r.who} = {}

CheckPatch(q) ==
    /\ request[q].op = "patch" /\ request[q].ph = "loaded"
    /\ IF LosesLastManager(request[q]) THEN Answered(q)
       ELSE Continues(q, [request[q] EXCEPT !.ph = "allowed"])
    /\ UNCHANGED <<user, role, started>>

\* update_user: is_active is written if it differs from what was loaded, and a
\* role that has been deleted meanwhile fails the transaction.
UpdateUser(q) ==
    LET r == request[q]
        state == IF "active" \in r.fields /\ r.active # r.was THEN r.active ELSE user[r.who].state
        roles == IF "roles" \in r.fields THEN r.roles ELSE user[r.who].roles IN
    /\ r.op = "patch" /\ r.ph = "allowed"
    /\ user' = IF roles \subseteq Existing
               THEN [user EXCEPT ![r.who] = [state |-> state, roles |-> roles]] ELSE user
    /\ Answered(q)
    /\ UNCHANGED <<role, started>>

-----------------------------------------------------------------------------
(* update_role.                                                            *)

BeginEdit(q, r, grants) ==
    /\ request[q].op = "none" /\ Holders # {}
    /\ role[r] # "absent" /\ grants # "absent"
    /\ Continues(q, [NoPatch EXCEPT !.op = "edit", !.ph = "loaded", !.what = r,
                        !.grants = grants, !.had = role[r]])
    /\ UNCHANGED <<user, role, started>>

\* Mutant: each holder is asked whether somebody else holds the atom.
EachHasAFallback(r) ==
    /\ r.had = "manages" /\ r.grants # "manages"
    /\ \E u \in Holders : r.what \in user[u].roles /\ Holders \ {u} = {}
WouldLoseLastUserManager(r) ==
    /\ r.had = "manages" /\ r.grants # "manages"
    /\ HoldersThrough(Sources \ {r.what}) = {}

CheckEdit(q) ==
    /\ request[q].op = "edit" /\ request[q].ph = "loaded"
    /\ IF WouldLoseLastUserManager(request[q]) THEN Answered(q)
       ELSE Continues(q, [request[q] EXCEPT !.ph = "allowed"])
    /\ UNCHANGED <<user, role, started>>

\* The permissions are written if they differ from what was loaded, unless the
\* role has been deleted meanwhile.
UpdateRole(q) ==
    LET r == request[q] IN
    /\ r.op = "edit" /\ r.ph = "allowed"
    /\ role' = IF r.grants = r.had \/ role[r.what] = "absent" THEN role
               ELSE [role EXCEPT ![r.what] = r.grants]
    /\ Answered(q)
    /\ UNCHANGED <<user, started>>

-----------------------------------------------------------------------------
ManagersNext ==
    \/ Bootstrap
    \/ \E u \in Users, rs \in SUBSET Roles : CreateUser(u, rs)
    \/ \E r \in CustomRoles : (\E g \in Grants : CreateRole(r, g)) \/ DeleteRole(r)
    \/ \E q \in Admins :
          \/ \E u \in Users, rs \in SUBSET Roles, state \in {"active", "disabled"} :
                \/ BeginPatch(q, u, {"roles"}, rs, "active")
                \/ BeginPatch(q, u, {"active"}, {}, state)
                \/ BeginPatch(q, u, {"roles", "active"}, rs, state)
          \/ CheckPatch(q) \/ UpdateUser(q)
          \/ \E r \in CustomRoles, g \in Grants : BeginEdit(q, r, g)
          \/ CheckEdit(q) \/ UpdateRole(q)

ManagersSpec == ManagersInit /\ [][ManagersNext]_managerVars

-----------------------------------------------------------------------------
\* A change that "would leave zero active holders of users:manage" is refused,
\* however the atom is held: through one role or several, a built-in or a
\* custom one, alone or with others.  Nobody could undo it: user management is
\* gone, and the bootstrap fails on an email that is taken.
SomebodyManagesUsers == started => Holders # {}
=============================================================================
