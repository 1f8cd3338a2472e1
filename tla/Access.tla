------------------------------- MODULE Access -------------------------------
(***************************************************************************)
(* Who may do what on one project: the atoms of global roles and of member *)
(* roles (domain/permissions.py), the dependencies that check them         *)
(* (api/deps.py), and the changes of the members (services/projects.py).   *)
(*                                                                         *)
(* A change of a member is authorized and reads the role and the           *)
(* membership, then it writes; other changes, an edit or the deletion of   *)
(* the role come between.                                                  *)
(***************************************************************************)
EXTENDS FiniteSets

CONSTANTS
    People,
    Owner,         \* who created the project
    ProjectRoles,   \* project roles that an administrator may create
    NoRole,
    Changers       \* changes under way together

ASSUME AccessAssumption == Owner \in People
\* The absence of a role is neither a role nor a set of atoms.
ASSUME NoRoleAssumption ==
    /\ NoRole \notin ProjectRoles \cup {"owner", "editor", "viewer"}
    /\ \A atoms \in SUBSET {"view", "edit_content", "manage"} : atoms # NoRole

VARIABLES
    held,          \* the global atoms of each user that bear on projects
    granted,       \* the atoms of each custom role; NoRole while it does not exist
    member,        \* project_members: the role of each user, NoRole for none
    change         \* the changes under way [op, who, role, had]

accessVars == <<held, granted, member, change>>

\* edit_content, run_jobs and edit_settings are checked alike; one stands for the three.
ProjectAtoms == {"view", "edit_content", "manage"}
GlobalAtoms  == {"view_any", "act_any"}
NoChange     == [op |-> "none", who |-> Owner, role |-> NoRole, had |-> NoRole]

MemberRoles == {"owner", "editor", "viewer"} \cup ProjectRoles

\* The built-in roles are seeded and immutable.
AtomsOf(r) ==
    CASE r = "owner"  -> ProjectAtoms
      [] r = "editor" -> {"view", "edit_content"}
      [] r = "viewer" -> {"view"}
      [] OTHER        -> granted[r]

Grantable == {"owner", "editor", "viewer"} \cup {r \in ProjectRoles : granted[r] # NoRole}

\* get_member_perms: None, which grants nothing, for a user who is not a member.
MemberPerms(u) == IF member[u] = NoRole THEN {} ELSE AtomsOf(member[u])

-----------------------------------------------------------------------------
(* domain/permissions.py *)

Can(global, atom, perms) ==
    \/ "act_any" \in global
    \/ atom = "view" /\ "view_any" \in global
    \/ atom \in perms

\* Mutant: the reports to the browser know nothing of view_any.
MemberAtoms(global, perms) == IF "act_any" \in global THEN ProjectAtoms ELSE perms

EffectivePerms(global, perms) ==
    IF "act_any" \in global THEN ProjectAtoms
    ELSE perms \cup IF "view_any" \in global THEN {"view"} ELSE {}

SeesAll(global) == "view_any" \in global \/ "act_any" \in global

\* list_projects
Listed(u) == SeesAll(held[u]) \/ member[u] # NoRole

May(u, atom) == Can(held[u], atom, MemberPerms(u))

\* The answer for a test run or a result by its id, if there is such a row.
RunAnswer(u, exists) == IF exists /\ May(u, "view") THEN "ok" ELSE "not_found"
RatingAnswer(u, exists) ==
    IF exists /\ May(u, "edit_content") THEN "ok"
    ELSE IF exists /\ May(u, "view") THEN "forbidden" ELSE "not_found"

-----------------------------------------------------------------------------
AccessInit ==
    /\ held = [u \in People |-> {}]
    /\ granted = [r \in ProjectRoles |-> NoRole]
    /\ member = [u \in People |-> IF u = Owner THEN "owner" ELSE NoRole]
    /\ change = [c \in Changers |-> NoChange]

\* update_user: the atoms of the global roles a user is given.
GiveGlobalRoles(u, atoms) ==
    /\ held' = [held EXCEPT ![u] = atoms]
    /\ UNCHANGED <<granted, member, change>>

\* create_role and update_role: any set of project atoms.
WriteProjectRole(r, atoms) ==
    /\ granted' = [granted EXCEPT ![r] = atoms]
    /\ UNCHANGED <<held, member, change>>

\* usage_counts, and the foreign key of a membership that was written since.
InUse(r) == \E u \in People : member[u] = r

DeleteProjectRole(r) ==
    /\ granted[r] # NoRole /\ ~InUse(r)
    /\ granted' = [granted EXCEPT ![r] = NoRole]
    /\ UNCHANGED <<held, member, change>>

\* require_project_access, then set_member up to the membership it read.
BeginSetMember(c, actor, u, r) ==
    /\ change[c] = NoChange
    /\ May(actor, "manage")
    /\ u # Owner /\ r # "owner" /\ r \in Grantable
    /\ member[u] # r
    /\ change' = [change EXCEPT ![c] = [op |-> "set", who |-> u, role |-> r, had |-> member[u]]]
    /\ UNCHANGED <<held, granted, member>>

\* An insert conflicts with a row that was inserted since; an update of a row that
\* was deleted since matches none and fails; neither finds a role that is gone.
Matches(c) ==
    /\ (change[c].had = NoRole) = (member[change[c].who] = NoRole)
    /\ change[c].role \in Grantable

SetMember(c) ==
    /\ change[c].op = "set"
    /\ member' = IF Matches(c) THEN [member EXCEPT ![change[c].who] = change[c].role] ELSE member
    /\ change' = [change EXCEPT ![c] = NoChange]
    /\ UNCHANGED <<held, granted>>

BeginRemoveMember(c, actor, u) ==
    /\ change[c] = NoChange
    /\ May(actor, "manage")
    /\ u # Owner /\ member[u] # NoRole
    /\ change' = [change EXCEPT ![c] = [NoChange EXCEPT !.op = "remove", !.who = u, !.had = member[u]]]
    /\ UNCHANGED <<held, granted, member>>

RemoveMember(c) ==
    /\ change[c].op = "remove"
    /\ member' = [member EXCEPT ![change[c].who] = NoRole]
    /\ change' = [change EXCEPT ![c] = NoChange]
    /\ UNCHANGED <<held, granted>>

AccessNext ==
    \/ \E u \in People, atoms \in SUBSET GlobalAtoms : GiveGlobalRoles(u, atoms)
    \/ \E r \in ProjectRoles :
          (\E atoms \in SUBSET ProjectAtoms : WriteProjectRole(r, atoms)) \/ DeleteProjectRole(r)
    \/ \E c \in Changers :
          \/ \E actor, u \in People :
                (\E r \in MemberRoles : BeginSetMember(c, actor, u, r)) \/ BeginRemoveMember(c, actor, u)
          \/ SetMember(c) \/ RemoveMember(c)

AccessSpec == AccessInit /\ [][AccessNext]_accessVars

-----------------------------------------------------------------------------
AccessTypeOK ==
    /\ held \in [People -> SUBSET GlobalAtoms]
    /\ \A r \in ProjectRoles : granted[r] = NoRole \/ granted[r] \subseteq ProjectAtoms
    /\ \A u \in People : member[u] \in Grantable \cup {NoRole}
    /\ \A c \in Changers : change[c].op \in {"none", "set", "remove"} /\ change[c].who \in People

\* Whatever changes of members and roles interleave: the owner, and nobody else,
\* has the owner's role; what a project reports as "my permissions" is what the
\* checks grant for every atom; who may view a project finds it in the list; and a
\* test run or a result that a caller may not read looks like one that is not there.
PermissionsAgree ==
    /\ \A u \in People : member[u] = "owner" <=> u = Owner
    /\ \A u \in People :
        /\ EffectivePerms(held[u], MemberPerms(u)) = {a \in ProjectAtoms : May(u, a)}
        /\ May(u, "view") => Listed(u)
        /\ ~May(u, "view") => RunAnswer(u, TRUE) = RunAnswer(u, FALSE)
        /\ ~May(u, "view") /\ ~May(u, "edit_content") => RatingAnswer(u, TRUE) = RatingAnswer(u, FALSE)
=============================================================================
