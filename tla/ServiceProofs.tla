--------------------------- MODULE ServiceProofs ---------------------------
(***************************************************************************)
(* Theorems about what the api serves beside answering queries: the        *)
(* permissions on a project, the accounts made by a proxy, the managers of *)
(* the users, the abstract lifecycle of jobs, the projects with their      *)
(* workspaces, and the viewer of a job's log.  Each part is for itself; at *)
(* the end they stand side by side, with the sessions, the queries and the *)
(* limiters (MCService).                                                   *)
(***************************************************************************)
EXTENDS MCService, RefreshTokensProofs, QueryProofs, SequenceTheorems, TLAPS

-----------------------------------------------------------------------------
(* Permissions (Access).                                                    *)

\* A change that is under way is not about the owner and does not make an owner.
ChangeOK(d) ==
    /\ d.op \in {"none", "set", "remove"} /\ d.who \in People
    /\ d.op # "none" => d.who # Owner /\ d.role # "owner"

AccessInv ==
    /\ AccessTypeOK
    /\ granted = [r \in ProjectRoles |-> granted[r]] /\ member = [u \in People |-> member[u]]
    /\ change = [c \in Changers |-> change[c]]
    /\ \A u \in People : member[u] = "owner" <=> u = Owner
    /\ \A c \in Changers : ChangeOK(change[c])

\* The invariant holds at the start.
LEMMA AccessStart == AccessInit => AccessInv
<1> SUFFICES ASSUME AccessInit PROVE AccessInv
  OBVIOUS
<1>1. /\ \A u \in People : held[u] = {} /\ member[u] = IF u = Owner THEN "owner" ELSE NoRole
      /\ \A r \in ProjectRoles : granted[r] = NoRole
      /\ \A c \in Changers : change[c] = NoChange
  BY DEF AccessInit
<1>2. NoRole # "owner" /\ ChangeOK(NoChange)
  BY AccessAssumption, NoRoleAssumption DEF ChangeOK, NoChange
<1>3. AccessTypeOK
  BY <1>1, <1>2 DEF AccessInit, AccessTypeOK, Grantable, ChangeOK
<1> QED BY <1>1, <1>2, <1>3 DEF AccessInit, AccessInv

\* A member's role grants atoms of projects, and none grants nothing.
LEMMA PermsAreAtoms ==
    ASSUME AccessInv, NEW u \in People
    PROVE  MemberPerms(u) \subseteq ProjectAtoms
<1>1. member[u] \in {"owner", "editor", "viewer", NoRole} \cup {r \in ProjectRoles : granted[r] # NoRole}
  BY DEF AccessInv, AccessTypeOK, Grantable
<1>2. \A r \in ProjectRoles : granted[r] = NoRole \/ granted[r] \subseteq ProjectAtoms
  BY DEF AccessInv, AccessTypeOK
<1>3. AtomsOf(member[u]) \subseteq ProjectAtoms \/ member[u] = NoRole
  BY <1>1, <1>2 DEF AtomsOf, ProjectAtoms
<1> QED BY <1>3 DEF MemberPerms

\* Every check and change of a member or role keeps the invariant.
LEMMA AccessStepKeeps ==
    ASSUME AccessInv, [AccessNext]_accessVars
    PROVE  AccessInv'
<1> USE DEF AccessInv, AccessTypeOK
<1>1. ASSUME NEW u \in People, NEW atoms \in SUBSET GlobalAtoms, GiveGlobalRoles(u, atoms)
      PROVE  AccessInv'
  BY <1>1 DEF GiveGlobalRoles, Grantable, ChangeOK
<1>2. ASSUME NEW r \in ProjectRoles, NEW atoms \in SUBSET ProjectAtoms, WriteProjectRole(r, atoms)
      PROVE  AccessInv'
  <2>1. atoms # NoRole
    BY NoRoleAssumption DEF ProjectAtoms
  <2>2. \A s \in ProjectRoles : granted'[s] = IF s = r THEN atoms ELSE granted[s]
    BY <1>2 DEF WriteProjectRole
  <2>3. Grantable \subseteq Grantable'
    BY <2>1, <2>2 DEF Grantable
  <2>4. granted' = [s \in ProjectRoles |-> granted'[s]]
    BY <1>2 DEF WriteProjectRole
  <2> QED BY <1>2, <2>2, <2>3, <2>4 DEF WriteProjectRole, ChangeOK
<1>3. ASSUME NEW r \in ProjectRoles, DeleteProjectRole(r)
      PROVE  AccessInv'
  <2>1. \A s \in ProjectRoles : granted'[s] = IF s = r THEN NoRole ELSE granted[s]
    BY <1>3 DEF DeleteProjectRole
  <2>2. \A u \in People : member[u] # r
    BY <1>3 DEF DeleteProjectRole, InUse
  <2>3. \A u \in People : member'[u] \in Grantable' \cup {NoRole}
    BY <1>3, <2>1, <2>2 DEF DeleteProjectRole, Grantable
  <2>4. granted' = [s \in ProjectRoles |-> granted'[s]]
    BY <1>3 DEF DeleteProjectRole
  <2> QED BY <1>3, <2>1, <2>3, <2>4 DEF DeleteProjectRole, ChangeOK
<1>4. ASSUME NEW c \in Changers, NEW d, change' = [change EXCEPT ![c] = d], ChangeOK(d),
             UNCHANGED <<held, granted, member>>
      PROVE  AccessInv'
  <2>1. \A e \in Changers : change'[e] = IF e = c THEN d ELSE change[e]
    BY <1>4
  <2>2. change' = [e \in Changers |-> change'[e]]
    BY <1>4
  <2>3. \A e \in Changers : ChangeOK(change'[e])
    BY <1>4, <2>1
  <2> QED BY <1>4, <2>2, <2>3 DEF Grantable, ChangeOK
<1>5. ASSUME NEW c \in Changers, NEW actor \in People, NEW u \in People, NEW r \in MemberRoles,
             BeginSetMember(c, actor, u, r)
      PROVE  AccessInv'
  BY <1>4, <1>5 DEF BeginSetMember, ChangeOK
<1>6. ASSUME NEW c \in Changers, NEW actor \in People, NEW u \in People, BeginRemoveMember(c, actor, u)
      PROVE  AccessInv'
  <2>1. ChangeOK([NoChange EXCEPT !.op = "remove", !.who = u, !.had = member[u]])
    BY <1>6, NoRoleAssumption DEF BeginRemoveMember, NoChange, ChangeOK
  <2> QED BY <1>4, <1>6, <2>1 DEF BeginRemoveMember
<1>7. ASSUME NEW c \in Changers, NEW r \in Grantable \cup {NoRole}, r # "owner",
             change[c].op # "none", change' = [change EXCEPT ![c] = NoChange],
             member' = [member EXCEPT ![change[c].who] = r], UNCHANGED <<held, granted>>
      PROVE  AccessInv'
  <2>1. change[c].who \in People /\ change[c].who # Owner
    BY <1>7 DEF ChangeOK
  <2>2. \A u \in People : member'[u] = IF u = change[c].who THEN r ELSE member[u]
    BY <1>7, <2>1
  <2>3. member' = [u \in People |-> member'[u]]
    BY <1>7
  <2>4. ChangeOK(NoChange)
    BY AccessAssumption DEF ChangeOK, NoChange
  <2>5. \A e \in Changers : ChangeOK(change'[e])
    BY <1>7, <2>4
  <2>6. change' = [e \in Changers |-> change'[e]]
    BY <1>7
  <2> QED BY <1>7, <2>1, <2>2, <2>3, <2>5, <2>6 DEF Grantable, ChangeOK
<1>8. ASSUME NEW c \in Changers, SetMember(c)
      PROVE  AccessInv'
  <2>1. change[c].op = "set" /\ change' = [change EXCEPT ![c] = NoChange] /\ UNCHANGED <<held, granted>>
    BY <1>8 DEF SetMember
  <2>2. CASE Matches(c)
    <3>1. change[c].role \in Grantable /\ change[c].role # "owner"
      BY <2>1, <2>2 DEF Matches, ChangeOK
    <3> QED BY <1>7, <1>8, <2>1, <2>2, <3>1 DEF SetMember
  <2>3. CASE ~Matches(c)
    <3>1. ChangeOK(NoChange)
      BY AccessAssumption DEF ChangeOK, NoChange
    <3> QED BY <1>4, <1>8, <2>3, <3>1 DEF SetMember
  <2> QED BY <2>2, <2>3
<1>9. ASSUME NEW c \in Changers, RemoveMember(c)
      PROVE  AccessInv'
  BY <1>7, <1>9, NoRoleAssumption DEF RemoveMember
<1>10. CASE UNCHANGED accessVars
  BY <1>10 DEF accessVars, Grantable, ChangeOK
<1> QED BY <1>1, <1>2, <1>3, <1>5, <1>6, <1>8, <1>9, <1>10 DEF AccessNext

\* The invariant of Access.
LEMMA AccessInvariant == AccessSpec => []AccessInv
<1>1. AccessInv /\ [AccessNext]_accessVars => AccessInv'
  BY AccessStepKeeps
<1> QED BY <1>1, AccessStart, PTL DEF AccessSpec

\* Every membership is of a role that exists, and every role grants atoms of projects.
THEOREM AccessTypes == AccessSpec => []AccessTypeOK
<1>1. AccessInv => AccessTypeOK
  BY DEF AccessInv
<1> QED BY <1>1, AccessInvariant, PTL

\* The owner keeps the owner's role, what is reported is what is checked, and a
\* run that may not be read cannot be told from one that is not there.
THEOREM PermissionsOfAProjectAgree == AccessSpec => []PermissionsAgree
<1>1. ASSUME AccessInv PROVE PermissionsAgree
  <2>1. ASSUME NEW u \in People
        PROVE  /\ EffectivePerms(held[u], MemberPerms(u)) = {a \in ProjectAtoms : May(u, a)}
               /\ May(u, "view") => Listed(u)
               /\ ~May(u, "view") => RunAnswer(u, TRUE) = RunAnswer(u, FALSE)
               /\ ~May(u, "view") /\ ~May(u, "edit_content") =>
                     RatingAnswer(u, TRUE) = RatingAnswer(u, FALSE)
    <3>1. MemberPerms(u) \subseteq ProjectAtoms
      BY <1>1, <2>1, PermsAreAtoms
    <3>2. EffectivePerms(held[u], MemberPerms(u)) = {a \in ProjectAtoms : May(u, a)}
      BY <3>1 DEF EffectivePerms, May, Can, ProjectAtoms
    <3>3. May(u, "view") => Listed(u)
      BY DEF May, Can, Listed, SeesAll, MemberPerms
    <3> QED BY <3>2, <3>3 DEF RunAnswer, RatingAnswer
  <2> QED BY <1>1, <2>1 DEF AccessInv, PermissionsAgree
<1> QED BY <1>1, AccessInvariant, PTL

-----------------------------------------------------------------------------
(* Accounts made on the first request (Provisioning).                       *)

Phased == {"idle", "unknown", "inserted", "found", "promote", "promoted", "resolved", "failed"}

\* An account nobody has touched is active and has what the list gives it.
AccountFollows(a) ==
    a \notin touched /\ Exists(a) =>
        account[a].state = "active" /\ (a \in listed => account[a].grants = Composition)

\* A request of such an account has found it, and never needs to promote it.
ResolveFollows(s) ==
    s.addr \notin touched =>
        /\ s.ph \notin {"promote", "promoted", "failed"}
        /\ s.active
        /\ s.ph \in {"found", "resolved"} => Exists(s.addr)
        /\ s.ph = "resolved" /\ s.addr \in listed => s.held = Composition

ProvisionInv ==
    /\ ProvisioningTypeOK
    /\ \A r \in Resolvers : resolve[r].ph # "idle" => resolve[r].addr \in Addresses
    /\ \A a \in Addresses : AccountFollows(a)
    /\ \A r \in Resolvers : resolve[r].ph # "idle" => ResolveFollows(resolve[r])

Resolve == [ph : Phased, addr : Addresses \cup {"none"}, active : BOOLEAN, held : SUBSET Composition]

\* The invariant holds at the start.
LEMMA ProvisioningStart == ProvisioningInit => ProvisionInv
<1> SUFFICES ASSUME ProvisioningInit PROVE ProvisionInv
  OBVIOUS
<1>1. \A r \in Resolvers : resolve[r] = NoResolve
  BY DEF ProvisioningInit
<1>2. NoResolve \in Resolve /\ NoResolve.ph = "idle"
  BY DEF NoResolve, Resolve, Phased
<1>3. NoAccount \in Account /\ NoAccount.state = "absent"
  BY DEF NoAccount, Account
<1>4. ProvisioningTypeOK
  BY <1>1, <1>2, <1>3 DEF ProvisioningInit, ProvisioningTypeOK, At, Resolve, Phased
<1> QED BY <1>1, <1>2, <1>3, <1>4 DEF ProvisioningInit, ProvisionInv, AccountFollows, Exists

\* A step of one request, while the accounts that nobody has touched stay.
LEMMA ResolveStep ==
    ASSUME ProvisionInv, NEW r \in Resolvers, NEW s \in Resolve,
           resolve' = [resolve EXCEPT ![r] = s],
           s.ph # "idle" => s.addr \in Addresses /\ ResolveFollows(s)',
           s.ph = "inserted" =>
               \A q \in Resolvers : q # r /\ resolve[q].ph = "inserted" => resolve[q].addr # s.addr,
           account' \in [Addresses -> Account], UNCHANGED <<listed, touched>>,
           \A a \in Addresses : AccountFollows(a)' /\ (Exists(a) => Exists(a)')
    PROVE  ProvisionInv'
<1>1. resolve \in [Resolvers -> Resolve] /\ listed \subseteq Addresses /\ touched \subseteq Addresses
  BY DEF ProvisionInv, ProvisioningTypeOK, Resolve, Phased
<1>2. resolve' \in [Resolvers -> Resolve] /\ \A q \in Resolvers : resolve'[q] = IF q = r THEN s ELSE resolve[q]
  BY <1>1
<1>3. \A p, q \in Resolvers : At(p, "inserted") /\ At(q, "inserted") /\ p # q => resolve[p].addr # resolve[q].addr
  BY DEF ProvisionInv, ProvisioningTypeOK
<1>4. \A p, q \in Resolvers :
         At(p, "inserted")' /\ At(q, "inserted")' /\ p # q => resolve'[p].addr # resolve'[q].addr
  BY <1>2, <1>3 DEF At
<1>5. ProvisioningTypeOK'
  BY <1>1, <1>2, <1>4 DEF ProvisioningTypeOK, Resolve, Phased
<1>6. ASSUME NEW q \in Resolvers, resolve'[q].ph # "idle"
      PROVE  resolve'[q].addr \in Addresses /\ ResolveFollows(resolve[q])'
  <2>1. CASE q = r
    BY <1>2, <1>6, <2>1 DEF ResolveFollows, Exists
  <2>2. CASE q # r
    <3>1. resolve'[q] = resolve[q] /\ ResolveFollows(resolve[q]) /\ resolve[q].addr \in Addresses
      BY <1>2, <1>6, <2>2 DEF ProvisionInv
    <3> QED BY <3>1 DEF ResolveFollows
  <2> QED BY <2>1, <2>2
<1> QED BY <1>5, <1>6 DEF ProvisionInv

\* Every statement of resolve_proxy_user keeps the invariant.
LEMMA RequestStepKeeps ==
    ASSUME ProvisionInv, NEW r \in Resolvers,
           \/ \E a \in Addresses : BeginResolve(r, a)
           \/ InsertUser(r) \/ CommitUser(r) \/ ReadGrants(r) \/ PromoteUser(r) \/ ReadPromoted(r)
           \/ Respond(r)
    PROVE  ProvisionInv'
<1>1. resolve \in [Resolvers -> Resolve] /\ account \in [Addresses -> Account]
      /\ listed \subseteq Addresses /\ touched \subseteq Addresses
  BY DEF ProvisionInv, ProvisioningTypeOK, Resolve, Phased
<1>2. /\ resolve[r].ph \in Phased /\ resolve[r].active \in BOOLEAN
      /\ resolve[r].held \in SUBSET Composition
      /\ resolve[r].ph # "idle" => resolve[r].addr \in Addresses /\ ResolveFollows(resolve[r])
  BY <1>1 DEF ProvisionInv, Resolve
<1>3. \A a \in Addresses : AccountFollows(a) /\ account[a].grants \in SUBSET Composition
  BY <1>1 DEF ProvisionInv, Account
<1>4. ASSUME NEW s \in Resolve, resolve' = [resolve EXCEPT ![r] = s], UNCHANGED <<account, listed, touched>>,
             s.ph # "idle" => s.addr \in Addresses /\ ResolveFollows(s),
             s.ph = "inserted" =>
               \A q \in Resolvers : q # r /\ resolve[q].ph = "inserted" => resolve[q].addr # s.addr
      PROVE  ProvisionInv'
  <2>1. \A a \in Addresses : AccountFollows(a)' /\ (Exists(a) => Exists(a)')
    BY <1>3, <1>4 DEF AccountFollows, Exists
  <2>2. s.ph # "idle" => s.addr \in Addresses /\ ResolveFollows(s)'
    BY <1>4 DEF ResolveFollows, Exists
  <2> QED BY <1>1, <1>4, <2>1, <2>2, ResolveStep
<1>5. ASSUME NEW a \in Addresses, Exists(a), Found(r, a), UNCHANGED <<account, listed, touched>>
      PROVE  ProvisionInv'
  <2> DEFINE s == [ph |-> "found", addr |-> a, active |-> account[a].state = "active", held |-> {}]
  <2>1. s \in Resolve
    BY DEF Resolve, Phased
  <2>2. ResolveFollows(s)
    BY <1>3, <1>5 DEF ResolveFollows, AccountFollows
  <2>3. resolve' = [resolve EXCEPT ![r] = s] /\ s.ph = "found" /\ s.addr \in Addresses
    BY <1>5 DEF Found
  <2> QED BY <1>4, <1>5, <2>1, <2>2, <2>3
<1>6. ASSUME NEW a \in Addresses, BeginResolve(r, a)
      PROVE  ProvisionInv'
  <2>1. CASE Exists(a)
    BY <1>5, <1>6, <2>1 DEF BeginResolve
  <2>2. CASE ~Exists(a)
    <3> DEFINE s == [NoResolve EXCEPT !.ph = "unknown", !.addr = a]
    <3>1. s \in Resolve /\ s.ph = "unknown" /\ s.addr = a /\ s.active = TRUE
      BY DEF Resolve, Phased, NoResolve
    <3>2. ResolveFollows(s)
      BY <3>1 DEF ResolveFollows
    <3> QED BY <1>4, <1>6, <2>2, <3>1, <3>2 DEF BeginResolve
  <2> QED BY <2>1, <2>2
<1>7. ASSUME NEW ph \in Phased, Moves(r, ph), resolve[r].ph # "idle", UNCHANGED <<account, listed, touched>>,
             ph \notin {"idle", "found", "resolved"},
             resolve[r].addr \notin touched => ph \notin {"promote", "promoted", "failed"},
             ph = "inserted" => \A q \in Resolvers : q # r /\ resolve[q].ph = "inserted" =>
                                   resolve[q].addr # resolve[r].addr
      PROVE  ProvisionInv'
  <2> DEFINE s == [resolve[r] EXCEPT !.ph = ph]
  <2>1. s \in Resolve /\ s.ph = ph /\ s.addr = resolve[r].addr /\ s.active = resolve[r].active
    BY <1>1 DEF Resolve
  <2>2. ResolveFollows(s)
    BY <1>2, <1>7, <2>1 DEF ResolveFollows
  <2>3. resolve' = [resolve EXCEPT ![r] = s]
    BY <1>7 DEF Moves
  <2> QED BY <1>2, <1>4, <1>7, <2>1, <2>2, <2>3
<1>8. CASE InsertUser(r)
  <2>1. resolve[r].ph = "unknown" /\ resolve[r].addr \in Addresses
    BY <1>2, <1>8 DEF InsertUser, At
  <2>2. CASE Exists(resolve[r].addr)
    BY <1>5, <1>8, <2>1, <2>2 DEF InsertUser
  <2>3. CASE ~Exists(resolve[r].addr)
    <3>1. Moves(r, "inserted") /\ UNCHANGED <<account, listed, touched>>
          /\ \A q \in Resolvers : q # r /\ resolve[q].ph = "inserted" => resolve[q].addr # resolve[r].addr
      BY <1>8, <2>3 DEF InsertUser, At
    <3> QED BY <1>7, <2>1, <3>1 DEF Phased
  <2> QED BY <2>2, <2>3
<1>9. CASE CommitUser(r)
  <2>0. PICK a, s : a = resolve[r].addr /\ s = [resolve[r] EXCEPT !.ph = "found"]
    OBVIOUS
  <2>1. resolve[r].ph = "inserted" /\ a \in Addresses
    BY <1>2, <1>9, <2>0 DEF CommitUser, At
  <2>2. /\ account' = [account EXCEPT ![a] = [state |-> "active", grants |-> FirstGrants(a)]]
        /\ resolve' = [resolve EXCEPT ![r] = s] /\ UNCHANGED <<listed, touched>>
    BY <1>9, <2>0 DEF CommitUser, Moves
  <2>3. s \in Resolve /\ s.ph = "found" /\ s.addr = a /\ s.active = resolve[r].active
    BY <1>1, <2>0 DEF Resolve, Phased
  <2>4. FirstGrants(a) \in SUBSET Composition
    BY DEF FirstGrants
  <2>5. account' \in [Addresses -> Account]
    BY <1>1, <2>2, <2>4 DEF Account
  <2>6. /\ account'[a].state = "active" /\ account'[a].grants = FirstGrants(a)
        /\ \A b \in Addresses : b # a => account'[b] = account[b]
    BY <1>1, <2>1, <2>2
  <2>7. \A b \in Addresses : AccountFollows(b)' /\ (Exists(b) => Exists(b)')
    BY <1>3, <2>2, <2>6 DEF AccountFollows, Exists, FirstGrants
  <2>8. ResolveFollows(s)'
    BY <1>2, <2>0, <2>1, <2>2, <2>3, <2>6 DEF ResolveFollows, Exists
  <2> QED BY <2>1, <2>2, <2>3, <2>5, <2>7, <2>8, ResolveStep
<1>10. CASE ReadGrants(r)
  <2> DEFINE a == resolve[r].addr
             ph == IF a \in listed /\ Composition \ account[a].grants # {} THEN "promote" ELSE "resolved"
             s == [resolve[r] EXCEPT !.held = account[a].grants, !.ph = ph]
  <2>1. resolve[r].ph = "found" /\ a \in Addresses
    BY <1>2, <1>10 DEF ReadGrants, At
  <2>2. resolve' = [resolve EXCEPT ![r] = s] /\ UNCHANGED <<account, listed, touched>>
    BY <1>10, <1>1 DEF ReadGrants
  <2>3. s \in Resolve /\ s.ph = ph /\ s.addr = a /\ s.active = resolve[r].active
        /\ s.held = account[a].grants
    BY <1>1, <1>3, <2>1 DEF Resolve, Phased
  <2> HIDE DEF s
  <2>4. ResolveFollows(s)
    BY <1>2, <1>3, <2>1, <2>3 DEF ResolveFollows, AccountFollows
  <2> QED BY <1>4, <2>1, <2>2, <2>3, <2>4
<1>11. CASE PromoteUser(r)
  <2>0. PICK a, missing : a = resolve[r].addr /\ missing = Composition \ resolve[r].held
    OBVIOUS
  <2>1. resolve[r].ph = "promote" /\ a \in Addresses /\ a \in touched
    BY <1>2, <1>11, <2>0 DEF PromoteUser, At, ResolveFollows
  <2>2. CASE missing \cap account[a].grants = {}
    <3>0. PICK s : s = [resolve[r] EXCEPT !.ph = "promoted"]
      OBVIOUS
    <3>1. /\ account' = [account EXCEPT ![a].grants = @ \cup missing]
          /\ resolve' = [resolve EXCEPT ![r] = s] /\ UNCHANGED <<listed, touched>>
      BY <1>11, <2>0, <2>2, <3>0 DEF PromoteUser, Moves
    <3>2. s \in Resolve /\ s.ph = "promoted" /\ s.addr = a
      BY <1>1, <2>0, <3>0 DEF Resolve, Phased
    <3>3. account' \in [Addresses -> Account] /\ account'[a].state = account[a].state
          /\ \A b \in Addresses : b # a => account'[b] = account[b]
      <4>1. account[a] \in Account /\ missing \in SUBSET Composition
        BY <1>1, <2>0, <2>1
      <4>2. PICK b \in Account : b = [account[a] EXCEPT !.grants = @ \cup missing]
        BY <4>1 DEF Account
      <4>3. account' = [account EXCEPT ![a] = b] /\ b.state = account[a].state
        BY <3>1, <4>1, <4>2 DEF Account
      <4> QED BY <1>1, <2>1, <4>2, <4>3
    <3>4. \A b \in Addresses : AccountFollows(b)' /\ (Exists(b) => Exists(b)')
      BY <1>3, <2>1, <3>1, <3>3 DEF AccountFollows, Exists
    <3>5. ResolveFollows(s)'
      BY <2>1, <3>1, <3>2 DEF ResolveFollows
    <3> QED BY <2>1, <3>1, <3>2, <3>3, <3>4, <3>5, ResolveStep
  <2>3. CASE missing \cap account[a].grants # {}
    <3>1. Moves(r, "failed") /\ UNCHANGED <<account, listed, touched>>
      BY <1>11, <2>0, <2>3 DEF PromoteUser
    <3> QED BY <1>7, <2>0, <2>1, <3>1 DEF Phased
  <2> QED BY <2>2, <2>3
<1>12. CASE ReadPromoted(r)
  <2> DEFINE a == resolve[r].addr
             s == [resolve[r] EXCEPT !.held = account[a].grants, !.ph = "resolved"]
  <2>1. resolve[r].ph = "promoted" /\ a \in Addresses /\ a \in touched
    BY <1>2, <1>12 DEF ReadPromoted, At, ResolveFollows
  <2>2. resolve' = [resolve EXCEPT ![r] = s] /\ UNCHANGED <<account, listed, touched>>
    BY <1>12, <1>1 DEF ReadPromoted
  <2>3. s \in Resolve /\ s.ph = "resolved" /\ s.addr = a
    BY <1>1, <1>3, <2>1 DEF Resolve, Phased
  <2> HIDE DEF s
  <2>4. ResolveFollows(s)
    BY <2>1, <2>3 DEF ResolveFollows
  <2> QED BY <1>4, <2>1, <2>2, <2>3, <2>4
<1>13. CASE Respond(r)
  <2>1. NoResolve \in Resolve /\ NoResolve.ph = "idle"
    BY DEF NoResolve, Resolve, Phased
  <2> QED BY <1>4, <1>13, <2>1 DEF Respond
<1> QED BY <1>6, <1>8, <1>9, <1>10, <1>11, <1>12, <1>13

\* So do administrators and restarts with another list.
LEMMA ProvisioningStepKeeps ==
    ASSUME ProvisionInv, [ProvisioningNext]_provisionVars
    PROVE  ProvisionInv'
<1>1. resolve \in [Resolvers -> Resolve] /\ account \in [Addresses -> Account]
      /\ listed \subseteq Addresses /\ touched \subseteq Addresses
  BY DEF ProvisionInv, ProvisioningTypeOK, Resolve, Phased
<1>2. ASSUME NEW a \in Addresses, NEW state \in {"active", "disabled"}, NEW grants \in SUBSET Composition,
             account' = [account EXCEPT ![a] = [state |-> state, grants |-> grants]],
             touched' = touched \cup {a}, UNCHANGED <<listed, resolve>>
      PROVE  ProvisionInv'
  <2>1. account' \in [Addresses -> Account]
        /\ \A b \in Addresses : b # a => account'[b] = account[b]
    BY <1>1, <1>2 DEF Account
  <2>2. ProvisioningTypeOK'
    BY <1>1, <1>2, <2>1 DEF ProvisionInv, ProvisioningTypeOK, At
  <2>3. \A b \in Addresses : AccountFollows(b)'
    BY <1>2, <2>1 DEF ProvisionInv, AccountFollows, Exists
  <2>4. \A r \in Resolvers : resolve'[r].ph # "idle" => ResolveFollows(resolve[r])'
    BY <1>2, <2>1 DEF ProvisionInv, ResolveFollows, Exists
  <2> QED BY <1>2, <2>2, <2>3, <2>4 DEF ProvisionInv
<1>3. ASSUME NEW a \in Addresses, NEW grants \in SUBSET Composition,
             CreateAccount(a, grants) \/ \E state \in {"active", "disabled"} : PatchAccount(a, state, grants)
      PROVE  ProvisionInv'
  BY <1>2, <1>3 DEF CreateAccount, PatchAccount
<1>4. ASSUME NEW emails \in SUBSET Addresses, Relist(emails)
      PROVE  ProvisionInv'
  <2>1. NoResolve \in Resolve /\ NoResolve.ph = "idle"
    BY DEF NoResolve, Resolve, Phased
  <2>2. \A r \in Resolvers : resolve'[r] = NoResolve
    BY <1>4 DEF Relist
  <2>3. ProvisioningTypeOK'
    BY <1>1, <1>4, <2>1, <2>2 DEF Relist, ProvisioningTypeOK, At, Resolve, Phased
  <2>4. \A b \in Addresses : AccountFollows(b)'
    BY <1>4 DEF Relist, ProvisionInv, AccountFollows, Exists
  <2> QED BY <2>1, <2>2, <2>3, <2>4 DEF ProvisionInv
<1>5. CASE UNCHANGED provisionVars
  BY <1>5 DEF provisionVars, ProvisionInv, ProvisioningTypeOK, AccountFollows, ResolveFollows, Exists, At
<1> QED BY <1>3, <1>4, <1>5, RequestStepKeeps DEF ProvisioningNext

\* The invariant of Provisioning.
LEMMA ProvisioningInvariant == ProvisioningSpec => []ProvisionInv
<1>1. ProvisionInv /\ [ProvisioningNext]_provisionVars => ProvisionInv'
  BY ProvisioningStepKeeps
<1> QED BY <1>1, ProvisioningStart, PTL DEF ProvisioningSpec

\* Two requests never hold the uncommitted row of one address.
THEOREM ProvisioningTypes == ProvisioningSpec => []ProvisioningTypeOK
<1>1. ProvisionInv => ProvisioningTypeOK
  BY DEF ProvisionInv
<1> QED BY <1>1, ProvisioningInvariant, PTL

\* However many first requests of an address race, none fails and each has the
\* grants of the list.
THEOREM FirstLogins == ProvisioningSpec => []FirstLoginsDoNotFail
<1>1. ProvisionInv => FirstLoginsDoNotFail
  BY DEF ProvisionInv, ResolveFollows, FirstLoginsDoNotFail, At
<1> QED BY <1>1, ProvisioningInvariant, PTL

-----------------------------------------------------------------------------
(* Who may manage users (UserManagers).                                     *)

\* An edit is of a custom role and does not delete it.
RequestOK(r) ==
    /\ r.op = "none" <=> r.ph = "idle"
    /\ r.op = "edit" =>
          /\ r.what \in CustomRoles /\ r.grants # "absent"
          /\ r.had # "manages" /\ r.grants # "manages" => r.had = r.grants

ManagersInv == ManagersTypeOK /\ \A q \in Admins : RequestOK(request[q])

\* What the checks have promised to a request that is alone: somebody else holds the
\* atom than the user it changes, or somebody through another role.
OthersHold(r) ==
    /\ r.op = "patch" => Holders \ {r.who} # {}
    /\ r.op = "edit" /\ r.ph = "allowed" /\ r.had = "manages" /\ r.grants # "manages" =>
          HoldersThrough(Sources \ {r.what}) # {}

NoPatchOK == NoPatch \in AdminRequest /\ RequestOK(NoPatch) /\ OthersHold(NoPatch)

\* An administrator without a request promises nothing.
LEMMA RestingRequest == NoPatchOK
BY UsersAssumption DEF NoPatchOK, NoPatch, AdminRequest, RequestOK, OthersHold, Roles, Grants

\* The invariant holds at the start.
LEMMA ManagersStart == ManagersInit => ManagersInv
<1> SUFFICES ASSUME ManagersInit PROVE ManagersInv
  OBVIOUS
<1>1. \A u \in Users : user[u].roles = {}
  BY DEF ManagersInit
<1>2. user \in [Users -> User] /\ role \in [CustomRoles -> Grants]
  BY DEF ManagersInit, User, Grants
<1>3. request \in [Admins -> AdminRequest] /\ \A q \in Admins : request[q] = NoPatch
  BY RestingRequest DEF ManagersInit, NoPatchOK
<1> QED BY <1>1, <1>2, <1>3, RestingRequest DEF ManagersInit, ManagersInv, ManagersTypeOK, NoPatchOK

\* A step of the requests alone.
LEMMA ContinueKeeps ==
    ASSUME ManagersInv, NEW q \in Admins, NEW r \in AdminRequest, RequestOK(r), Continues(q, r),
           UNCHANGED <<user, role, started>>
    PROVE  ManagersInv'
<1>1. request' \in [Admins -> AdminRequest] /\ \A p \in Admins : request'[p] = IF p = q THEN r ELSE request[p]
  BY DEF ManagersInv, ManagersTypeOK, Continues
<1>2. \A p \in Admins : RequestOK(request'[p])
  BY <1>1 DEF ManagersInv
<1>3. ManagersTypeOK'
  BY <1>1 DEF ManagersInv, ManagersTypeOK, Existing
<1> QED BY <1>2, <1>3 DEF ManagersInv, RequestOK

\* Every step of a request of an administrator keeps the invariant.
LEMMA ManagersStepKeeps ==
    ASSUME ManagersInv, [ManagersNext]_managerVars
    PROVE  ManagersInv'
<1> USE DEF ManagersInv
<1>1. /\ user \in [Users -> User] /\ role \in [CustomRoles -> Grants]
      /\ request \in [Admins -> AdminRequest] /\ started \in BOOLEAN
      /\ \A u \in Users : user[u].roles \subseteq Existing
  BY DEF ManagersTypeOK
<1>2. Existing \subseteq Roles
  BY DEF Existing, Roles
<1>3. ASSUME NEW u \in Users, NEW w \in User, w.roles \subseteq Existing, user' = [user EXCEPT ![u] = w],
             role' = role, started' \in BOOLEAN, request' \in [Admins -> AdminRequest],
             \A q \in Admins : RequestOK(request'[q])
      PROVE  ManagersInv'
  <2>1. \A v \in Users : user'[v] = IF v = u THEN w ELSE user[v]
    BY <1>1, <1>3
  <2>2. user' \in [Users -> User]
    BY <1>1, <1>3
  <2>3. \A v \in Users : user'[v].roles \subseteq Existing'
    BY <1>1, <1>3, <2>1 DEF Existing
  <2> QED BY <1>1, <1>3, <2>2, <2>3 DEF ManagersTypeOK, RequestOK
<1>4. CASE Bootstrap
  <2>1. [state |-> "active", roles |-> {UserAdmin}] \in User
    BY DEF User, Roles
  <2> QED BY <1>1, <1>3, <1>4, <2>1, UsersAssumption DEF Bootstrap, Existing
<1>5. ASSUME NEW u \in Users, NEW rs \in SUBSET Roles, CreateUser(u, rs)
      PROVE  ManagersInv'
  <2>1. [state |-> "active", roles |-> rs] \in User
    BY DEF User
  <2> QED BY <1>1, <1>3, <1>5, <2>1 DEF CreateUser
<1>6. ASSUME NEW r \in CustomRoles, NEW g \in Grants, role' = [role EXCEPT ![r] = g],
             g # "absent" \/ \A u \in Users : r \notin user[u].roles, UNCHANGED <<user, request, started>>
      PROVE  ManagersInv'
  <2>1. \A s \in CustomRoles : role'[s] = IF s = r THEN g ELSE role[s]
    BY <1>1, <1>6
  <2>2. \A u \in Users : user'[u].roles \subseteq Existing'
    BY <1>1, <1>6, <2>1, UsersAssumption DEF Existing
  <2> QED BY <1>1, <1>6, <2>2 DEF ManagersTypeOK, RequestOK
<1>7. ASSUME NEW r \in CustomRoles, (\E g \in Grants : CreateRole(r, g)) \/ DeleteRole(r)
      PROVE  ManagersInv'
  BY <1>6, <1>7 DEF CreateRole, DeleteRole, Unused, Grants
<1>8. ASSUME NEW q \in Admins, NEW u \in Users, NEW rs \in SUBSET Roles, NEW fields \in SUBSET {"roles", "active"},
             NEW state \in {"active", "disabled"}, BeginPatch(q, u, fields, rs, state)
      PROVE  ManagersInv'
  <2>1. PICK r : r = [NoPatch EXCEPT !.op = "patch", !.ph = "loaded", !.who = u, !.fields = fields,
                        !.roles = rs, !.give = rs \cap Sources # {},
                        !.active = state, !.was = user[u].state]
    OBVIOUS
  <2>2. r \in AdminRequest /\ RequestOK(r)
    <3>1. user[u].state \in {"active", "disabled"}
      BY <1>1, <1>8 DEF BeginPatch, User
    <3> QED BY <2>1, <3>1, UsersAssumption DEF AdminRequest, RequestOK, NoPatch, Roles, Grants
  <2> QED BY <1>8, <2>1, <2>2, ContinueKeeps DEF BeginPatch
<1>9. ASSUME NEW q \in Admins, CheckPatch(q) \/ CheckEdit(q)
      PROVE  ManagersInv'
  <2>1. PICK r : r = [request[q] EXCEPT !.ph = "allowed"]
    OBVIOUS
  <2>2. request[q].op # "none" /\ (Continues(q, r) \/ Continues(q, NoPatch))
    BY <1>9, <2>1 DEF CheckPatch, CheckEdit, Answered
  <2>3. request[q] \in AdminRequest /\ RequestOK(request[q])
    BY <1>1
  <2>4. r \in AdminRequest /\ RequestOK(r)
    BY <2>1, <2>2, <2>3 DEF AdminRequest, RequestOK
  <2> QED BY <1>9, <2>2, <2>4, ContinueKeeps, RestingRequest DEF NoPatchOK, CheckPatch, CheckEdit
<1>10. ASSUME NEW q \in Admins, Answered(q)
       PROVE  request' \in [Admins -> AdminRequest] /\ \A p \in Admins : RequestOK(request'[p])
  BY <1>1, <1>10, RestingRequest DEF NoPatchOK, Answered, Continues
<1>11. ASSUME NEW q \in Admins, UpdateUser(q)
       PROVE  ManagersInv'
  <2>1. PICK r, state, roles :
           /\ r = request[q]
           /\ state = IF "active" \in r.fields /\ r.active # r.was THEN r.active ELSE user[r.who].state
           /\ roles = IF "roles" \in r.fields THEN r.roles ELSE user[r.who].roles
    OBVIOUS
  <2>2. r \in AdminRequest /\ r.who \in Users /\ user[r.who] \in User
    BY <1>1, <2>1 DEF AdminRequest
  <2>3. [state |-> state, roles |-> roles] \in User
    BY <2>1, <2>2 DEF AdminRequest, User
  <2>4. Answered(q) /\ UNCHANGED <<role, started>>
    BY <1>11 DEF UpdateUser
  <2>5. CASE roles \subseteq Existing
    BY <1>1, <1>3, <1>10, <1>11, <2>1, <2>2, <2>3, <2>4, <2>5, ZenonT(60) DEF UpdateUser
  <2>6. CASE ~(roles \subseteq Existing)
    <3>1. user' = user
      BY <1>11, <2>1, <2>6 DEF UpdateUser
    <3> QED BY <1>1, <1>10, <2>4, <3>1 DEF ManagersTypeOK, Existing, RequestOK
  <2> QED BY <2>5, <2>6
<1>12. ASSUME NEW q \in Admins, NEW s \in CustomRoles, NEW g \in Grants, BeginEdit(q, s, g)
       PROVE  ManagersInv'
  <2>1. PICK r : r = [NoPatch EXCEPT !.op = "edit", !.ph = "loaded", !.what = s, !.grants = g, !.had = role[s]]
    OBVIOUS
  <2>2. role[s] \in Grants /\ role[s] # "absent" /\ g # "absent"
    BY <1>1, <1>12 DEF BeginEdit
  <2>3. r \in AdminRequest /\ RequestOK(r)
    BY <2>1, <2>2, UsersAssumption DEF AdminRequest, RequestOK, NoPatch, Roles, Grants
  <2> QED BY <1>12, <2>1, <2>3, ContinueKeeps DEF BeginEdit
<1>13. ASSUME NEW q \in Admins, UpdateRole(q)
       PROVE  ManagersInv'
  <2>1. PICK r : r = request[q]
    OBVIOUS
  <2>2. r \in AdminRequest /\ r.what \in CustomRoles /\ r.grants # "absent" /\ r.grants \in Grants
    BY <1>1, <1>13, <2>1 DEF UpdateRole, RequestOK, AdminRequest
  <2>3. Answered(q) /\ UNCHANGED <<user, started>> /\ (role' = role \/ role' = [role EXCEPT ![r.what] = r.grants])
    BY <1>13, <2>1 DEF UpdateRole
  <2>4. role' \in [CustomRoles -> Grants] /\ \A s \in CustomRoles : role[s] # "absent" => role'[s] # "absent"
    BY <1>1, <2>2, <2>3
  <2>5. Existing \subseteq Existing'
    BY <2>4 DEF Existing
  <2> QED BY <1>1, <1>10, <2>3, <2>4, <2>5 DEF ManagersTypeOK, RequestOK
<1>14. CASE UNCHANGED managerVars
  BY <1>14 DEF managerVars, ManagersTypeOK, RequestOK, Existing
<1> QED BY <1>4, <1>5, <1>7, <1>8, <1>9, <1>11, <1>12, <1>13, <1>14 DEF ManagersNext

\* The invariant of UserManagers.
LEMMA ManagersInvariant == ManagersSpec => []ManagersInv
<1>1. ManagersInv /\ [ManagersNext]_managerVars => ManagersInv'
  BY ManagersStepKeeps
<1> QED BY <1>1, ManagersStart, PTL DEF ManagersSpec

\* Every grant is of a role that exists, however edits, deletions and patches race.
THEOREM ManagersTypes == ManagersSpec => []ManagersTypeOK
<1>1. ManagersInv => ManagersTypeOK
  BY DEF ManagersInv
<1> QED BY <1>1, ManagersInvariant, PTL

\* Creations and deletions beside the requests take the atom from nobody.
LEMMA CreationsKeepHolders ==
    ASSUME ManagersInv,
           \/ Bootstrap \/ \E u \in Users, rs \in SUBSET Roles : CreateUser(u, rs)
           \/ \E r \in CustomRoles : (\E g \in Grants : CreateRole(r, g)) \/ DeleteRole(r)
    PROVE  /\ Holders \subseteq Holders'
           /\ \A x : HoldersThrough(Sources \ {x}) \subseteq HoldersThrough(Sources \ {x})'
<1>1. /\ user \in [Users -> User] /\ role \in [CustomRoles -> Grants]
      /\ \A u \in Users : user[u].roles \subseteq Existing
  BY DEF ManagersInv, ManagersTypeOK
<1>2. ASSUME NEW u \in Users, user[u].state = "absent", NEW w, user' = [user EXCEPT ![u] = w], role' = role
      PROVE  /\ Holders \subseteq Holders'
           /\ \A x : HoldersThrough(Sources \ {x}) \subseteq HoldersThrough(Sources \ {x})'
  BY <1>1, <1>2 DEF Holders, HoldersThrough, Sources
<1>3. ASSUME NEW r \in CustomRoles, NEW g, user' = user, role' = [role EXCEPT ![r] = g],
             role[r] = "absent" \/ \A u \in Users : r \notin user[u].roles
      PROVE  /\ Holders \subseteq Holders'
           /\ \A x : HoldersThrough(Sources \ {x}) \subseteq HoldersThrough(Sources \ {x})'
  <2>1. \A s \in CustomRoles : s # r => role'[s] = role[s]
    BY <1>1, <1>3
  <2>2. \A u \in Users : r \in user[u].roles => role[r] # "absent"
    BY <1>1, UsersAssumption DEF Existing
  <2>3. \A u \in Users : \A s \in user[u].roles : s \in Sources => s \in Sources'
    BY <1>3, <2>1, <2>2 DEF Sources
  <2> QED BY <1>3, <2>3 DEF Holders, HoldersThrough
<1> QED BY <1>2, <1>3, UsersAssumption DEF Bootstrap, CreateUser, CreateRole, DeleteRole, Unused

\* A request that may take the atom from somebody: a patch, unless it re-activates a user
\* and nothing more, and an edit that takes the atom from a role.  A patch that gives a role
\* with the atom is one, since the role may lose it before the patch is written.
Threat(r) ==
    \/ r.op = "patch" /\ ~(r.fields = {"active"} /\ r.active = "active")
    \/ r.op = "edit" /\ r.had = "manages" /\ r.grants # "manages"

\* One such request is under way at a time.
OneThreat ==
    \A p, q \in Admins : Threat(request[p]) /\ Threat(request[q]) => p = q

KeptInv == SomebodyManagesUsers /\ \A q \in Admins : Threat(request[q]) => OthersHold(request[q])

\* Nobody loses the atom, and no promise is broken.
NobodyLoses ==
    /\ Holders \subseteq Holders'
    /\ \A x : HoldersThrough(Sources \ {x}) \subseteq HoldersThrough(Sources \ {x})'

\* A step by which nobody loses the atom, and which at most ends a request.
LEMMA HarmlessKeeps ==
    ASSUME ManagersInv, KeptInv, NobodyLoses, started => started', started' => started \/ Holders' # {},
           \A q \in Admins : request'[q] \in {request[q], NoPatch}
    PROVE  KeptInv'
<1>1. ~Threat(NoPatch)
  BY DEF Threat, NoPatch
<1>2. SomebodyManagesUsers'
  BY DEF KeptInv, NobodyLoses, SomebodyManagesUsers
<1>3. ASSUME NEW q \in Admins, Threat(request'[q]) PROVE OthersHold(request[q])'
  <2>1. request'[q] = request[q] /\ OthersHold(request[q])
    BY <1>1, <1>3 DEF KeptInv
  <2> QED BY <2>1 DEF OthersHold, NobodyLoses
<1> QED BY <1>2, <1>3 DEF KeptInv

\* A request moves on, and nothing is written.
LEMMA MovesOnKeeps ==
    ASSUME ManagersInv, KeptInv, NEW q \in Admins, NEW r, Continues(q, r), Threat(r) => OthersHold(r),
           UNCHANGED <<user, role, started>>
    PROVE  KeptInv'
<1>1. \A p \in Admins : request'[p] = IF p = q THEN r ELSE request[p]
  BY DEF Continues, ManagersInv, ManagersTypeOK
<1>2. \A p \in Admins : Threat(request'[p]) => OthersHold(request'[p])
  BY <1>1 DEF KeptInv
<1> QED BY <1>2 DEF KeptInv, SomebodyManagesUsers, OthersHold, Holders, HoldersThrough, Sources

\* A request is begun or checked.
LEMMA ChecksKeep ==
    ASSUME ManagersInv, KeptInv, NEW q \in Admins,
           \/ \E u \in Users, rs \in SUBSET Roles, fields \in SUBSET {"roles", "active"},
                 state \in {"active", "disabled"} : BeginPatch(q, u, fields, rs, state)
           \/ \E s \in CustomRoles, g \in Grants : BeginEdit(q, s, g)
           \/ CheckPatch(q) \/ CheckEdit(q)
    PROVE  KeptInv'
<1>1. request[q] \in AdminRequest
  BY DEF ManagersInv, ManagersTypeOK
<1>2. ~Threat(NoPatch)
  BY DEF Threat, NoPatch
<1>3. ASSUME NEW u \in Users, NEW rs, NEW fields, NEW state, BeginPatch(q, u, fields, rs, state)
      PROVE  KeptInv'
  <2>1. PICK r : r = [NoPatch EXCEPT !.op = "patch", !.ph = "loaded", !.who = u, !.fields = fields,
                        !.roles = rs, !.give = rs \cap Sources # {},
                        !.active = state, !.was = user[u].state]
    OBVIOUS
  <2>2. OthersHold(r)
    BY <1>3, <2>1 DEF BeginPatch, OthersHold, NoPatch
  <2> QED BY <1>3, <2>1, <2>2, MovesOnKeeps DEF BeginPatch
<1>4. ASSUME NEW s \in CustomRoles, NEW g \in Grants, BeginEdit(q, s, g)
      PROVE  KeptInv'
  <2>1. PICK r : r = [NoPatch EXCEPT !.op = "edit", !.ph = "loaded", !.what = s, !.grants = g, !.had = role[s]]
    OBVIOUS
  <2>2. OthersHold(r)
    BY <2>1 DEF OthersHold, NoPatch
  <2> QED BY <1>4, <2>1, <2>2, MovesOnKeeps DEF BeginEdit
<1>5. PICK r : r = [request[q] EXCEPT !.ph = "allowed"]
  OBVIOUS
<1>6. r.op = request[q].op /\ r.ph = "allowed" /\ (Threat(r) <=> Threat(request[q]))
      /\ r.who = request[q].who /\ r.what = request[q].what
      /\ r.had = request[q].had /\ r.grants = request[q].grants
  BY <1>1, <1>5 DEF AdminRequest, Threat
<1>7. CASE CheckPatch(q)
  <2>1. Threat(r) => OthersHold(r)
    BY <1>6, <1>7 DEF KeptInv, CheckPatch, OthersHold
  <2> QED BY <1>2, <1>5, <1>7, <2>1, MovesOnKeeps DEF CheckPatch, Answered
<1>8. CASE CheckEdit(q)
  <2>1. ~WouldLoseLastUserManager(request[q]) => OthersHold(r)
    BY <1>6, <1>8 DEF CheckEdit, OthersHold, WouldLoseLastUserManager
  <2> QED BY <1>2, <1>5, <1>8, <2>1, MovesOnKeeps DEF CheckEdit, Answered
<1> QED BY <1>3, <1>4, <1>7, <1>8

\* The request that may take the atom from somebody is written: there is no other, and what
\* its guard has counted stays.
LEMMA ThreatWritten ==
    ASSUME ManagersInv, KeptInv, OneThreat, NEW q \in Admins, Threat(request[q]), Answered(q),
           UNCHANGED started, Holders' # {}
    PROVE  KeptInv'
<1>1. ~Threat(NoPatch)
  BY DEF Threat, NoPatch
<1>2. \A p \in Admins : request'[p] = IF p = q THEN NoPatch ELSE request[p]
  BY DEF Answered, Continues, ManagersInv, ManagersTypeOK
<1>3. \A p \in Admins : ~Threat(request'[p])
  BY <1>1, <1>2 DEF OneThreat
<1> QED BY <1>3 DEF KeptInv, SomebodyManagesUsers

\* A patch is written.
LEMMA PatchesKeep ==
    ASSUME ManagersInv, KeptInv, OneThreat, NEW q \in Admins, UpdateUser(q)
    PROVE  KeptInv'
<1>1. PICK r : r = request[q]
  OBVIOUS
<1>2. /\ r \in AdminRequest /\ user \in [Users -> User]
      /\ r.op = "patch" /\ Answered(q) /\ role' = role /\ started' = started
      /\ \A u \in Users : u # r.who => user'[u] = user[u]
  BY <1>1 DEF ManagersInv, ManagersTypeOK, UpdateUser
<1>3. CASE Threat(r)
  <2>1. Holders \ {r.who} # {}
    BY <1>1, <1>2, <1>3 DEF KeptInv, OthersHold
  <2>2. Holders \ {r.who} \subseteq Holders'
    BY <1>2 DEF Holders, HoldersThrough, Sources
  <2> QED BY <1>1, <1>2, <1>3, <2>1, <2>2, ThreatWritten
<1>4. CASE ~Threat(r)
  <2>1. r.fields = {"active"} /\ r.active = "active" /\ r.who \in Users
    BY <1>2, <1>4 DEF Threat, AdminRequest
  <2>2. \/ user' = user
        \/ \E state \in {"active", user[r.who].state} :
              user' = [user EXCEPT ![r.who] = [state |-> state, roles |-> user[r.who].roles]]
    BY <1>1, <2>1 DEF UpdateUser
  <2>3. \A u \in Users : /\ user'[u].roles = user[u].roles
                         /\ user[u].state = "active" => user'[u].state = "active"
    BY <1>2, <2>1, <2>2
  <2>4. NobodyLoses
    BY <1>2, <2>3 DEF NobodyLoses, Holders, HoldersThrough, Sources
  <2>5. \A p \in Admins : request'[p] \in {request[p], NoPatch}
    BY <1>2 DEF Answered, Continues, ManagersInv, ManagersTypeOK
  <2> QED BY <1>2, <2>4, <2>5, HarmlessKeeps
<1> QED BY <1>3, <1>4

\* An edit of a role is written.
LEMMA EditsKeep ==
    ASSUME ManagersInv, KeptInv, OneThreat, NEW q \in Admins, UpdateRole(q)
    PROVE  KeptInv'
<1>1. PICK r : r = request[q]
  OBVIOUS
<1>2. /\ r \in AdminRequest /\ role \in [CustomRoles -> Grants] /\ started \in BOOLEAN
      /\ r.op = "edit" /\ r.ph = "allowed" /\ r.what \in CustomRoles /\ r.grants # "absent"
      /\ r.had # "manages" /\ r.grants # "manages" => r.had = r.grants
      /\ Answered(q) /\ user' = user /\ started' = started
      /\ role' = role \/ (r.grants # r.had /\ role' = [role EXCEPT ![r.what] = r.grants])
  BY <1>1 DEF ManagersInv, ManagersTypeOK, UpdateRole, RequestOK
<1>3. \A p \in Admins : request'[p] \in {request[p], NoPatch}
  BY <1>2 DEF Answered, Continues, ManagersInv, ManagersTypeOK
<1>4. CASE Threat(r)
  <2>1. HoldersThrough(Sources \ {r.what}) # {}
    BY <1>1, <1>2, <1>4 DEF KeptInv, OthersHold, Threat
  <2>2. Sources \ {r.what} \subseteq Sources'
    BY <1>2 DEF Sources
  <2>3. Holders' # {}
    BY <1>2, <2>1, <2>2 DEF Holders, HoldersThrough
  <2> QED BY <1>1, <1>2, <1>4, <2>3, ThreatWritten
<1>5. CASE ~Threat(r)
  <2>1. role' = role \/ (r.grants = "manages" /\ role' = [role EXCEPT ![r.what] = r.grants])
    BY <1>2, <1>5 DEF Threat
  <2>2. Sources \subseteq Sources'
    BY <1>2, <2>1 DEF Sources
  <2>3. NobodyLoses
    BY <1>2, <2>2 DEF NobodyLoses, Holders, HoldersThrough
  <2> QED BY <1>2, <1>3, <2>3, HarmlessKeeps
<1> QED BY <1>4, <1>5

\* Whatever any number of administrators do at once, and whatever is created and deleted
\* beside them, somebody can manage the users, as long as no two requests that may take
\* the atom from somebody are under way together.
THEOREM OneThreatKeepsManagers ==
    ManagersSpec /\ []OneThreat => []SomebodyManagesUsers
<1>1. ManagersInit => KeptInv
  BY DEF ManagersInit, KeptInv, SomebodyManagesUsers, Threat, NoPatch
<1>2. ManagersInv /\ KeptInv /\ OneThreat /\ [ManagersNext]_managerVars => KeptInv'
  <2> SUFFICES ASSUME ManagersInv, KeptInv, OneThreat, [ManagersNext]_managerVars PROVE KeptInv'
    OBVIOUS
  <2>1. CASE \/ Bootstrap \/ \E u \in Users, rs \in SUBSET Roles : CreateUser(u, rs)
             \/ \E r \in CustomRoles : (\E g \in Grants : CreateRole(r, g)) \/ DeleteRole(r)
    <3>1. NobodyLoses
      BY <2>1, CreationsKeepHolders DEF NobodyLoses
    <3>2. request' = request
      BY <2>1 DEF Bootstrap, CreateUser, CreateRole, DeleteRole
    <3>3. (started => started') /\ (started' => started \/ Holders' # {})
      <4>1. CASE Bootstrap
        BY <4>1, UsersAssumption
           DEF Bootstrap, Holders, HoldersThrough, Sources, ManagersInv, ManagersTypeOK
      <4>2. CASE started' = started
        BY <4>2
      <4> QED BY <2>1, <4>1, <4>2 DEF CreateUser, CreateRole, DeleteRole
    <3> QED BY <3>1, <3>2, <3>3, HarmlessKeeps
  <2>2. CASE \E q \in Admins : UpdateUser(q) \/ UpdateRole(q)
    BY <2>2, PatchesKeep, EditsKeep
  <2>3. ASSUME NEW q \in Admins, NEW u \in Users, NEW rs \in SUBSET Roles, NEW state \in {"active", "disabled"},
               \/ BeginPatch(q, u, {"roles"}, rs, "active")
               \/ BeginPatch(q, u, {"active"}, {}, state)
               \/ BeginPatch(q, u, {"roles", "active"}, rs, state)
        PROVE  KeptInv'
    <3>1. \E ws \in SUBSET Roles, fields \in SUBSET {"roles", "active"}, next \in {"active", "disabled"} :
             BeginPatch(q, u, fields, ws, next)
      BY <2>3
    <3> QED BY <3>1, ChecksKeep
  <2>4. CASE \E q \in Admins : \/ CheckPatch(q) \/ CheckEdit(q)
                               \/ \E s \in CustomRoles, g \in Grants : BeginEdit(q, s, g)
    BY <2>4, ChecksKeep
  <2>5. CASE UNCHANGED managerVars
    BY <2>5, HarmlessKeeps DEF managerVars, NobodyLoses, Holders, HoldersThrough, Sources
  <2> QED BY <2>1, <2>2, <2>3, <2>4, <2>5 DEF ManagersNext
<1>3. KeptInv => SomebodyManagesUsers
  BY DEF KeptInv
<1> QED BY <1>1, <1>2, <1>3, ManagersInvariant, PTL DEF ManagersSpec

\* In particular if there is one administrator, whose requests follow each other.
THEOREM OneAdministratorKeepsManagers ==
    ASSUME NEW Q, Admins = {Q}
    PROVE  ManagersSpec => []SomebodyManagesUsers
<1>1. OneThreat
  BY DEF OneThreat
<1> QED BY <1>1, OneThreatKeepsManagers, PTL

-----------------------------------------------------------------------------
(* The abstract lifecycle of jobs and baselines (JobLifecycle).            *)

\* Rows and baselines are well formed.
LEMMA TypeInvariant == LifecycleSpec => []LifecycleTypeOK
<1>1. LifecycleInit => LifecycleTypeOK
  BY DEF LifecycleInit, LifecycleTypeOK, Statuses
<1>2. LifecycleTypeOK /\ [LifecycleNext]_lifecycleVars => LifecycleTypeOK'
  <2> SUFFICES ASSUME LifecycleTypeOK, [LifecycleNext]_lifecycleVars PROVE LifecycleTypeOK'
    OBVIOUS
  <2> USE DEF LifecycleTypeOK, Statuses, ActiveStatuses
  <2>1. ASSUME NEW j \in Jobs, NEW pr \in Projects, Submit(j, pr) PROVE LifecycleTypeOK'
    BY <2>1 DEF Submit
  <2>2. ASSUME NEW j \in Jobs, Start(j) PROVE LifecycleTypeOK'
    BY <2>2 DEF Start
  <2>3. ASSUME NEW j \in Jobs, Withdraw(j) PROVE LifecycleTypeOK'
    BY <2>3 DEF Withdraw, TerminalStatuses
  <2>4. ASSUME NEW j \in Jobs, NEW s \in TerminalStatuses, Conclude(j, s) PROVE LifecycleTypeOK'
    BY <2>4 DEF Conclude
  <2>5. CASE UNCHANGED lifecycleVars
    BY <2>5 DEF lifecycleVars
  <2> QED BY <2>1, <2>2, <2>3, <2>4, <2>5 DEF LifecycleNext
<1> QED BY <1>1, <1>2, PTL DEF LifecycleSpec

\* A step of the lifecycle keeps every baseline the record of a success.
LEMMA BaselineStep ==
    ASSUME LifecycleTypeOK, BaselineIsASuccess, [LifecycleNext]_lifecycleVars
    PROVE  BaselineIsASuccess'
<1> USE DEF LifecycleTypeOK, BaselineIsASuccess
<1>1. ASSUME NEW j \in Jobs, NEW pr \in Projects, Submit(j, pr) PROVE BaselineIsASuccess'
  BY <1>1 DEF Submit
<1>2. ASSUME NEW j \in Jobs, Start(j) \/ Withdraw(j) PROVE BaselineIsASuccess'
  BY <1>2 DEF Start, Withdraw
<1>3. ASSUME NEW j \in Jobs, NEW s \in TerminalStatuses, Conclude(j, s)
      PROVE  BaselineIsASuccess'
  BY <1>3 DEF Conclude
<1>4. CASE UNCHANGED lifecycleVars
  BY <1>4 DEF lifecycleVars
<1> QED BY <1>1, <1>2, <1>3, <1>4 DEF LifecycleNext

\* A baseline is the record of a success of its own project, and stays one: a
\* job only becomes a baseline in the step that concludes it, from running.
THEOREM BaselinesAreSuccesses == LifecycleSpec => []BaselineIsASuccess
<1>1. LifecycleInit => BaselineIsASuccess
  BY DEF LifecycleInit, BaselineIsASuccess
<1>2. LifecycleTypeOK /\ BaselineIsASuccess /\ [LifecycleNext]_lifecycleVars => BaselineIsASuccess'
  BY BaselineStep
<1> QED BY <1>1, <1>2, TypeInvariant, PTL DEF LifecycleSpec

\* A conclusion is final: nothing rewrites a terminal status.
THEOREM ConclusionsAreFinal == LifecycleSpec => ConclusionIsFinal
<1>1. LifecycleTypeOK /\ [LifecycleNext]_lifecycleVars =>
        [\A j \in Jobs : status[j] \in TerminalStatuses => status'[j] = status[j]]_lifecycleVars
  BY DEF LifecycleTypeOK, LifecycleNext, Submit, Start, Withdraw, Conclude, lifecycleVars, TerminalStatuses
<1> QED BY <1>1, TypeInvariant, PTL DEF LifecycleSpec, ConclusionIsFinal

-----------------------------------------------------------------------------
(* Projects and their workspaces (Projects).                                *)

\* Where a request of each operation can be.
CallPhases ==
    ({"create"} \X {"named", "init", "commit", "sweep"}) \cup ({"delete"} \X {"begun", "locked", "rmtree"})
    \cup ({"upload"} \X {"begun", "streamed"}) \cup {<<"enqueue", "begun">>}
    \cup ({"clear"} \X {"begun", "emptying"})

Call == [op : {"none", "create", "delete", "upload", "enqueue", "clear"},
         project : Projects \cup {NoProject},
         ph : {"idle", "named", "init", "commit", "sweep", "begun", "locked", "rmtree", "streamed", "emptying"}]

\* A request between its LockFor... and the release of the row.
HoldsRow(c) == Is(c, "delete", "locked") \/ Is(c, "clear", "emptying")

\* A creation is alone with its project, whose row is not committed; any other
\* request found the row, which the request that holds it alone can delete.
CallOK(c) ==
    \/ caller[c] = NoCall
    \/ /\ Of(c) \in Projects /\ <<caller[c].op, caller[c].ph>> \in CallPhases
       /\ caller[c].op = "create" =>
            /\ projectRow[Of(c)] \in {"none", "pending", "gone"}
            /\ caller[c].ph = "named" <=> projectRow[Of(c)] = "none"
            /\ caller[c].ph = "sweep" <=> projectRow[Of(c)] = "gone"
            /\ \A d \in Callers : d # c => Of(d) # Of(c)
            /\ caller[c].ph = "commit" => dir[Of(c)] = "ready"
       /\ caller[c].op # "create" => projectRow[Of(c)] \in {"live", "gone"}
       /\ Is(c, "delete", "rmtree") => projectRow[Of(c)] = "gone"
       /\ HoldsRow(c) => InFlight(Of(c)) = {} /\ (projectRow[Of(c)] = "live" => projectLock[Of(c)] = c)

ProjectOK(p) ==
    /\ projectRow[p] = "live" => dir[p] = "ready"
    /\ InFlight(p) # {} => projectRow[p] = "live"
    /\ files[p] => projectRow[p] \in {"live", "gone"}
    /\ files[p] /\ projectRow[p] = "gone" =>
          kept[p] \/ \E c \in Callers : Is(c, "delete", "rmtree") /\ Of(c) = p

RowTypes ==
    /\ LifecycleTypeOK
    /\ projectRow \in [Projects -> {"none", "pending", "live", "gone"}]
    /\ slug \in [Projects -> {"base", "suffixed"}]
    /\ dir \in [Projects -> {"none", "partial", "ready"}]
    /\ files \in [Projects -> BOOLEAN] /\ kept \in [Projects -> BOOLEAN]
    /\ projectLock \in [Projects -> Callers \cup {NoCaller}]

ProjectsInv ==
    /\ RowTypes /\ caller \in [Callers -> Call]
    /\ \A c \in Callers : CallOK(c)
    /\ \A p \in Projects : ProjectOK(p)

\* Nothing is in flight at the start.
LEMMA LifecycleStart == LifecycleInit => LifecycleTypeOK /\ \A p \in Projects : InFlight(p) = {}
BY DEF LifecycleInit, LifecycleTypeOK, InFlight, ActiveStatuses, Statuses

\* The invariant holds at the start.
LEMMA ProjectsStart == ProjectsInit => ProjectsInv
<1> SUFFICES ASSUME ProjectsInit PROVE ProjectsInv
  OBVIOUS
<1>1. LifecycleTypeOK /\ \A p \in Projects : InFlight(p) = {}
  BY LifecycleStart DEF ProjectsInit
<1>2. RowTypes /\ caller \in [Callers -> Call]
  BY <1>1 DEF ProjectsInit, RowTypes, NoCall, Call
<1>3. \A c \in Callers : caller[c] = NoCall
  BY DEF ProjectsInit
<1>4. \A p \in Projects : projectRow[p] = "none" /\ files[p] = FALSE
  BY DEF ProjectsInit
<1> QED BY <1>1, <1>2, <1>3, <1>4 DEF ProjectsInv, CallOK, ProjectOK

\* A step of the request c on the project p: what the other requests and the other
\* projects rely on stays if rows only go, and no job starts on a row that is held.
LEMMA CallStep ==
    ASSUME ProjectsInv, NEW c \in Callers, NEW p \in Projects, NEW s \in Call,
           caller' = [caller EXCEPT ![c] = s], s.project \in {p, NoProject}, RowTypes',
           Of(c) = p \/ projectRow[p] = "live" \/ \A d \in Callers : Of(d) # p,
           \A q \in Projects : q # p =>
              /\ projectRow'[q] = projectRow[q] /\ dir'[q] = dir[q] /\ files'[q] = files[q]
              /\ kept'[q] = kept[q] /\ InFlight(q)' = InFlight(q),
           projectRow[p] = "live" => projectRow'[p] \in {"live", "gone"},
           projectRow[p] = "gone" => projectRow'[p] = "gone",
           InFlight(p) = {} /\ InFlight(p)' # {} => projectRow[p] = "live" /\ projectLock[p] = NoCaller,
           \A q \in Projects, d \in Callers : d # c /\ projectLock[q] = d => projectLock'[q] = d,
           CallOK(c)', ProjectOK(p)',
           Is(c, "delete", "rmtree") => Of(c) = p
    PROVE  ProjectsInv'
<1>1. caller' \in [Callers -> Call] /\ caller'[c] = s
      /\ \A d \in Callers : d # c => caller'[d] = caller[d]
  BY DEF ProjectsInv
<1>2. ASSUME NEW e \in Callers, e # c
      PROVE  CallOK(e)'
  <2>1. caller'[e] = caller[e] /\ CallOK(e)
    BY <1>1, <1>2 DEF ProjectsInv
  <2>2. CASE caller[e] = NoCall
    BY <2>1, <2>2 DEF CallOK
  <2>3. CASE caller[e] # NoCall /\ Of(e) # p
    <3>1. \A d \in Callers : Of(d)' = Of(d) \/ Of(d)' \in {p, NoProject}
      BY <1>1 DEF Of
    <3>2. Of(e) \in Projects /\ Of(e)' = Of(e) /\ (Is(e, "delete", "rmtree")' <=> Is(e, "delete", "rmtree"))
          /\ (HoldsRow(e)' <=> HoldsRow(e))
      BY <2>1, <2>3 DEF CallOK, Of, Is, HoldsRow
    <3> QED BY <1>2, <2>1, <2>3, <3>1, <3>2, ProjectsAssumption DEF CallOK
  <2>4. CASE caller[e] # NoCall /\ Of(e) = p
    <3>1. caller[e].op # "create" /\ projectRow[p] \in {"live", "gone"}
      BY <1>2, <2>1, <2>4 DEF CallOK
    <3>2. Of(e)' = p /\ (Is(e, "delete", "rmtree")' <=> Is(e, "delete", "rmtree")) /\ (HoldsRow(e)' <=> HoldsRow(e))
      BY <2>1, <2>4 DEF Of, Is, HoldsRow
    <3>3. HoldsRow(e) => InFlight(p)' = {} /\ (projectRow'[p] = "live" => projectLock'[p] = e)
      BY <1>2, <2>1, <2>4, <3>1, CallersAssumption DEF CallOK
    <3> QED BY <2>1, <2>4, <3>1, <3>2, <3>3 DEF CallOK
  <2> QED BY <2>2, <2>3, <2>4
<1>3. ASSUME NEW q \in Projects, q # p
      PROVE  ProjectOK(q)'
  <2>1. \A d \in Callers : Is(d, "delete", "rmtree") /\ Of(d) = q => Is(d, "delete", "rmtree")' /\ Of(d)' = q
    BY <1>1, <1>3 DEF Is, Of
  <2> QED BY <1>3, <2>1 DEF ProjectsInv, ProjectOK
<1> QED BY <1>1, <1>2, <1>3 DEF ProjectsInv

\* A step that moves its request, and at most takes or gives up the row.
LEMMA QuietCall ==
    ASSUME ProjectsInv, NEW c \in Callers, NEW p \in Projects, NEW s \in Call,
           caller' = [caller EXCEPT ![c] = s], s.project \in {p, NoProject},
           Of(c) = p \/ projectRow[p] = "live" \/ \A d \in Callers : Of(d) # p,
           UNCHANGED <<projectRow, dirVars, lifecycleVars>>, slug' \in [Projects -> {"base", "suffixed"}],
           projectLock' \in [Projects -> Callers \cup {NoCaller}],
           \A q \in Projects, d \in Callers : d # c /\ projectLock[q] = d => projectLock'[q] = d,
           CallOK(c)', ~Is(c, "delete", "rmtree")
    PROVE  ProjectsInv'
<1>1. RowTypes' /\ \A q \in Projects : InFlight(q)' = InFlight(q)
  BY DEF ProjectsInv, RowTypes, LifecycleTypeOK, lifecycleVars, dirVars, InFlight
<1>2. \A d \in Callers : d # c => caller'[d] = caller[d]
  BY DEF ProjectsInv
<1>3. ProjectOK(p)'
  <2>1. \A d \in Callers : Is(d, "delete", "rmtree") /\ Of(d) = p => Is(d, "delete", "rmtree")' /\ Of(d)' = p
    BY <1>2 DEF Is, Of
  <2> QED BY <1>1, <2>1 DEF ProjectsInv, ProjectOK, dirVars
<1> QED BY <1>1, <1>3, CallStep DEF dirVars

\* What a request that does something knows of its project.
LEMMA CallFacts ==
    ASSUME ProjectsInv, NEW c \in Callers, caller[c].op # "none"
    PROVE  /\ Of(c) \in Projects /\ CallOK(c) /\ ProjectOK(Of(c)) /\ caller[c] # NoCall
           /\ <<caller[c].op, caller[c].ph>> \in CallPhases
<1>1. CallOK(c) /\ caller[c] # NoCall
  BY DEF ProjectsInv, NoCall
<1>2. Of(c) \in Projects /\ <<caller[c].op, caller[c].ph>> \in CallPhases
  BY <1>1 DEF CallOK
<1> QED BY <1>1, <1>2 DEF ProjectsInv

\* A request that goes on to its next phase, and one that is answered.
LEMMA GoesOn ==
    ASSUME ProjectsInv, NEW c \in Callers, caller[c].op # "none", NEW ph, CallGoes(c, ph),
           ph \in {"init", "commit", "sweep", "locked", "rmtree", "streamed", "emptying"}
    PROVE  \E s \in Call :
              /\ s.project = Of(c) /\ caller' = [caller EXCEPT ![c] = s]
              /\ caller'[c].op = caller[c].op /\ caller'[c].ph = ph /\ Of(c)' = Of(c)
              /\ \A d \in Callers : d # c => caller'[d] = caller[d] /\ Of(d)' = Of(d)
<1>1. caller \in [Callers -> Call] /\ caller[c] \in Call
  BY DEF ProjectsInv
<1>2. PICK s : s = [caller[c] EXCEPT !.ph = ph]
  OBVIOUS
<1>3. s \in Call /\ s.project = Of(c) /\ s.op = caller[c].op /\ s.ph = ph
  BY <1>1, <1>2 DEF Call, Of
<1>4. caller' = [caller EXCEPT ![c] = s]
  BY <1>2 DEF CallGoes
<1>5. caller'[c] = s /\ \A d \in Callers : d # c => caller'[d] = caller[d]
  BY <1>1, <1>4
<1> QED BY <1>3, <1>4, <1>5 DEF Of

\* A call that returns leaves nothing behind it.
LEMMA LeavesFacts ==
    ASSUME ProjectsInv, NEW c \in Callers, Leaves(c)
    PROVE  /\ NoCall \in Call /\ NoCall.project = NoProject /\ caller' = [caller EXCEPT ![c] = NoCall]
           /\ CallOK(c)' /\ \A d \in Callers : d # c => caller'[d] = caller[d]
BY DEF ProjectsInv, Leaves, NoCall, Call, CallOK

\* create_project, from its insert to its commit or its sweep, keeps the invariant.
LEMMA CreationKeeps ==
    ASSUME ProjectsInv, NEW c \in Callers,
           \/ InsertProject(c) \/ Initialise(c) \/ CommitProject(c)
           \/ InitFails(c) \/ SweepFailedInit(c) \/ CreateFails(c)
    PROVE  ProjectsInv'
<1> USE DEF ProjectsInv
<1>1. PICK p : p = Of(c)
  OBVIOUS
<1>2. caller[c].op = "create"
  BY DEF InsertProject, Initialise, CommitProject, InitFails, SweepFailedInit, CreateFails, Is
<1>3. /\ p \in Projects /\ ProjectOK(p) /\ CallOK(c) /\ caller[c] # NoCall
      /\ \A d \in Callers : d # c => Of(d) # p
      /\ projectRow[p] \in {"none", "pending", "gone"} /\ ~Is(c, "delete", "rmtree") /\ ~HoldsRow(c)
      /\ caller[c].ph = "named" <=> projectRow[p] = "none"
      /\ caller[c].ph = "sweep" <=> projectRow[p] = "gone"
      /\ caller[c].ph = "commit" => dir[p] = "ready"
  BY <1>1, <1>2, CallFacts DEF CallOK, Is, HoldsRow
<1>4. UNCHANGED <<files, kept, projectLock, lifecycleVars>>
  BY DEF InsertProject, Initialise, CommitProject, InitFails, SweepFailedInit, CreateFails, dirVars
<1>5. \A q \in Projects : InFlight(q)' = InFlight(q)
  BY <1>4 DEF InFlight, lifecycleVars
<1>6. InFlight(p) = {} /\ (projectRow[p] # "gone" => ~files[p])
  BY <1>3 DEF ProjectOK
<1>7. ASSUME NEW s \in Call, caller' = [caller EXCEPT ![c] = s], s.project \in {p, NoProject},
             RowTypes', CallOK(c)',
             projectRow[p] = "gone" => projectRow'[p] = "gone", projectRow'[p] = "live" => dir'[p] = "ready",
             \A q \in Projects : q # p => projectRow'[q] = projectRow[q] /\ dir'[q] = dir[q]
      PROVE  ProjectsInv'
  <2>1. \A d \in Callers : Is(d, "delete", "rmtree") => Is(d, "delete", "rmtree")' /\ Of(d)' = Of(d)
    BY <1>3, <1>7 DEF Is, Of
  <2>2. ProjectOK(p)'
    BY <1>3, <1>4, <1>5, <1>6, <1>7, <2>1 DEF ProjectOK
  <2> QED BY <1>1, <1>3, <1>4, <1>5, <1>6, <1>7, <2>2, CallStep
<1>8. CASE InsertProject(c)
  <2>1. /\ caller[c].ph = "named" /\ CallGoes(c, "init") /\ projectRow' = [projectRow EXCEPT ![p] = "pending"]
        /\ dir' = [dir EXCEPT ![p] = "partial"] /\ slug' \in [Projects -> {"base", "suffixed"}]
    BY <1>1, <1>8 DEF InsertProject, Is, RowTypes
  <2>2. RowTypes' /\ projectRow'[p] = "pending"
        /\ \A q \in Projects : q # p => projectRow'[q] = projectRow[q] /\ dir'[q] = dir[q]
    BY <1>3, <1>4, <2>1 DEF RowTypes, LifecycleTypeOK, lifecycleVars
  <2>3. PICK s \in Call : /\ s.project = p /\ caller' = [caller EXCEPT ![c] = s]
                          /\ caller'[c].op = "create" /\ caller'[c].ph = "init" /\ Of(c)' = p
                          /\ \A d \in Callers : d # c => Of(d)' = Of(d)
    <3>1. "init" \in {"init", "commit", "sweep", "locked", "rmtree", "streamed", "emptying"}
      OBVIOUS
    <3>2. caller[c].op # "none"
      BY <1>2
    <3> QED BY <1>1, <1>2, <2>1, <3>1, <3>2, GoesOn
  <2>4. CallOK(c)'
    BY <1>3, <2>1, <2>2, <2>3 DEF CallOK, CallPhases, Is, HoldsRow
  <2> QED BY <1>3, <1>7, <2>1, <2>2, <2>3, <2>4
<1>9. CASE Initialise(c)
  <2>1. /\ caller[c].ph = "init" /\ CallGoes(c, "commit") /\ projectRow' = projectRow
        /\ dir' = [dir EXCEPT ![p] = "ready"] /\ slug' = slug
    BY <1>1, <1>9 DEF Initialise, Is
  <2>2. RowTypes' /\ dir'[p] = "ready" /\ \A q \in Projects : q # p => dir'[q] = dir[q]
    BY <1>3, <1>4, <2>1 DEF RowTypes, LifecycleTypeOK, lifecycleVars
  <2>3. PICK s \in Call : /\ s.project = p /\ caller' = [caller EXCEPT ![c] = s]
                          /\ caller'[c].op = "create" /\ caller'[c].ph = "commit" /\ Of(c)' = p
                          /\ \A d \in Callers : d # c => Of(d)' = Of(d)
    <3>1. "commit" \in {"init", "commit", "sweep", "locked", "rmtree", "streamed", "emptying"}
      OBVIOUS
    <3>2. caller[c].op # "none"
      BY <1>2
    <3> QED BY <1>1, <1>2, <2>1, <3>1, <3>2, GoesOn
  <2>4. CallOK(c)'
    BY <1>3, <2>1, <2>2, <2>3 DEF CallOK, CallPhases, Is, HoldsRow
  <2> QED BY <1>3, <1>7, <2>1, <2>2, <2>3, <2>4
<1>10. CASE InitFails(c)
  <2>1. /\ caller[c].ph = "init" /\ CallGoes(c, "sweep") /\ projectRow' = [projectRow EXCEPT ![p] = "gone"]
        /\ dir' = dir /\ slug' = slug
    BY <1>1, <1>10 DEF InitFails, Is, dirVars
  <2>2. RowTypes' /\ projectRow'[p] = "gone" /\ \A q \in Projects : q # p => projectRow'[q] = projectRow[q]
    BY <1>3, <1>4, <2>1 DEF RowTypes, LifecycleTypeOK, lifecycleVars
  <2>3. PICK s \in Call : /\ s.project = p /\ caller' = [caller EXCEPT ![c] = s]
                          /\ caller'[c].op = "create" /\ caller'[c].ph = "sweep" /\ Of(c)' = p
                          /\ \A d \in Callers : d # c => Of(d)' = Of(d)
    <3>1. "sweep" \in {"init", "commit", "sweep", "locked", "rmtree", "streamed", "emptying"}
      OBVIOUS
    <3>2. caller[c].op # "none"
      BY <1>2
    <3> QED BY <1>1, <1>2, <2>1, <3>1, <3>2, GoesOn
  <2>4. CallOK(c)'
    BY <1>3, <2>1, <2>2, <2>3 DEF CallOK, CallPhases, Is, HoldsRow
  <2> QED BY <1>3, <1>7, <2>1, <2>2, <2>3, <2>4
<1>11. CASE CommitProject(c) \/ SweepFailedInit(c) \/ CreateFails(c)
  <2>1. Leaves(c) /\ slug' = slug
    BY <1>11 DEF CommitProject, SweepFailedInit, CreateFails
  <2>2. \/ projectRow' = [projectRow EXCEPT ![p] = "live"] /\ dir' = dir /\ dir[p] = "ready"
           /\ projectRow[p] # "gone"
        \/ projectRow' = [projectRow EXCEPT ![p] = "gone"] /\ dir' = dir
        \/ projectRow' = projectRow /\ (dir' = dir \/ dir' = [dir EXCEPT ![p] = "none"])
           /\ projectRow[p] = "gone"
    BY <1>1, <1>3, <1>11 DEF CommitProject, SweepFailedInit, CreateFails, Is, dirVars
  <2>3. RowTypes'
    BY <1>3, <1>4, <2>1, <2>2 DEF RowTypes, LifecycleTypeOK, lifecycleVars
  <2>4. /\ projectRow[p] = "gone" => projectRow'[p] = "gone"
        /\ projectRow'[p] = "live" => dir'[p] = "ready"
        /\ \A q \in Projects : q # p => projectRow'[q] = projectRow[q] /\ dir'[q] = dir[q]
    BY <1>3, <2>2 DEF RowTypes, ProjectOK
  <2> QED BY <1>7, <2>1, <2>3, <2>4, LeavesFacts
<1> QED BY <1>8, <1>9, <1>10, <1>11

\* Requests that only move, take the row or give it up.
LEMMA QuietCallsKeep ==
    ASSUME ProjectsInv, NEW c \in Callers,
           \/ \E p \in Projects : Create(c, p) \/ \E op \in Operations : BeginCall(c, p, op)
           \/ LockForDelete(c) \/ LockForClear(c) \/ Cleared(c)
    PROVE  ProjectsInv'
<1> USE DEF ProjectsInv
<1>1. ASSUME NEW p \in Projects, Create(c, p)
      PROVE  ProjectsInv'
  <2>1. PICK s : s = [op |-> "create", project |-> p, ph |-> "named"]
    OBVIOUS
  <2>2. /\ s \in Call /\ caller' = [caller EXCEPT ![c] = s] /\ caller[c] = NoCall /\ projectRow[p] = "none"
        /\ \A d \in Callers : Of(d) # p
        /\ UNCHANGED <<projectRow, projectLock, dirVars, lifecycleVars>>
    BY <1>1, <2>1 DEF Create, Call, Of
  <2>3. slug' \in [Projects -> {"base", "suffixed"}]
    BY <1>1 DEF Create, RowTypes
  <2>4. caller'[c] = s /\ \A d \in Callers : d # c => Of(d)' = Of(d)
    BY <2>2 DEF Of
  <2>5. CallOK(c)'
    BY <2>1, <2>2, <2>4 DEF CallOK, CallPhases, Of, Is, HoldsRow, dirVars
  <2>6. ~Is(c, "delete", "rmtree")
    BY <2>2 DEF Is, NoCall
  <2> QED BY <2>1, <2>2, <2>3, <2>5, <2>6, QuietCall DEF RowTypes
<1>2. ASSUME NEW p \in Projects, NEW op \in Operations, BeginCall(c, p, op)
      PROVE  ProjectsInv'
  <2>1. PICK s : s = [op |-> op, project |-> p, ph |-> "begun"]
    OBVIOUS
  <2>2. /\ s \in Call /\ caller' = [caller EXCEPT ![c] = s] /\ caller[c] = NoCall /\ projectRow[p] = "live"
        /\ UNCHANGED <<projectRow, slug, projectLock, dirVars, lifecycleVars>>
    BY <1>2, <2>1 DEF BeginCall, Call, Operations
  <2>3. caller'[c] = s
    BY <2>2
  <2>4. CallOK(c)'
    BY <2>1, <2>2, <2>3 DEF CallOK, CallPhases, Of, Is, HoldsRow, Operations
  <2>5. ~Is(c, "delete", "rmtree")
    BY <2>2 DEF Is, NoCall
  <2> QED BY <2>1, <2>2, <2>4, <2>5, QuietCall DEF RowTypes
<1>3. ASSUME LockForDelete(c) \/ LockForClear(c)
      PROVE  ProjectsInv'
  <2>1. PICK p, ph : p = Of(c) /\ ph = IF caller[c].op = "delete" THEN "locked" ELSE "emptying"
    OBVIOUS
  <2>2. /\ caller[c].op \in {"delete", "clear"} /\ caller[c].ph = "begun" /\ projectLock[p] = NoCaller
        /\ UNCHANGED <<projectRow, slug, dirVars, lifecycleVars>>
        /\ \/ Leaves(c) /\ UNCHANGED projectLock
           \/ /\ InFlight(p) = {} /\ CallGoes(c, ph)
              /\ projectLock' = IF projectRow[p] = "live" THEN [projectLock EXCEPT ![p] = c] ELSE projectLock
    BY <1>3, <2>1 DEF LockForDelete, LockForClear, Is, Unlocked
  <2>3. p \in Projects /\ CallOK(c) /\ ~Is(c, "delete", "rmtree") /\ projectRow[p] \in {"live", "gone"}
    BY <2>1, <2>2, CallFacts DEF CallOK, Is
  <2>4. /\ projectLock' \in [Projects -> Callers \cup {NoCaller}]
        /\ \A q \in Projects, d \in Callers : d # c /\ projectLock[q] = d => projectLock'[q] = d
        /\ InFlight(p)' = InFlight(p)
    BY <2>2, <2>3, CallersAssumption DEF RowTypes, InFlight, lifecycleVars
  <2>5. CASE Leaves(c)
    BY <2>1, <2>2, <2>3, <2>4, <2>5, LeavesFacts, QuietCall DEF RowTypes
  <2>6. CASE ~Leaves(c)
    <3>1. projectRow[p] = "live" => projectLock'[p] = c
      BY <2>2, <2>3, <2>6 DEF RowTypes
    <3>2. InFlight(p) = {} /\ CallGoes(c, ph) /\ caller[c].op # "none" /\ ph \in {"locked", "emptying"}
      BY <2>1, <2>2, <2>6
    <3>4. PICK s \in Call : /\ s.project = p /\ caller' = [caller EXCEPT ![c] = s]
                          /\ caller'[c].op = caller[c].op /\ caller'[c].ph = ph /\ Of(c)' = p
      BY <2>1, <3>2, GoesOn
    <3>3. CallOK(c)'
      BY <2>1, <2>2, <2>3, <2>4, <3>1, <3>2, <3>4 DEF CallOK, CallPhases, Is, HoldsRow
    <3>5. Of(c) = p /\ slug' \in [Projects -> {"base", "suffixed"}]
      BY <2>1, <2>2 DEF RowTypes
    <3> QED BY <2>2, <2>3, <2>4, <3>3, <3>4, <3>5, QuietCall
  <2> QED BY <2>5, <2>6
<1>4. ASSUME Cleared(c)
      PROVE  ProjectsInv'
  <2>1. PICK p : p = Of(c)
    OBVIOUS
  <2>2. /\ caller[c].op = "clear" /\ Leaves(c) /\ projectLock' = Released(c)
        /\ UNCHANGED <<projectRow, slug, dirVars, lifecycleVars>>
    BY <1>4 DEF Cleared, Is
  <2>3. p \in Projects /\ ~Is(c, "delete", "rmtree")
    BY <2>1, <2>2, CallFacts DEF Is
  <2>4. /\ projectLock' \in [Projects -> Callers \cup {NoCaller}]
        /\ \A q \in Projects, d \in Callers : d # c /\ projectLock[q] = d => projectLock'[q] = d
    BY <2>2 DEF RowTypes, Released
  <2> QED BY <2>1, <2>2, <2>3, <2>4, LeavesFacts, QuietCall DEF RowTypes
<1> QED BY <1>1, <1>2, <1>3, <1>4

\* The deletion takes the row with its jobs, and the tree goes or is remembered.
LEMMA DeletionKeeps ==
    ASSUME ProjectsInv, NEW c \in Callers, CommitDelete(c) \/ RemoveTree(c)
    PROVE  ProjectsInv'
<1> USE DEF ProjectsInv
<1>1. PICK p : p = Of(c)
  OBVIOUS
<1>2. caller[c].op = "delete" /\ p \in Projects /\ ProjectOK(p) /\ CallOK(c) /\ caller[c] # NoCall
  BY <1>1, CallFacts DEF CommitDelete, RemoveTree, Is
<1>3. CASE CommitDelete(c)
  <2>1. /\ caller[c].ph = "locked" /\ projectRow' = [projectRow EXCEPT ![p] = "gone"]
        /\ baseline' = [baseline EXCEPT ![p] = NoJob]
        /\ status' = [j \in Jobs |-> IF owner[j] = p THEN "absent" ELSE status[j]]
        /\ owner' = [j \in Jobs |-> IF owner[j] = p THEN NoProject ELSE owner[j]]
        /\ projectLock' = Released(c) /\ CallGoes(c, "rmtree") /\ UNCHANGED <<slug, dirVars>>
    BY <1>1, <1>3 DEF CommitDelete, Is
  <2>2. PICK s \in Call : /\ s.project = p /\ caller' = [caller EXCEPT ![c] = s]
                          /\ caller'[c].op = "delete" /\ caller'[c].ph = "rmtree" /\ Of(c)' = p
    BY <1>1, <1>2, <2>1, GoesOn
  <2>3. /\ projectRow'[p] = "gone"
        /\ \A q \in Projects : q # p => projectRow'[q] = projectRow[q]
        /\ projectRow' \in [Projects -> {"none", "pending", "live", "gone"}]
        /\ projectLock' \in [Projects -> Callers \cup {NoCaller}]
        /\ \A q \in Projects, d \in Callers : d # c /\ projectLock[q] = d => projectLock'[q] = d
    BY <1>2, <2>1 DEF RowTypes, Released
  <2>4. LifecycleTypeOK'
    BY <1>2, <2>1 DEF RowTypes, LifecycleTypeOK, Statuses
  <2>5. RowTypes'
    BY <2>1, <2>3, <2>4 DEF RowTypes, dirVars
  <2>6. \A q \in Projects : IF q = p THEN InFlight(q)' = {} ELSE InFlight(q)' = InFlight(q)
    BY <2>1, ProjectsAssumption DEF InFlight, ActiveStatuses
  <2>7. CallOK(c)'
    BY <1>2, <2>2, <2>3 DEF CallOK, CallPhases, Is, HoldsRow
  <2>8. ProjectOK(p)'
    BY <1>2, <2>2, <2>3, <2>6 DEF ProjectOK, Is
  <2>9. ~Is(c, "delete", "rmtree")
    BY <2>1 DEF Is
  <2> QED BY <1>1, <1>2, <2>1, <2>2, <2>3, <2>5, <2>6, <2>7, <2>8, <2>9, CallStep DEF dirVars
<1>4. CASE RemoveTree(c)
  <2>1. /\ caller[c].ph = "rmtree" /\ Leaves(c) /\ UNCHANGED <<projectRow, slug, projectLock, lifecycleVars>>
        /\ \/ dir' = [dir EXCEPT ![p] = "none"] /\ files' = [files EXCEPT ![p] = FALSE] /\ kept' = kept
           \/ dir' = [dir EXCEPT ![p] = "partial"] /\ kept' = [kept EXCEPT ![p] = TRUE] /\ files' = files
    BY <1>1, <1>4 DEF RemoveTree, Is
  <2>2. projectRow[p] = "gone"
    BY <1>1, <1>2, <2>1 DEF CallOK, Is
  <2>3. RowTypes' /\ \A q \in Projects : q # p => dir'[q] = dir[q] /\ files'[q] = files[q] /\ kept'[q] = kept[q]
    BY <1>2, <2>1 DEF RowTypes, LifecycleTypeOK, lifecycleVars
  <2>4. files'[p] = FALSE \/ kept'[p] = TRUE
    BY <1>2, <2>1 DEF RowTypes
  <2>5. \A q \in Projects : InFlight(q)' = InFlight(q)
    BY <2>1 DEF InFlight, lifecycleVars
  <2>6. ProjectOK(p)'
    BY <1>2, <2>1, <2>2, <2>4, <2>5 DEF ProjectOK
  <2> QED BY <1>1, <1>2, <2>1, <2>2, <2>3, <2>5, <2>6, LeavesFacts, CallStep
<1> QED BY <1>3, <1>4

\* Uploads, and the enqueue that finds the row.
LEMMA UploadAndEnqueueKeep ==
    ASSUME ProjectsInv, NEW c \in Callers, Stream(c) \/ CommitUpload(c) \/ Enqueue(c)
    PROVE  ProjectsInv'
<1> USE DEF ProjectsInv
<1>1. PICK p : p = Of(c)
  OBVIOUS
<1>2. /\ caller[c].op \in {"upload", "enqueue"} /\ p \in Projects /\ ProjectOK(p) /\ CallOK(c)
      /\ caller[c] # NoCall /\ projectRow[p] \in {"live", "gone"} /\ ~Is(c, "delete", "rmtree")
  <2>1. caller[c].op \in {"upload", "enqueue"}
    BY DEF Stream, CommitUpload, Enqueue, Is
  <2> QED BY <1>1, <2>1, CallFacts DEF CallOK, Is
<1>3. UNCHANGED <<projectRow, slug, projectLock, kept>>
  BY DEF Stream, CommitUpload, Enqueue, dirVars
<1>4. \A d \in Callers : Is(d, "delete", "rmtree") => d # c
  BY <1>2
<1>5. CASE Stream(c)
  <2>1. /\ caller[c].op = "upload" /\ CallGoes(c, "streamed") /\ UNCHANGED <<files, lifecycleVars>>
        /\ dir' = [dir EXCEPT ![p] = IF @ = "none" THEN "partial" ELSE @]
    BY <1>1, <1>5 DEF Stream, Is
  <2>2. PICK s \in Call : /\ s.project = p /\ caller' = [caller EXCEPT ![c] = s]
                          /\ caller'[c].op = "upload" /\ caller'[c].ph = "streamed" /\ Of(c)' = p
                          /\ \A d \in Callers : d # c => caller'[d] = caller[d] /\ Of(d)' = Of(d)
    BY <1>1, <2>1, GoesOn
  <2>3. /\ RowTypes' /\ (dir[p] = "ready" => dir'[p] = "ready")
        /\ \A q \in Projects : q # p => dir'[q] = dir[q]
    BY <1>2, <1>3, <2>1 DEF RowTypes, LifecycleTypeOK, lifecycleVars
  <2>4. \A q \in Projects : InFlight(q)' = InFlight(q)
    BY <2>1 DEF InFlight, lifecycleVars
  <2>5. CallOK(c)'
    BY <1>2, <1>3, <2>2 DEF CallOK, CallPhases, Is, HoldsRow
  <2>6. ProjectOK(p)'
    BY <1>2, <1>3, <1>4, <2>1, <2>2, <2>3, <2>4 DEF ProjectOK, Is
  <2> QED BY <1>1, <1>2, <1>3, <2>1, <2>2, <2>3, <2>4, <2>5, <2>6, CallStep
<1>6. CASE CommitUpload(c)
  <2>1. /\ Leaves(c) /\ UNCHANGED <<dir, lifecycleVars>>
        /\ files' = files \/ files' = [files EXCEPT ![p] = @ \/ Renames(p)]
    BY <1>1, <1>6 DEF CommitUpload
  <2>2. Renames(p) \in BOOLEAN /\ (Renames(p) => projectRow[p] = "live")
    BY DEF Renames
  <2>3. RowTypes' /\ \A q \in Projects : q # p => files'[q] = files[q]
    BY <1>2, <1>3, <2>1, <2>2 DEF RowTypes, LifecycleTypeOK, lifecycleVars
  <2>4. files'[p] => files[p] \/ projectRow[p] = "live"
    BY <1>2, <2>1, <2>2 DEF RowTypes
  <2>5. \A q \in Projects : InFlight(q)' = InFlight(q)
    BY <2>1 DEF InFlight, lifecycleVars
  <2>6. ProjectOK(p)'
    <3>1. \A d \in Callers : Is(d, "delete", "rmtree") /\ Of(d) = p => Is(d, "delete", "rmtree")' /\ Of(d)' = p
      BY <1>4, <2>1, LeavesFacts DEF Is, Of
    <3> QED BY <1>2, <1>3, <2>1, <2>4, <2>5, <3>1 DEF ProjectOK
  <2> QED BY <1>1, <1>2, <1>3, <2>1, <2>3, <2>5, <2>6, LeavesFacts, CallStep
<1>7. CASE Enqueue(c)
  <2>1. /\ Leaves(c) /\ UNCHANGED dirVars /\ projectLock[p] = NoCaller
        /\ \/ projectRow[p] = "live" /\ \E j \in Jobs : Submit(j, p)
           \/ UNCHANGED lifecycleVars
    BY <1>1, <1>7 DEF Enqueue, Unlocked
  <2>2. LifecycleTypeOK' /\ \A q \in Projects : q # p => InFlight(q)' = InFlight(q)
    <3>1. CASE UNCHANGED lifecycleVars
      BY <3>1 DEF RowTypes, LifecycleTypeOK, lifecycleVars, InFlight
    <3>2. ASSUME NEW j \in Jobs, Submit(j, p)
          PROVE  LifecycleTypeOK' /\ \A q \in Projects : q # p => InFlight(q)' = InFlight(q)
      <4>1. /\ \A i \in Jobs : i # j => status'[i] = status[i] /\ owner'[i] = owner[i]
            /\ status[j] = "absent" /\ owner'[j] = p
        BY <3>2 DEF RowTypes, LifecycleTypeOK, Submit
      <4>2. \A q \in Projects : q # p => InFlight(q)' = InFlight(q)
        BY <4>1 DEF InFlight, ActiveStatuses
      <4> QED BY <1>2, <3>2, <4>2 DEF Submit, RowTypes, LifecycleTypeOK, Statuses, ActiveStatuses
    <3> QED BY <2>1, <3>1, <3>2
  <2>3. InFlight(p)' # {} => InFlight(p) # {} \/ projectRow[p] = "live"
    BY <2>1 DEF InFlight, lifecycleVars
  <2>4. RowTypes'
    BY <1>3, <2>1, <2>2 DEF RowTypes, dirVars
  <2>5. ProjectOK(p)'
    <3>1. \A d \in Callers : Is(d, "delete", "rmtree") /\ Of(d) = p => Is(d, "delete", "rmtree")' /\ Of(d)' = p
      BY <1>4, <2>1, LeavesFacts DEF Is, Of
    <3> QED BY <1>2, <1>3, <2>1, <2>3, <3>1 DEF ProjectOK, dirVars
  <2> QED BY <1>1, <1>2, <1>3, <2>1, <2>2, <2>3, <2>4, <2>5, LeavesFacts, CallStep DEF dirVars, ProjectOK
<1> QED BY <1>5, <1>6, <1>7

\* Every step of the calls and of the jobs keeps the invariant.
LEMMA ProjectsStepKeeps ==
    ASSUME ProjectsInv, [ProjectsNext]_projectVars
    PROVE  ProjectsInv'
<1> USE DEF ProjectsInv
<1>1. CASE Crash
  <2>1. /\ \A p \in Projects : projectRow'[p] = IF projectRow[p] = "pending" THEN "gone" ELSE projectRow[p]
        /\ \A p \in Projects : kept'[p] = (kept[p] \/ \E c \in Callers : Is(c, "delete", "rmtree") /\ Of(c) = p)
        /\ \A c \in Callers : caller'[c] = NoCall
        /\ UNCHANGED <<slug, dir, files, lifecycleVars>>
    BY <1>1 DEF Crash
  <2>2. RowTypes'
    <3>1. projectRow' \in [Projects -> {"none", "pending", "live", "gone"}] /\ kept' \in [Projects -> BOOLEAN]
          /\ projectLock' \in [Projects -> Callers \cup {NoCaller}]
      BY <1>1 DEF Crash, RowTypes
    <3> QED BY <2>1, <3>1 DEF RowTypes, LifecycleTypeOK, lifecycleVars
  <2>3. caller' \in [Callers -> Call]
    BY <1>1 DEF Crash, NoCall, Call
  <2>4. \A c \in Callers : CallOK(c)'
    BY <2>1 DEF CallOK
  <2>5. \A p \in Projects : InFlight(p)' = InFlight(p)
    BY <2>1 DEF InFlight, lifecycleVars
  <2>6. ASSUME NEW p \in Projects
        PROVE  ProjectOK(p)'
    BY <2>1, <2>5 DEF ProjectOK
  <2> QED BY <2>2, <2>3, <2>4, <2>6
<1>2. CASE RunJobs
  <2>1. PICK j \in Jobs : Start(j) \/ Withdraw(j) \/ \E t \in TerminalStatuses : Conclude(j, t)
    BY <1>2 DEF RunJobs
  <2>2. UNCHANGED <<projectRow, slug, projectLock, caller, dirVars>>
    BY <1>2 DEF RunJobs
  <2>3. LifecycleTypeOK'
    BY <2>1 DEF RowTypes, LifecycleTypeOK, Start, Withdraw, Conclude, Statuses, ActiveStatuses, TerminalStatuses
  <2>4. /\ owner' = owner /\ status[j] \in ActiveStatuses
        /\ \A i \in Jobs : i # j => status'[i] = status[i]
    BY <2>1 DEF RowTypes, LifecycleTypeOK, Start, Withdraw, Conclude, ActiveStatuses
  <2>5. \A p \in Projects : InFlight(p) = {} => InFlight(p)' = {}
    BY <2>4 DEF InFlight
  <2>6. RowTypes' /\ caller' = caller /\ dir' = dir /\ files' = files /\ kept' = kept
    BY <2>2, <2>3 DEF RowTypes, dirVars
  <2>7. \A c \in Callers : CallOK(c)'
    <3>1. \A c \in Callers : Of(c)' = Of(c) /\ (HoldsRow(c)' <=> HoldsRow(c))
                             /\ (Is(c, "delete", "rmtree")' <=> Is(c, "delete", "rmtree"))
      BY <2>6 DEF Of, HoldsRow, Is
    <3> QED BY <2>2, <2>5, <2>6, <3>1 DEF CallOK
  <2>8. \A p \in Projects : ProjectOK(p)'
    BY <2>2, <2>5, <2>6 DEF ProjectOK, Is, Of
  <2> QED BY <2>6, <2>7, <2>8
<1>3. CASE UNCHANGED projectVars
  BY <1>3 DEF projectVars, lifecycleVars, RowTypes, LifecycleTypeOK, CallOK, ProjectOK, HoldsRow, Is, Of, InFlight
<1> QED BY <1>1, <1>2, <1>3, CreationKeeps, QuietCallsKeep, DeletionKeeps, UploadAndEnqueueKeep
     DEF ProjectsNext

\* The invariant of Projects.
LEMMA ProjectsInvariant == ProjectsSpec => []ProjectsInv
<1>1. ProjectsInv /\ [ProjectsNext]_projectVars => ProjectsInv'
  BY ProjectsStepKeeps
<1> QED BY <1>1, ProjectsStart, PTL DEF ProjectsSpec

\* The rows, directories and locks of the projects are such as they can be.
THEOREM ProjectsTypes == ProjectsSpec => []ProjectsTypeOK
<1>1. ProjectsInv => ProjectsTypeOK
  BY DEF ProjectsInv, RowTypes, ProjectsTypeOK, Call
<1> QED BY <1>1, ProjectsInvariant, PTL

\* A project that can be seen has its workspace, a job in flight has its project and
\* its cache, and a user's files outlive their project only under a removal.
THEOREM WorkspacesFollow == ProjectsSpec => []WorkspacesFollowTheRows
<1>1. ASSUME ProjectsInv PROVE WorkspacesFollowTheRows
  <2>1. ASSUME NEW p \in Projects, InFlight(p) # {}, NEW c \in Callers, Of(c) = p
        PROVE  caller[c].ph # "emptying"
    <3>1. CallOK(c) /\ (caller[c] # NoCall => <<caller[c].op, caller[c].ph>> \in CallPhases)
      BY <1>1 DEF ProjectsInv, CallOK
    <3>2. caller[c].ph = "emptying" => caller[c] # NoCall
      BY DEF NoCall
    <3> QED BY <2>1, <3>1, <3>2 DEF CallOK, CallPhases, HoldsRow, Is
  <2> QED BY <1>1, <2>1 DEF ProjectsInv, ProjectOK, WorkspacesFollowTheRows
<1> QED BY <1>1, ProjectsInvariant, PTL

\* delete_project takes the rows of a project and its baseline, and nothing of it is
\* under way.
Forgets(pr) ==
    /\ InFlight(pr) = {}
    /\ status' = [j \in Jobs |-> IF owner[j] = pr THEN "absent" ELSE status[j]]
    /\ owner' = [j \in Jobs |-> IF owner[j] = pr THEN NoProject ELSE owner[j]]
    /\ baseline' = [baseline EXCEPT ![pr] = NoJob]

\* A step of the calls is a step of the lifecycle or a deletion.
LEMMA ProjectsStepIs ==
    ASSUME ProjectsInv, [ProjectsNext]_projectVars
    PROVE  [LifecycleNext \/ \E pr \in Projects : Forgets(pr)]_lifecycleVars
<1>1. CASE RunJobs
  BY <1>1 DEF RunJobs, LifecycleNext
<1>2. ASSUME NEW c \in Callers, Enqueue(c)
      PROVE  LifecycleNext \/ UNCHANGED lifecycleVars
  <2>1. Of(c) \in Projects
    BY <1>2, CallFacts DEF Enqueue, Is
  <2> QED BY <1>2, <2>1 DEF Enqueue, LifecycleNext
<1>3. ASSUME NEW c \in Callers, CommitDelete(c)
      PROVE  Forgets(Of(c)) /\ Of(c) \in Projects
  <2>1. Is(c, "delete", "locked")
    BY <1>3 DEF CommitDelete
  <2>2. Of(c) \in Projects /\ CallOK(c) /\ caller[c] # NoCall
    BY <2>1, CallFacts DEF Is
  <2>3. InFlight(Of(c)) = {}
    BY <2>1, <2>2 DEF CallOK, HoldsRow
  <2> QED BY <1>3, <2>2, <2>3 DEF CommitDelete, Forgets
<1>4. CASE \/ Crash \/ \E c \in Callers, p \in Projects : Create(c, p) \/ \E op \in Operations : BeginCall(c, p, op)
  BY <1>4 DEF Crash, Create, BeginCall
<1>5. ASSUME NEW c \in Callers,
             \/ InsertProject(c) \/ Initialise(c) \/ CommitProject(c)
             \/ InitFails(c) \/ SweepFailedInit(c) \/ CreateFails(c)
             \/ LockForDelete(c) \/ RemoveTree(c)
             \/ Stream(c) \/ CommitUpload(c) \/ LockForClear(c) \/ Cleared(c)
      PROVE  UNCHANGED lifecycleVars
  BY <1>5 DEF InsertProject, Initialise, CommitProject, InitFails, SweepFailedInit, CreateFails,
              LockForDelete, RemoveTree, Stream, CommitUpload, LockForClear, Cleared
<1>6. CASE UNCHANGED projectVars
  BY <1>6 DEF projectVars
<1> QED BY <1>1, <1>2, <1>3, <1>4, <1>5, <1>6 DEF ProjectsNext

\* With projects that come and go, the rows of the jobs follow the lifecycle but for
\* deletions, and a deletion takes no row of a job that is queued or running.
THEOREM DeletionsTakeNoActiveJob ==
    ProjectsSpec => LifecycleInit /\ [][LifecycleNext \/ \E pr \in Projects : Forgets(pr)]_lifecycleVars
<1>1. ProjectsInit => LifecycleInit
  BY DEF ProjectsInit
<1>2. ProjectsInv /\ [ProjectsNext]_projectVars => [LifecycleNext \/ \E pr \in Projects : Forgets(pr)]_lifecycleVars
  BY ProjectsStepIs
<1> QED BY <1>1, <1>2, ProjectsInvariant, PTL DEF ProjectsSpec

\* And a baseline stays the record of a success of its own project, whichever other
\* projects are deleted.
THEOREM DeletionsKeepBaselines == ProjectsSpec => []BaselineIsASuccess
<1>1. ProjectsInit => BaselineIsASuccess
  BY DEF ProjectsInit, LifecycleInit, BaselineIsASuccess
<1>2. ProjectsInv /\ BaselineIsASuccess /\ [ProjectsNext]_projectVars => BaselineIsASuccess'
  <2> SUFFICES ASSUME ProjectsInv, BaselineIsASuccess, [ProjectsNext]_projectVars PROVE BaselineIsASuccess'
    OBVIOUS
  <2>1. LifecycleTypeOK
    BY DEF ProjectsInv, RowTypes
  <2>2. CASE [LifecycleNext]_lifecycleVars
    BY <2>1, <2>2, BaselineStep
  <2>3. ASSUME NEW pr \in Projects, Forgets(pr) PROVE BaselineIsASuccess'
    BY <2>1, <2>3 DEF Forgets, BaselineIsASuccess, LifecycleTypeOK
  <2> QED BY <2>2, <2>3, ProjectsStepIs
<1> QED BY <1>1, <1>2, ProjectsInvariant, PTL DEF ProjectsSpec

-----------------------------------------------------------------------------
(* The log of a job and its viewer (LogTail).                               *)

\* The log is characters one after the other: a byte continues one exactly if it
\* is within the width of a byte before it.
LogOK == \A k \in 1..Len(log) : log[k] = 0 <=> \E l \in 1..(k - 1) : l + log[l] > k

\* No character begins before p and ends after it.
Clean(p) == \A l \in 1..p : l + log[l] <= p + 1

\* The bytes of the log.
LEMMA BytesAre ==
    ASSUME TailTypeOK
    PROVE  /\ Len(log) \in Nat /\ \A k \in 1..Len(log) : log[k] \in 0..4
           /\ ChunkBytes \in Nat /\ ChunkBytes >= 4 /\ MaxLog \in Nat
           /\ DOMAIN log = 1..Len(log)
<1>1. log \in Seq(Bytes) /\ \A b \in Bytes : b \in 0..4
  BY ChunkAssumption DEF TailTypeOK, Bytes
<1> QED BY <1>1, ChunkAssumption

\* The test of the property and that of the invariant are of the same places.
LEMMA BoundaryIsClean ==
    ASSUME TailTypeOK, LogOK, NEW p \in 0..Len(log)
    PROVE  Boundary(p) <=> Clean(p)
<1>1. CASE p = Len(log)
  <2>1. \A k \in 1..Len(log) : log[k] # 0 /\ k + log[k] - 1 > Len(log) <=> k + log[k] > Len(log) + 1
    BY BytesAre
  <2>2. Due(log) = {} <=> \A k \in 1..Len(log) : ~(log[k] # 0 /\ k + log[k] - 1 > Len(log))
    BY BytesAre DEF Due
  <2>3. Boundary(p) <=> Due(log) = {}
    BY <1>1 DEF Boundary
  <2> QED BY <1>1, <2>1, <2>2, <2>3, BytesAre, SMTT(40) DEF Clean
<1>2. CASE p # Len(log)
  <2>0. PICK n \in Nat : n = Len(log) /\ \A k \in 1..n : log[k] \in 0..4
    BY BytesAre
  <2>1. p \in 0..n /\ p + 1 \in 1..n /\ (p + 1) - 1 = p
    BY <1>2, <2>0
  <2>2. log[p + 1] # 0 <=> \A l \in 1..p : ~(l + log[l] > p + 1)
    BY <2>0, <2>1 DEF LogOK
  <2>3. \A l \in 1..p : log[l] \in 0..4 /\ (~(l + log[l] > p + 1) <=> l + log[l] <= p + 1)
    BY <2>0, <2>1
  <2> QED BY <1>2, <2>2, <2>3 DEF Clean, Boundary
<1> QED BY <1>1, <1>2

\* _read: the bytes from pos on, as many as a chunk holds.
LEMMA ChunkIs ==
    ASSUME TailTypeOK, logKept, NEW pos \in 0..Len(log)
    PROVE  /\ ReadAt(pos) \in Seq(Bytes) /\ pos + Len(ReadAt(pos)) <= Len(log)
           /\ \A i \in 1..Len(ReadAt(pos)) : ReadAt(pos)[i] = log[pos + i]
           /\ pos < Len(log) => Len(ReadAt(pos)) > 0
           /\ ReadAt(pos) = <<>> <=> Len(ReadAt(pos)) = 0
<1> DEFINE e == IF pos + ChunkBytes < Len(log) THEN pos + ChunkBytes ELSE Len(log)
<1>1. /\ log \in Seq(Bytes) /\ e \in pos..Len(log) /\ (pos < Len(log) => e > pos)
      /\ ReadAt(pos) = SubSeq(log, pos + 1, e)
  <2>1. PICK L \in Nat, C \in Nat : L = Len(log) /\ C = ChunkBytes /\ C >= 4 /\ log \in Seq(Bytes) /\ pos \in 0..L
    BY BytesAre DEF TailTypeOK
  <2>2. e = IF pos + C < L THEN pos + C ELSE L
    BY <2>1
  <2>3. e \in pos..L /\ (pos < L => e > pos)
    BY <2>1, <2>2
  <2>4. ReadAt(pos) = SubSeq(log, pos + 1, e)
    BY DEF ReadAt
  <2> HIDE DEF e
  <2> QED BY <2>1, <2>3, <2>4
<1> HIDE DEF e
<1>2. Len(log) \in Nat
  BY BytesAre
<1> QED BY <1>1, <1>2

\* The last byte but 0 among the last four of a chunk, if there is one.
LEMMA LeastOfFour ==
    ASSUME NEW S \in SUBSET (1..4), S # {}
    PROVE  \E b \in S : \A c \in S : b <= c
<1>1. CASE 1 \in S
  BY <1>1
<1>2. CASE 1 \notin S /\ 2 \in S
  BY <1>2
<1>3. CASE 1 \notin S /\ 2 \notin S /\ 3 \in S
  BY <1>3
<1>4. CASE 1 \notin S /\ 2 \notin S /\ 3 \notin S
  <2>1. PICK b \in S : b \in 1..4
    OBVIOUS
  <2>2. \A c \in S : c \in 1..4 /\ c # 1 /\ c # 2 /\ c # 3
    BY <1>4
  <2>3. \A c \in S : b <= c
    BY <2>1, <2>2
  <2> QED BY <2>1, <2>3
<1> QED BY <1>1, <1>2, <1>3, <1>4

\* _complete_utf8 and tail_log: what is passed on of a chunk that begins at a
\* boundary ends at one while the job may write, and something is passed on at last.
LEMMA CutIsClean ==
    ASSUME TailTypeOK, LogOK, logKept, NEW pos \in 0..Len(log), NEW d \in BOOLEAN
    PROVE  /\ Cut(ReadAt(pos), d) \in 0..Len(ReadAt(pos))
           /\ d /\ Cut(ReadAt(pos), d) = 0 => pos = Len(log)
           /\ Clean(pos) /\ ~d => Clean(pos + Cut(ReadAt(pos), d))
<1>0. PICK n, chunk :
         /\ n \in Nat /\ n = Len(log) /\ chunk = ReadAt(pos)
         /\ \A k \in 1..n : log[k] \in 0..4
  BY BytesAre
<1>1. PICK c \in Nat : /\ c = Len(chunk) /\ pos + c <= n /\ (pos < n => c > 0) /\ (chunk = <<>> <=> c = 0)
                       /\ \A i \in 1..c : chunk[i] = log[pos + i]
  <2>1. Len(ReadAt(pos)) \in Nat
    BY ChunkIs
  <2>2. \A i \in 1..Len(ReadAt(pos)) : ReadAt(pos)[i] = log[pos + i]
    BY ChunkIs
  <2>3. /\ pos + Len(ReadAt(pos)) <= Len(log)
        /\ pos < Len(log) => Len(ReadAt(pos)) > 0
        /\ ReadAt(pos) = <<>> <=> Len(ReadAt(pos)) = 0
    BY ChunkIs
  <2> QED BY <1>0, <2>1, <2>2, <2>3
<1>b. \A b \in 1..4 : b <= c => chunk[c - b + 1] = log[pos + c - b + 1]
  <2>1. \A b \in 1..4 : b <= c => c - b + 1 \in 1..c /\ pos + (c - b + 1) = pos + c - b + 1
    BY <1>1
  <2> QED BY <1>1, <2>1
<1> DEFINE leads == {b \in 1..4 : b <= Len(chunk) /\ chunk[Len(chunk) - b + 1] # 0}
<1>2. \A b : b \in leads <=> b \in 1..4 /\ b <= c /\ log[pos + c - b + 1] # 0
  BY <1>1, <1>b
<1> HIDE DEF leads
<1>3. /\ leads = {} => CompleteUtf8(chunk) = c
      /\ leads # {} => \E back \in leads :
            /\ \A b \in leads : back <= b
            /\ CompleteUtf8(chunk) = IF back >= log[pos + c - back + 1] THEN c ELSE c - back
  <2> DEFINE first == CHOOSE b \in leads : \A x \in leads : b <= x
  <2>1. leads = {back \in 1..4 : back <= Len(chunk) /\ chunk[Len(chunk) - back + 1] # 0}
    BY DEF leads
  <2>2. CompleteUtf8(chunk) = IF leads = {} \/ first >= chunk[Len(chunk) - first + 1] THEN Len(chunk) ELSE Len(chunk) - first
    BY <2>1 DEF CompleteUtf8
  <2>3. leads # {} => first \in leads /\ \A b \in leads : first <= b
    <3>1. leads \in SUBSET (1..4)
      BY <1>2
    <3>2. leads # {} => \E b \in leads : \A x \in leads : b <= x
      BY <3>1, LeastOfFour
    <3> QED BY <3>2
  <2> HIDE DEF first
  <2>4. leads # {} => chunk[Len(chunk) - first + 1] = log[pos + c - first + 1]
    <3>1. leads # {} => first \in 1..4 /\ first <= c
      BY <1>2, <2>3
    <3>2. leads # {} => c - first + 1 \in 1..c /\ pos + (c - first + 1) = pos + c - first + 1
      BY <3>1
    <3> QED BY <1>1, <3>2
  <2> QED BY <1>1, <2>2, <2>3, <2>4
<1>4. CompleteUtf8(chunk) \in 0..c
  BY <1>2, <1>3
<1>5. Cut(chunk, d) \in 0..c /\ (d /\ Cut(chunk, d) = 0 => c = 0)
  BY <1>1, <1>4 DEF Cut
<1>6. ASSUME Clean(pos), ~d PROVE Clean(pos + Cut(chunk, d))
  <2>1. CASE c = 0
    BY <1>5, <1>6, <2>1
  <2>2. CASE c > 0
    <3>1. PICK e \in Nat : e = pos + c /\ e \in 1..n /\ pos \in Nat /\ pos < e
      BY <1>0, <1>1, <2>2
    <3>2. /\ \A k \in 1..n : log[k] = 0 <=> \E l \in 1..(k - 1) : l + log[l] > k
          /\ \A l \in 1..pos : l + log[l] <= pos + 1
      BY <1>0, <1>6 DEF LogOK, Clean
    <3>3. leads # {}
      <4>1. CASE log[e] # 0
        <5>1. 1 \in leads
          BY <1>2, <2>2, <3>1, <4>1
        <5> QED BY <5>1
      <4>2. CASE log[e] = 0
        <5>1. PICK l \in 1..(e - 1) : l + log[l] > e
          BY <3>1, <3>2, <4>2
        <5>2. l \in 1..n /\ log[l] \in 0..4 /\ l > pos
          BY <1>0, <3>1, <3>2, <5>1
        <5>3. (e - l + 1) \in 1..4 /\ e - l + 1 <= c /\ pos + c - (e - l + 1) + 1 = l /\ log[l] # 0
          BY <3>1, <5>1, <5>2
        <5>4. (e - l + 1) \in leads
          BY <1>2, <5>3
        <5> QED BY <5>4
      <4> QED BY <4>1, <4>2
    <3>4. PICK back \in leads :
            /\ \A b \in leads : back <= b
            /\ CompleteUtf8(chunk) = IF back >= log[pos + c - back + 1] THEN c ELSE c - back
      BY <1>3, <3>3
    <3>5. PICK m \in 1..n : m = e - back + 1 /\ m > pos /\ m <= e /\ log[m] # 0 /\ log[m] \in 0..4 /\ back \in 1..4 /\ back <= c
      <4>1. back \in 1..4 /\ back <= c /\ log[pos + c - back + 1] # 0
        BY <1>2
      <4>2. e - back + 1 \in 1..n /\ e - back + 1 > pos /\ e - back + 1 <= e /\ pos + c - back + 1 = e - back + 1
        BY <1>0, <1>1, <3>1, <4>1
      <4>3. log[e - back + 1] # 0 /\ log[e - back + 1] \in 0..4
        BY <1>0, <4>1, <4>2
      <4> QED BY <4>1, <4>2, <4>3
    <3>6. pos + c - back + 1 = m
      BY <3>1, <3>5
    <3>7. CASE back >= log[m]
      <4>1. CompleteUtf8(chunk) = c /\ Cut(chunk, d) = c
        BY <1>1, <2>2, <3>4, <3>6, <3>7 DEF Cut
      <4>2. ASSUME NEW l \in 1..e, l + log[l] > e + 1 PROVE FALSE
        <5>1. l \in 1..n /\ log[l] \in 0..4 /\ l > pos
          BY <1>0, <3>1, <3>2, <4>2
        <5>2. (e - l + 1) \in 1..4 /\ e - l + 1 <= c /\ pos + c - (e - l + 1) + 1 = l /\ log[l] # 0
          BY <3>1, <4>2, <5>1
        <5>3. (e - l + 1) \in leads
          BY <1>2, <5>2
        <5>4. back <= e - l + 1
          BY <3>4, <5>3
        <5>5. l <= m
          BY <3>1, <3>5, <5>1, <5>4
        <5>6. l # m
          BY <3>1, <3>5, <3>7, <4>2
        <5>7. l \in 1..(m - 1) /\ l + log[l] > m
          BY <3>5, <4>2, <5>1, <5>5, <5>6
        <5>8. log[m] = 0
          BY <3>2, <5>7
        <5> QED BY <3>5, <5>8
      <4>3. \A l \in 1..e : l + log[l] <= e + 1
        <5>1. \A l \in 1..e : log[l] \in 0..4 /\ ~(l + log[l] > e + 1)
          BY <1>0, <3>1, <4>2
        <5> QED BY <3>1, <5>1
      <4> QED BY <3>1, <4>1, <4>3 DEF Clean
    <3>8. CASE ~(back >= log[m])
      <4>1. CompleteUtf8(chunk) = c - back
        BY <3>4, <3>6, <3>8
      <4>2. Cut(chunk, d) = c - back
        <5>1. c - back = 0 => c < 4
          BY <1>1, <3>5, <3>8
        <5>2. c - back # 0 => Cut(chunk, d) = c - back
          BY <4>1 DEF Cut
        <5>3. c - back = 0 => Cut(chunk, d) = c - back
          BY <1>1, <1>6, <4>1, <5>1 DEF Cut
        <5> QED BY <5>2, <5>3
      <4>3. pos + (c - back) = m - 1 /\ m - 1 \in Nat
        BY <3>1, <3>5
      <4>4. ASSUME NEW l \in 1..(m - 1) PROVE l + log[l] <= m
        <5>1. ~(l + log[l] > m)
          BY <3>2, <3>5
        <5>2. l \in 1..n /\ log[l] \in 0..4
          BY <1>0, <3>5
        <5> QED BY <3>5, <5>1, <5>2
      <4>5. \A l \in 1..(m - 1) : l + log[l] <= (m - 1) + 1
        BY <3>5, <4>4
      <4> QED BY <4>2, <4>3, <4>5 DEF Clean
    <3> QED BY <3>7, <3>8
  <2> QED BY <1>1, <2>1, <2>2
<1> QED BY <1>0, <1>1, <1>5, <1>6

\* A file that was unlinked has nothing to pass on.
LEMMA NothingIsCut ==
    ASSUME NEW d \in BOOLEAN
    PROVE  Cut(<<>>, d) = 0
<1> DEFINE leads == {back \in 1..4 : back <= Len(<<>>) /\ <<>>[Len(<<>>) - back + 1] # 0}
<1>1. Len(<<>>) = 0
  OBVIOUS
<1>2. leads = {}
  BY <1>1
<1> HIDE DEF leads
<1>3. CompleteUtf8(<<>>) = 0
  BY <1>1, <1>2 DEF CompleteUtf8, leads
<1> QED BY <1>1, <1>3 DEF Cut

\* What a read moves the stream to.
To == tail.pos + Cut(ReadAt(tail.pos), tail.draining)

\* The stream, the pane and the offsets they would resume from.  A read while the
\* row runs never drains, so that what it stops at is the end of a character.
TailInv ==
    /\ TailTypeOK
    /\ LogOK
    /\ tail.pos <= shown /\ last <= shown /\ shown <= Len(log) /\ due <= Len(log)
    /\ url # NoOffset => url <= shown
    /\ ~resumed => ~again /\ last = shown
    /\ ~resumed /\ stream = "open" => tail.pos = shown
    /\ tail.draining => jobRow # "running"
    /\ jobRow = "running" => logKept /\ Clean(tail.pos) /\ Clean(last) /\ (url # NoOffset => Clean(url))
    /\ stream = "done" => jobRow # "running" /\ (logKept => shown >= due)

\* The invariant holds at the start.
LEMMA TailInvInit == TailInit => TailInv
<1> SUFFICES ASSUME TailInit PROVE TailInv
  OBVIOUS
<1>1. Len(log) = 0 /\ log \in Seq(Bytes)
  BY DEF TailInit
<1>2. TailTypeOK
  <2>1. MaxLog \in Nat /\ 0 \in 0..MaxLog /\ NoOffset \in 0..NoOffset
    BY ChunkAssumption DEF NoOffset
  <2>2. tail \in [pos : 0..MaxLog, draining : BOOLEAN, empty : BOOLEAN]
    BY <2>1 DEF TailInit, Fresh
  <2>3. Len(log) <= MaxLog
    BY <1>1, <2>1
  <2> QED BY <1>1, <2>1, <2>2, <2>3 DEF TailInit, TailTypeOK
<1>3. LogOK /\ Clean(0)
  BY <1>1 DEF LogOK, Clean
<1> QED BY <1>1, <1>2, <1>3 DEF TailInit, TailInv, Fresh

\* What the child adds leaves the boundaries that were there.
LEMMA WriteKeepsTheLog ==
    ASSUME TailTypeOK, LogOK, Write
    PROVE  /\ log' \in Seq(Bytes) /\ Len(log') = Len(log) + 1 /\ Len(log') <= MaxLog
           /\ LogOK'
           /\ \A p \in 0..Len(log) : Clean(p) => Clean(p)'
<1>0. PICK n \in Nat : n = Len(log) /\ \A k \in 1..n : log[k] \in 0..4
  BY BytesAre
<1>1. PICK w \in Bytes : /\ log' = Append(log, w)
                         /\ Due(log) # {} => w = 0
                         /\ Due(log) = {} => w \in Widths
  BY DEF Write, Bytes
<1>2. /\ log \in Seq(Bytes) /\ log' \in Seq(Bytes) /\ Len(log') = n + 1
      /\ \A k \in 1..n : log'[k] = log[k]
      /\ log'[n + 1] = w
  BY <1>0, <1>1 DEF TailTypeOK
<1>3. w \in 0..4 /\ (Due(log) = {} => w # 0)
  BY <1>1, ChunkAssumption DEF Bytes
<1>4. n + 1 <= MaxLog
  BY <1>0, BytesAre DEF Write
<1>5. Due(log) # {} <=> \E l \in 1..n : l + log[l] > n + 1
  <2>1. \A l \in 1..n : log[l] # 0 /\ l + log[l] - 1 > n <=> l + log[l] > n + 1
    BY <1>0
  <2>2. Due(log) = {k \in 1..n : log[k] # 0 /\ k + log[k] - 1 > n}
    BY <1>0, BytesAre DEF Due
  <2> HIDE DEF Due
  <2> QED BY <2>1, <2>2
<1>6. LogOK'
  <2>1. ASSUME NEW k \in 1..(n + 1) PROVE log'[k] = 0 <=> \E l \in 1..(k - 1) : l + log'[l] > k
    <3>1. \A l \in 1..(k - 1) : l \in 1..n /\ log'[l] = log[l]
      BY <1>0, <1>2
    <3>2. CASE k \in 1..n
      <4>1. log[k] = 0 <=> \E l \in 1..(k - 1) : l + log[l] > k
        BY <1>0, <3>2 DEF LogOK
      <4> QED BY <1>2, <3>1, <3>2, <4>1
    <3>3. CASE k = n + 1
      <4>1. k - 1 = n
        BY <3>3
      <4>2. log'[k] = 0 <=> \E l \in 1..n : l + log[l] > n + 1
        BY <1>1, <1>2, <1>3, <1>5, <3>3
      <4> QED BY <3>1, <3>3, <4>1, <4>2
    <3> QED BY <1>0, <3>2, <3>3
  <2> QED BY <1>2, <2>1 DEF LogOK
<1>7. ASSUME NEW p \in 0..n, Clean(p) PROVE Clean(p)'
  <2>1. \A l \in 1..p : l \in 1..n /\ log'[l] = log[l]
    BY <1>0, <1>2
  <2> QED BY <1>7, <2>1 DEF Clean
<1> QED BY <1>0, <1>2, <1>4, <1>6, <1>7, SMTT(40)

\* The same for a step that leaves the file alone.
LEMMA CleanStays ==
    ASSUME log' = log
    PROVE  (LogOK => LogOK') /\ \A p : Clean(p) => Clean(p)'
BY DEF LogOK, Clean

\* The job writes, ends, and its log is removed in time.
LEMMA TailInvJob ==
    ASSUME TailInv, Write \/ StopWriting \/ End \/ Unlink \/ UNCHANGED tailVars
    PROVE  TailInv'
<1>0. PICK n \in Nat : /\ n = Len(log) /\ MaxLog \in Nat
                       /\ tail.pos \in 0..n /\ last \in 0..n /\ shown \in 0..n /\ due \in 0..n
                       /\ (url # NoOffset => url \in 0..n)
  BY BytesAre DEF TailInv, TailTypeOK
<1>1. CASE Write
  <2>1. /\ log' \in Seq(Bytes) /\ Len(log') = n + 1 /\ n + 1 <= MaxLog /\ LogOK'
        /\ \A p \in 0..n : Clean(p) => Clean(p)'
    BY <1>0, <1>1, WriteKeepsTheLog DEF TailInv
  <2>2. UNCHANGED <<logKept, writing, jobRow, due, tail, stream, url, last, shown, again, resumed>>
    BY <1>1 DEF Write, viewVars
  <2>3. TailTypeOK'
    BY <1>0, <2>1, <2>2 DEF TailInv, TailTypeOK
  <2>4. jobRow' = "running" => logKept' /\ Clean(tail.pos)' /\ Clean(last)' /\ (url' # NoOffset => Clean(url)')
    BY <1>0, <2>1, <2>2 DEF TailInv
  <2>5. shown' <= Len(log') /\ due' <= Len(log')
    BY <1>0, <2>1, <2>2
  <2> QED BY <2>1, <2>2, <2>3, <2>4, <2>5 DEF TailInv
<1>2. CASE StopWriting \/ End \/ Unlink \/ UNCHANGED tailVars
  <2>1. UNCHANGED <<log, tail, stream, url, last, shown, again, resumed>>
    BY <1>2 DEF StopWriting, End, Unlink, tailVars, viewVars
  <2>2. LogOK' /\ \A p : Clean(p) => Clean(p)'
    BY <2>1, CleanStays DEF TailInv
  <2>3. /\ jobRow' \in {"running", "terminal", "gone"} /\ logKept' \in BOOLEAN /\ writing' \in BOOLEAN /\ due' \in 0..n
        /\ jobRow' = "running" => jobRow = "running" /\ logKept' = logKept
        /\ jobRow # "running" => jobRow' # "running" /\ due' = due
        /\ logKept' => logKept
    <3>1. logKept \in BOOLEAN /\ writing \in BOOLEAN /\ jobRow \in {"running", "terminal", "gone"}
      BY DEF TailInv, TailTypeOK
    <3>2. CASE StopWriting
      BY <1>0, <3>1, <3>2 DEF StopWriting
    <3>3. CASE End
      BY <1>0, <3>1, <3>3 DEF End
    <3>4. CASE Unlink
      BY <1>0, <3>1, <3>4 DEF Unlink
    <3>5. CASE UNCHANGED tailVars
      BY <1>0, <3>1, <3>5 DEF tailVars
    <3> QED BY <1>2, <3>2, <3>3, <3>4, <3>5
  <2>4. TailTypeOK'
    BY <1>0, <2>1, <2>3 DEF TailInv, TailTypeOK
  <2>5. jobRow' = "running" => logKept' /\ Clean(tail.pos)' /\ Clean(last)' /\ (url' # NoOffset => Clean(url)')
    BY <2>1, <2>2, <2>3 DEF TailInv
  <2>6. shown' <= Len(log') /\ due' <= Len(log')
    BY <1>0, <2>1, <2>3
  <2>7. stream' = "done" => jobRow' # "running" /\ (logKept' => shown' >= due')
    BY <2>1, <2>3 DEF TailInv
  <2> QED BY <2>1, <2>2, <2>3, <2>4, <2>5, <2>6, <2>7 DEF TailInv
<1> QED BY <1>1, <1>2

\* tail_log reads up to a character that is complete, and once drained to the end.
LEMMA TailInvRead ==
    ASSUME TailInv, ReadChunk
    PROVE  TailInv'
<1>0. PICK n \in Nat : /\ n = Len(log) /\ MaxLog \in Nat /\ n <= MaxLog
                       /\ tail.pos \in 0..n /\ last \in 0..n /\ shown \in 0..n /\ due \in 0..n
                       /\ (url # NoOffset => url \in 0..n)
  BY BytesAre DEF TailInv, TailTypeOK
<1>1. PICK to : to = tail.pos + Cut(ReadAt(tail.pos), tail.draining)
  OBVIOUS
<1>2. /\ to \in tail.pos..n
      /\ tail.draining /\ logKept /\ to = tail.pos => to = n
      /\ jobRow = "running" => Clean(to)
  <2>1. tail.draining \in BOOLEAN
    BY DEF TailInv, TailTypeOK
  <2>2. CASE logKept
    <3>1. /\ Cut(ReadAt(tail.pos), tail.draining) \in 0..Len(ReadAt(tail.pos))
          /\ tail.draining /\ Cut(ReadAt(tail.pos), tail.draining) = 0 => tail.pos = n
          /\ Clean(tail.pos) /\ ~tail.draining => Clean(tail.pos + Cut(ReadAt(tail.pos), tail.draining))
      BY <1>0, <2>1, <2>2, CutIsClean DEF TailInv
    <3>2. PICK len \in Nat : len = Len(ReadAt(tail.pos)) /\ tail.pos + len <= n
      <4>1. ReadAt(tail.pos) \in Seq(Bytes)
        BY <1>0, <2>2, ChunkIs DEF TailInv
      <4>2. tail.pos + Len(ReadAt(tail.pos)) <= n
        BY <1>0, <2>2, ChunkIs DEF TailInv
      <4> QED BY <4>1, <4>2
    <3>6. PICK c \in 0..len : c = Cut(ReadAt(tail.pos), tail.draining)
      BY <3>1, <3>2
    <3>7. to = tail.pos + c
      BY <1>1, <3>6
    <3>3. to \in tail.pos..n
      BY <1>0, <3>2, <3>7
    <3>4. tail.draining /\ to = tail.pos => to = n
      <4>1. to = tail.pos => c = 0
        BY <1>0, <3>2, <3>6, <3>7
      <4>2. tail.draining /\ c = 0 => tail.pos = n
        BY <3>1, <3>6
      <4> QED BY <4>1, <4>2
    <3>5. jobRow = "running" => Clean(to)
      BY <1>1, <3>1 DEF TailInv
    <3> QED BY <3>3, <3>4, <3>5
  <2>3. CASE ~logKept
    <3>1. Cut(ReadAt(tail.pos), tail.draining) = 0
      BY <2>1, <2>3, NothingIsCut DEF ReadAt
    <3> QED BY <1>0, <1>1, <2>3, <3>1 DEF TailInv
  <2> QED BY <2>2, <2>3
<1>3. /\ stream = "open" /\ UNCHANGED <<log, logKept, writing, jobRow, due, url, resumed>>
      /\ \/ /\ to > tail.pos /\ tail' = [tail EXCEPT !.pos = to] /\ last' = to
            /\ shown' = IF to > shown THEN to ELSE shown
            /\ again' = (again \/ tail.pos < shown) /\ stream' = stream
         \/ /\ ~(to > tail.pos) /\ tail.draining /\ stream' = "done" /\ tail' = tail
            /\ UNCHANGED <<last, shown, again>>
         \/ /\ ~(to > tail.pos) /\ ~tail.draining /\ tail' = [tail EXCEPT !.empty = TRUE]
            /\ UNCHANGED <<stream, last, shown, again>>
  BY <1>1 DEF ReadChunk, jobVars
<1>4. LogOK' /\ \A p : Clean(p) => Clean(p)'
  BY <1>3, CleanStays DEF TailInv
<1>5. CASE to > tail.pos
  <2>1. /\ tail'.pos = to /\ tail'.draining = tail.draining
        /\ tail' \in [pos : 0..MaxLog, draining : BOOLEAN, empty : BOOLEAN]
    BY <1>0, <1>2, <1>3, <1>5 DEF TailInv, TailTypeOK
  <2>2. last' = to /\ to \in 0..n /\ shown' \in 0..n /\ shown' >= to /\ shown' >= shown /\ again' \in BOOLEAN /\ stream' = "open"
    BY <1>0, <1>2, <1>3, <1>5 DEF TailInv, TailTypeOK
  <2>3. ~resumed => ~again' /\ shown' = to
    <3>1. ~resumed => ~again /\ tail.pos = shown
      BY <1>3 DEF TailInv
    <3>2. again' = (again \/ tail.pos < shown) /\ shown' = IF to > shown THEN to ELSE shown
      BY <1>3, <1>5
    <3>3. ~resumed => ~(tail.pos < shown) /\ to > shown
      BY <1>0, <1>5, <3>1
    <3>4. ~resumed => again' = FALSE
      BY <3>1, <3>2, <3>3
    <3> QED BY <3>2, <3>3, <3>4
  <2>4. TailTypeOK'
    BY <1>0, <1>3, <2>1, <2>2 DEF TailInv, TailTypeOK
  <2>5. jobRow' = "running" => logKept' /\ Clean(tail.pos)' /\ Clean(last)' /\ (url' # NoOffset => Clean(url)')
    BY <1>2, <1>3, <1>4, <2>1, <2>2 DEF TailInv
  <2>6. url' # NoOffset => url' <= shown'
    BY <1>0, <1>3, <2>2 DEF TailInv
  <2> QED BY <1>0, <1>3, <1>4, <2>1, <2>2, <2>3, <2>4, <2>5, <2>6 DEF TailInv
<1>6. CASE ~(to > tail.pos)
  <2>1. /\ tail'.pos = tail.pos /\ tail'.draining = tail.draining
        /\ tail' \in [pos : 0..MaxLog, draining : BOOLEAN, empty : BOOLEAN]
        /\ UNCHANGED <<last, shown, again>> /\ stream' \in {"open", "done"}
    BY <1>3, <1>6 DEF TailInv, TailTypeOK
  <2>2. stream' = "done" => jobRow' # "running" /\ (logKept' => shown' >= due')
    <3>1. stream' = "done" => tail.draining /\ UNCHANGED shown
      BY <1>3, <1>6
    <3>2. to = tail.pos
      BY <1>0, <1>2, <1>6
    <3>3. tail.draining /\ logKept => shown >= due
      BY <1>0, <1>2, <3>2 DEF TailInv
    <3> QED BY <1>3, <3>1, <3>3 DEF TailInv
  <2>3. TailTypeOK'
    BY <1>0, <1>3, <2>1 DEF TailInv, TailTypeOK
  <2>5. jobRow' = "running" => logKept' /\ Clean(tail.pos)' /\ Clean(last)' /\ (url' # NoOffset => Clean(url)')
    BY <1>2, <1>3, <1>4, <2>1 DEF TailInv
  <2> QED BY <1>0, <1>3, <1>4, <2>1, <2>2, <2>3, <2>5 DEF TailInv
<1> QED BY <1>5, <1>6

\* The stream asks for the row and ends; the browser is cut off and comes again.
LEMMA TailInvView ==
    ASSUME TailInv, AskDone \/ Drop \/ Retry \/ Reconnect \/ Reopen
    PROVE  TailInv'
<1>0. PICK n \in Nat : /\ n = Len(log) /\ MaxLog \in Nat /\ n <= MaxLog /\ NoOffset = MaxLog + 1
                       /\ tail.pos \in 0..n /\ last \in 0..n /\ shown \in 0..n /\ due \in 0..n
                       /\ (url # NoOffset => url \in 0..n)
  BY BytesAre DEF TailInv, TailTypeOK, NoOffset
<1>1. UNCHANGED <<log, logKept, writing, jobRow, due>>
  BY DEF AskDone, Drop, Retry, Reconnect, Reopen, jobVars
<1>2. LogOK' /\ (\A p : Clean(p) => Clean(p)') /\ Clean(0)'
  <2>1. Clean(0)
    BY DEF Clean
  <2> QED BY <1>1, <2>1, CleanStays DEF TailInv
<1>3. CASE AskDone
  <2>1. /\ UNCHANGED <<stream, url, last, shown, again, resumed>> /\ stream = "open"
        /\ tail' \in {Fresh(tail.pos), [Fresh(tail.pos) EXCEPT !.draining = jobRow # "running"]}
    BY <1>3 DEF AskDone, AskFinished
  <2>2. /\ tail'.pos = tail.pos /\ (tail'.draining => jobRow # "running")
        /\ tail' \in [pos : 0..MaxLog, draining : BOOLEAN, empty : BOOLEAN]
    <3>1. PICK b \in BOOLEAN : tail' = [pos |-> tail.pos, draining |-> b, empty |-> FALSE] /\ (b => jobRow # "running")
      BY <2>1 DEF Fresh
    <3> QED BY <1>0, <3>1
  <2>3. TailTypeOK'
    BY <1>1, <2>1, <2>2 DEF TailInv, TailTypeOK
  <2>4. jobRow' = "running" => logKept' /\ Clean(tail.pos)' /\ Clean(last)' /\ (url' # NoOffset => Clean(url)')
    BY <1>1, <1>2, <2>1, <2>2 DEF TailInv
  <2> QED BY <1>1, <1>2, <2>1, <2>2, <2>3, <2>4 DEF TailInv
<1>4. CASE Drop
  <2>1. UNCHANGED <<tail, url, last, shown, again, resumed>> /\ stream' = "retrying"
    BY <1>4 DEF Drop
  <2>2. TailTypeOK'
    BY <1>1, <2>1 DEF TailInv, TailTypeOK
  <2>3. jobRow' = "running" => logKept' /\ Clean(tail.pos)' /\ Clean(last)' /\ (url' # NoOffset => Clean(url)')
    BY <1>1, <1>2, <2>1 DEF TailInv
  <2> QED BY <1>1, <1>2, <2>1, <2>2, <2>3 DEF TailInv
<1>5. CASE Retry
  <2>1. /\ UNCHANGED <<url, last, shown, again>> /\ stream' \in {"open", "lost"}
        /\ \/ /\ stream' = "open" /\ tail' = Fresh(IF url = NoOffset THEN last ELSE url)
              /\ resumed' = (resumed \/ url # NoOffset)
           \/ stream' = "lost" /\ UNCHANGED <<tail, resumed>>
    BY <1>5 DEF Retry, StartOf
  <2>2. /\ tail'.pos \in 0..n /\ tail'.pos <= shown /\ (tail'.draining => tail.draining)
        /\ tail' \in [pos : 0..MaxLog, draining : BOOLEAN, empty : BOOLEAN] /\ resumed' \in BOOLEAN
        /\ (tail'.pos = tail.pos \/ tail'.pos = last \/ (url # NoOffset /\ tail'.pos = url))
        /\ ~resumed' => ~resumed /\ (stream' = "open" => tail'.pos = last)
    <3>0. /\ resumed \in BOOLEAN /\ tail \in [pos : 0..MaxLog, draining : BOOLEAN, empty : BOOLEAN]
          /\ tail.pos <= shown /\ last <= shown /\ (url # NoOffset => url <= shown)
      BY DEF TailInv, TailTypeOK
    <3>1. CASE stream' = "lost" /\ UNCHANGED <<tail, resumed>>
      BY <1>0, <3>0, <3>1
    <3>2. CASE /\ stream' = "open" /\ tail' = Fresh(IF url = NoOffset THEN last ELSE url)
               /\ resumed' = (resumed \/ url # NoOffset)
      <4>1. CASE url = NoOffset
        <5>1. resumed' = resumed
          BY <3>0, <3>2, <4>1
        <5>2. tail' = [pos |-> last, draining |-> FALSE, empty |-> FALSE]
          BY <3>2, <4>1 DEF Fresh
        <5> QED BY <1>0, <3>0, <5>1, <5>2
      <4>2. CASE url # NoOffset
        <5>1. resumed' = TRUE
          BY <3>0, <3>2, <4>2
        <5>2. tail' = [pos |-> url, draining |-> FALSE, empty |-> FALSE]
          BY <3>2, <4>2 DEF Fresh
        <5> QED BY <1>0, <3>0, <4>2, <5>1, <5>2
      <4> QED BY <4>1, <4>2
    <3> QED BY <2>1, <3>1, <3>2, SMTT(40)
  <2>3. TailTypeOK'
    BY <1>1, <2>1, <2>2 DEF TailInv, TailTypeOK
  <2>4. jobRow' = "running" => logKept' /\ Clean(tail.pos)' /\ Clean(last)' /\ (url' # NoOffset => Clean(url)')
    BY <1>1, <1>2, <2>1, <2>2 DEF TailInv
  <2> QED BY <1>1, <1>2, <2>1, <2>2, <2>3, <2>4 DEF TailInv
<1>6. CASE Reconnect
  <2>1. /\ UNCHANGED <<last, shown, again, resumed>> /\ stream' = "open"
        /\ url' = IF last = 0 THEN NoOffset ELSE last
        /\ tail' = Fresh(IF url' = NoOffset THEN 0 ELSE url')
    BY <1>6 DEF Reconnect, StartOf
  <2>2. /\ tail' = Fresh(last) /\ url' \in 0..NoOffset /\ (url' # NoOffset => url' = last)
    BY <1>0, <2>1
  <2>3. tail'.pos = last /\ ~tail'.draining /\ tail' \in [pos : 0..MaxLog, draining : BOOLEAN, empty : BOOLEAN]
    BY <1>0, <2>2 DEF Fresh
  <2>4. TailTypeOK'
    BY <1>1, <2>1, <2>2, <2>3 DEF TailInv, TailTypeOK
  <2>5. jobRow' = "running" => logKept' /\ Clean(tail.pos)' /\ Clean(last)' /\ (url' # NoOffset => Clean(url)')
    BY <1>1, <1>2, <2>1, <2>2, <2>3 DEF TailInv
  <2>6. url' # NoOffset => url' <= shown'
    BY <1>0, <2>1, <2>2 DEF TailInv
  <2> QED BY <1>1, <1>2, <2>1, <2>2, <2>3, <2>4, <2>5, <2>6 DEF TailInv
<1>7. CASE Reopen
  <2>1. /\ stream' = "open" /\ url' = NoOffset /\ tail' = Fresh(0)
        /\ last' = 0 /\ shown' = 0 /\ again' = FALSE /\ resumed' = FALSE
    BY <1>7 DEF Reopen
  <2>2. tail'.pos = 0 /\ ~tail'.draining /\ tail' \in [pos : 0..MaxLog, draining : BOOLEAN, empty : BOOLEAN]
    BY <1>0, <2>1 DEF Fresh
  <2>3. TailTypeOK'
    <3>1. url' \in 0..NoOffset /\ last' \in 0..MaxLog /\ shown' \in 0..MaxLog
      BY <1>0, <2>1
    <3> QED BY <1>1, <2>1, <2>2, <3>1 DEF TailInv, TailTypeOK
  <2>4. jobRow' = "running" => logKept' /\ Clean(tail.pos)' /\ Clean(last)' /\ (url' # NoOffset => Clean(url)')
    BY <1>1, <1>2, <2>1, <2>2 DEF TailInv
  <2> QED BY <1>0, <1>1, <1>2, <2>1, <2>2, <2>3, <2>4 DEF TailInv
<1> QED BY <1>3, <1>4, <1>5, <1>6, <1>7

\* The invariant of LogTail: what is sent is the log up to the offset, and the offset
\* lies between characters while the job runs.
THEOREM TailInvariant == TailSpec => []TailInv
<1>1. TailInv /\ [TailNext]_tailVars => TailInv'
  <2> SUFFICES ASSUME TailInv, [TailNext]_tailVars PROVE TailInv'
    OBVIOUS
  <2>1. CASE Write \/ StopWriting \/ End \/ Unlink \/ UNCHANGED tailVars
    BY <2>1, TailInvJob
  <2>2. CASE ReadChunk
    BY <2>2, TailInvRead
  <2>3. CASE AskDone \/ Drop \/ Retry \/ Reconnect \/ Reopen
    BY <2>3, TailInvView
  <2> QED BY <2>1, <2>2, <2>3 DEF TailNext
<1> QED BY <1>1, TailInvInit, PTL DEF TailSpec

\* The file, the stream and the viewer hold such values as they can.
THEOREM TailTypes == TailSpec => []TailTypeOK
<1>1. TailInv => TailTypeOK
  BY DEF TailInv
<1> QED BY <1>1, TailInvariant, PTL

\* A viewer that was told `done` shows all that was in the log when the row ended, an
\* offset to resume from is never inside a character while the job runs, and only the
\* retry of a resumed stream shows bytes twice.  All that is asked of ChunkBytes is
\* that one read holds the widest character; the log may be of any length.
THEOREM LogsAreShownToTheEnd == TailSpec => []TailIsComplete
<1>1. TailInv => TailIsComplete
  <2> SUFFICES ASSUME TailInv PROVE TailIsComplete
    OBVIOUS
  <2>1. stream = "done" /\ logKept => shown >= due
    BY DEF TailInv
  <2>2. jobRow = "running" => Boundary(last)
    <3>1. last \in 0..Len(log)
      BY BytesAre DEF TailInv, TailTypeOK
    <3> QED BY <3>1, BoundaryIsClean DEF TailInv
  <2>3. again => resumed
    BY DEF TailInv
  <2> QED BY <2>1, <2>2, <2>3 DEF TailIsComplete
<1> QED BY <1>1, TailInvariant, PTL

-----------------------------------------------------------------------------
(* The parts side by side (MCService).                                      *)

\* A behaviour in which one of the parts moves is a behaviour of each of them, so that
\* what holds of a part holds of the whole.
LEMMA EachPartServes ==
    ServiceSpec => /\ SessionsSpec /\ ManagersSpec /\ ProvisioningSpec /\ AccessSpec /\ ProjectsSpec
                   /\ QueriesSpec /\ TailSpec /\ LimitsSpec
<1>1. ServiceInit => /\ SessionsInit /\ ManagersInit /\ ProvisioningInit /\ AccessInit /\ ProjectsInit
                     /\ QueriesInit /\ TailInit /\ LimitsInit
  BY DEF ServiceInit
<1>2. [ServiceNext]_<<part, sessionVars, peopleVars, servingVars>> =>
        /\ [SessionsNext]_<<vars, tabVars>> /\ [ManagersNext]_managerVars
        /\ [ProvisioningNext]_provisionVars /\ [AccessNext]_accessVars /\ [ProjectsNext]_projectVars
        /\ [QueriesNext]_<<cacheVars, queryVars>> /\ [TailNext]_tailVars /\ [LimitsNext]_limitVars
  BY DEF ServiceNext, SessionsStep, ManagersStep, ProvisioningStep, AccessStep, ProjectsStep, QueriesStep,
         TailStep, LimitsStep, sessionVars, peopleVars, servingVars, streamVars
<1> QED BY <1>1, <1>2, PTL DEF ServiceSpec, SessionsSpec, ManagersSpec, ProvisioningSpec, AccessSpec,
        ProjectsSpec, QueriesSpec, TailSpec, LimitsSpec

\* The rows, files, buckets, frames, streams, requests and tabs of every part are such as
\* the tables, the file system and the processes can hold, and what refers to a row
\* refers to one that exists, for any number of them.
THEOREM TypesOfTheService == ServiceSpec => []ServiceTypeOK
<1> DEFINE Part == part \in {"sessions", "managers", "provisioning", "access", "projects", "queries", "tail", "limits"}
<1>1. ServiceInit => Part
  BY DEF ServiceInit
<1>2. Part /\ [ServiceNext]_<<part, sessionVars, peopleVars, servingVars>> => Part'
  BY DEF ServiceNext
<1>3. Part /\ SessionsTypeOK /\ ManagersTypeOK /\ ProvisioningTypeOK /\ AccessTypeOK /\ ProjectsTypeOK
        /\ QueriesTypeOK /\ TailTypeOK /\ LimitsTypeOK => ServiceTypeOK
  BY DEF ServiceTypeOK
<1>4. ServiceSpec => []Part
  BY <1>1, <1>2, PTL DEF ServiceSpec
<1> QED BY <1>3, <1>4, EachPartServes, SessionsTypes, ManagersTypes, ProvisioningTypes, AccessTypes,
        ProjectsTypes, QueriesTypes, TailTypes, LimitsTypes, PTL

=============================================================================
