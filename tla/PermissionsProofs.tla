--------------------------- MODULE PermissionsProofs --------------------------
(***************************************************************************)
(* Theorems of SiteGroups, WorkflowRoles and Accesses, for every number of *)
(* users, groups, admin sets, works, workers, grants and edits.            *)
(***************************************************************************)
EXTENDS WorkflowRoles, Accesses, FiniteSetTheorems, SequenceTheorems, TLAPS

-----------------------------------------------------------------------------
(* Users, groups and site roles: lemmas that the other parts need, too *)

LEMMA GroupsStart == GroupsInit => GroupsTypeOK /\ NoDanglingRoles
  <1> SUFFICES ASSUME GroupsInit PROVE GroupsTypeOK /\ NoDanglingRoles
    OBVIOUS
  <1> USE SiteGroupsAssumption
  <1>1. \A g \in Groups : DefaultRoles(g) \in SUBSET SiteRoles
    BY DEF DefaultRoles, SiteRoles
  <1>2. PICK admins \in SUBSET Users :
           /\ direct = [u \in Users |-> IF u \in admins THEN {"admin"} ELSE {}]
           /\ members = admins \X {"admin"}
    BY DEF GroupsInit
  <1>3. GroupsTypeOK
    <2>1. name \in [Groups -> Names \cup {"none"}]
      BY DEF GroupsInit, Names
    <2>2. groupRoles \in [Groups -> SUBSET SiteRoles]
      BY <1>1 DEF GroupsInit
    <2>3. direct \in [Users -> SUBSET SiteRoles]
      BY <1>2 DEF SiteRoles
    <2>4. members \in SUBSET (Users \X Groups)
      BY <1>2 DEF Groups, DefaultNames
    <2>5. rows \in SUBSET SiteRoles /\ edits \in 0..MaxEdits
      BY DEF GroupsInit
    <2> QED BY <2>1, <2>2, <2>3, <2>4, <2>5 DEF GroupsTypeOK
  <1>4. NoDanglingRoles
    <2>1. \A u \in Users : direct[u] \subseteq rows
      BY <1>2 DEF GroupsInit, SiteRoles
    <2>2. \A g \in Groups : groupRoles[g] \subseteq rows
      BY <1>1 DEF GroupsInit
    <2>3. \A m \in members : IsGroup(m[2])
      BY <1>2 DEF GroupsInit, IsGroup, Groups, DefaultNames
    <2>4. \A g \in Groups : ~IsGroup(g) => groupRoles[g] = {}
      BY DEF GroupsInit, IsGroup, DefaultRoles, DefaultNames
    <2> QED BY <2>1, <2>2, <2>3, <2>4 DEF NoDanglingRoles
  <1> QED BY <1>3, <1>4

\* The whole invariant of SiteGroups is carried through each of its actions.
GroupsInv == GroupsTypeOK /\ NoDanglingRoles

LEMMA EditCounts ==
  ASSUME edits \in 0..MaxEdits, Edit
  PROVE  edits' \in 0..MaxEdits
  BY SiteGroupsAssumption DEF Edit

LEMMA GroupRowsStep ==
  ASSUME GroupsInv, NEW g \in Groups, NEW n \in Names,
         CreateGroup(g, n) \/ UpdateGroup(g, n) \/ DestroyGroup(g)
  PROVE  GroupsInv'
  <1> USE SiteGroupsAssumption DEF GroupsInv
  <1>1. CASE CreateGroup(g, n)
    <2>1. GroupsTypeOK'
      BY <1>1 DEF CreateGroup, GroupsTypeOK
    <2>2. \A h \in Groups : IsGroup(h) => IsGroup(h)'
      BY <1>1 DEF CreateGroup, GroupsTypeOK, IsGroup
    <2> QED BY <2>1, <2>2, <1>1
            DEF CreateGroup, GroupsTypeOK, NoDanglingRoles, IsGroup
  <1>2. CASE UpdateGroup(g, n)
    <2>1. GroupsTypeOK'
      BY <1>2, EditCounts DEF UpdateGroup, GroupsTypeOK
    <2>2. \A h \in Groups : IsGroup(h) <=> IsGroup(h)'
      BY <1>2 DEF UpdateGroup, GroupsTypeOK, IsGroup
    <2> QED BY <2>1, <2>2, <1>2
            DEF UpdateGroup, GroupsTypeOK, NoDanglingRoles, IsGroup
  <1>3. CASE DestroyGroup(g)
    <2>1. GroupsTypeOK'
      BY <1>3 DEF DestroyGroup, GroupsTypeOK
    <2>2. \A h \in Groups \ {g} : name'[h] = name[h]
      BY <1>3 DEF DestroyGroup, GroupsTypeOK
    <2>3. \A h \in Groups :
             groupRoles'[h] = IF h = g THEN {} ELSE groupRoles[h]
      BY <1>3 DEF DestroyGroup, GroupsTypeOK
    <2>4. \A m \in members' : m \in members /\ m[2] \in Groups \ {g}
      BY <1>3 DEF DestroyGroup, GroupsTypeOK
    <2>5. NoDanglingRoles'
      BY <2>2, <2>3, <2>4, <1>3 DEF DestroyGroup, NoDanglingRoles, IsGroup
    <2> QED BY <2>1, <2>5
  <1> QED BY <1>1, <1>2, <1>3

LEMMA MemberStep ==
  ASSUME GroupsInv, NEW g \in Groups, NEW u \in Users,
         AddMember(u, g) \/ RemoveMember(u, g)
  PROVE  GroupsInv'
  <1> USE DEF GroupsInv
  <1>1. GroupsTypeOK'
    BY EditCounts DEF AddMember, RemoveMember, GroupsTypeOK
  <1>2. \A m \in members' : m \in members \/ (m = <<u, g>> /\ IsGroup(g))
    BY DEF AddMember, RemoveMember
  <1>3. NoDanglingRoles'
    BY <1>2 DEF AddMember, RemoveMember, NoDanglingRoles, IsGroup
  <1> QED BY <1>1, <1>3

LEMMA GroupRoleStep ==
  ASSUME GroupsInv, NEW g \in Groups, NEW r \in SiteRoles,
         AddGroupRole(g, r) \/ RemoveGroupRole(g, r)
  PROVE  GroupsInv'
  <1> USE DEF GroupsInv
  <1>1. GroupsTypeOK'
    BY EditCounts DEF AddGroupRole, RemoveGroupRole, GroupsTypeOK
  <1>2. \A h \in Groups \ {g} : groupRoles'[h] = groupRoles[h]
    BY DEF AddGroupRole, RemoveGroupRole, GroupsTypeOK
  <1>3. groupRoles'[g] \subseteq rows /\ IsGroup(g)
    <2>1. CASE AddGroupRole(g, r)
      BY <2>1 DEF AddGroupRole, GroupsTypeOK, NoDanglingRoles
    <2>2. CASE RemoveGroupRole(g, r)
      BY <2>2 DEF RemoveGroupRole, GroupsTypeOK, NoDanglingRoles
    <2> QED BY <2>1, <2>2
  <1>4. NoDanglingRoles'
    BY <1>2, <1>3
    DEF AddGroupRole, RemoveGroupRole, NoDanglingRoles, IsGroup
  <1> QED BY <1>1, <1>4

LEMMA UserRoleStep ==
  ASSUME GroupsInv, NEW u \in Users, NEW r \in SiteRoles,
         GrantRole(u, r) \/ RevokeRole(u, r) \/ RemoveUser(u)
  PROVE  GroupsInv'
  <1> USE DEF GroupsInv
  <1>1. CASE GrantRole(u, r)
    <2>1. GroupsTypeOK'
      BY <1>1, EditCounts DEF GrantRole, GroupsTypeOK
    <2>2. \A v \in Users :
             direct'[v] = IF v = u THEN direct[v] \cup {r} ELSE direct[v]
      BY <1>1 DEF GrantRole, GroupsTypeOK
    <2> QED BY <2>1, <2>2, <1>1 DEF GrantRole, NoDanglingRoles, IsGroup
  <1>2. CASE RevokeRole(u, r)
    <2> DEFINE unused ==
                 {q \in {r} : \A v \in Users \ {u} : q \notin direct[v]}
    <2>1. /\ rows' = rows \ unused
          /\ groupRoles' = [g \in Groups |-> groupRoles[g] \ unused]
          /\ direct' = [direct EXCEPT ![u] = @ \ {r}]
      BY <1>2 DEF RevokeRole, LeftToGroup
    <2>2. \A v \in Users :
             direct'[v] = IF v = u THEN direct[v] \ {r} ELSE direct[v]
      BY <2>1 DEF GroupsTypeOK
    <2>3. \A v \in Users : direct'[v] \cap unused = {}
      BY <2>2
    <2>4. direct' \in [Users -> SUBSET SiteRoles]
      BY <2>1 DEF GroupsTypeOK
    <2>5. groupRoles' \in [Groups -> SUBSET SiteRoles]
      BY <2>1 DEF GroupsTypeOK
    <2>6. GroupsTypeOK'
      BY <1>2, <2>1, <2>4, <2>5, EditCounts DEF RevokeRole, GroupsTypeOK
    <2>7. /\ \A v \in Users : direct'[v] \subseteq rows'
          /\ \A g \in Groups : groupRoles'[g] \subseteq rows'
          /\ \A g \in Groups : groupRoles[g] = {} => groupRoles'[g] = {}
      <3> HIDE DEF unused
      <3> QED BY <2>1, <2>2, <2>3 DEF NoDanglingRoles
    <2> QED BY <2>6, <2>7, <1>2 DEF RevokeRole, NoDanglingRoles, IsGroup
  <1>3. CASE RemoveUser(u)
    <2>1. GroupsTypeOK'
      BY <1>3, EditCounts DEF RemoveUser, GroupsTypeOK
    <2>2. \A v \in Users : direct'[v] \subseteq direct[v]
      BY <1>3 DEF RemoveUser, GroupsTypeOK
    <2> QED BY <2>1, <2>2, <1>3 DEF RemoveUser, NoDanglingRoles, IsGroup
  <1> QED BY <1>1, <1>2, <1>3

LEMMA GroupsStep ==
  ASSUME GroupsInv, [GroupsNext]_groupVars
  PROVE  GroupsInv'
  <1>1. CASE UNCHANGED groupVars
    BY <1>1 DEF groupVars, GroupsInv, GroupsTypeOK, NoDanglingRoles, IsGroup
  <1>2. CASE GroupsNext
    <2>1. ASSUME NEW g \in Groups, NEW n \in Names,
                 UpdateGroup(g, n) \/ CreateGroup(g, n)
          PROVE  GroupsInv'
      BY <2>1, GroupRowsStep
    <2>2. ASSUME NEW g \in Groups, DestroyGroup(g)
          PROVE  GroupsInv'
      <3>1. "admin" \in Names
        BY DEF Names, DefaultNames
      <3> QED BY <2>2, <3>1, GroupRowsStep
    <2>3. ASSUME NEW u \in Users, RemoveUser(u)
          PROVE  GroupsInv'
      <3>1. "admin" \in SiteRoles
        BY DEF SiteRoles
      <3> QED BY <2>3, <3>1, UserRoleStep
    <2> QED BY <1>2, <2>1, <2>2, <2>3, MemberStep, GroupRoleStep, UserRoleStep
            DEF GroupsNext
  <1> QED BY <1>1, <1>2

\* What is removed from a tenant's users, groups and roles leaves nothing that
\* points at it.
THEOREM NoneDangling == GroupsSpec => []NoDanglingRoles
  <1>1. GroupsInit => GroupsInv
    BY GroupsStart DEF GroupsInv
  <1>2. GroupsInv /\ [GroupsNext]_groupVars => GroupsInv'
    BY GroupsStep
  <1>3. GroupsInv => NoDanglingRoles
    BY DEF GroupsInv
  <1> QED BY <1>1, <1>2, <1>3, PTL DEF GroupsSpec

-----------------------------------------------------------------------------
(* Workflow roles *)

RolesInv == WorkflowTypeOK /\ NoDanglingRoles

LEMMA RolesStart == WorkflowInit => RolesInv
  <1> SUFFICES ASSUME WorkflowInit PROVE RolesInv
    OBVIOUS
  <1>1. GroupsTypeOK /\ NoDanglingRoles
    BY GroupsStart DEF WorkflowInit
  <1> QED BY <1>1 DEF WorkflowInit, RolesInv, WorkflowTypeOK

\* A member of a group is an agent through the name of a group there is.
LEMMA AgentsTyped ==
  ASSUME RolesInv, NEW u \in Users
  PROVE  AgentsOf(u) \subseteq Agents
  <1>1. \A m \in members : m[2] \in Groups /\ name[m[2]] # "none"
    BY DEF RolesInv, WorkflowTypeOK, GroupsTypeOK, NoDanglingRoles, IsGroup
  <1> QED BY <1>1 DEF AgentsOf, Agents, RolesInv, WorkflowTypeOK, GroupsTypeOK

LEMMA GrantedTyped ==
  ASSUME GroupsTypeOK, NEW s \in AdminSets, NEW creator \in SUBSET Users
  PROVE  Granted(s, creator) \subseteq Agents \X WorkflowRoles
  <1>1. \A r \in SiteRoles : WithSiteRole(r) \subseteq Agents
    BY DEF WithSiteRole, Agents, GroupsTypeOK, IsGroup
  <1>2. "admin" \in Agents /\ creator \subseteq Agents
    BY DEF Agents, Names, DefaultNames
  <1>3. {"admin"} \cup creator \cup WithSiteRole("admin") \subseteq Agents
    BY <1>1, <1>2 DEF SiteRoles
  <1>4. /\ WithSiteRole("work_editor") \subseteq Agents
        /\ WithSiteRole("work_depositor") \subseteq Agents
    BY <1>1 DEF SiteRoles
  <1>5. \A R \in SUBSET Roles : {s} \X R \subseteq WorkflowRoles
    BY DEF WorkflowRoles
  <1>6. /\ {"approving", "depositing"} \subseteq Roles
        /\ {"depositing"} \subseteq Roles
    BY DEF Roles
  <1> HIDE DEF Roles, WorkflowRoles, Agents, WithSiteRole
  <1> QED BY <1>3, <1>4, <1>5, <1>6 DEF Granted

LEMMA RolesStep ==
  ASSUME RolesInv, [WorkflowNext]_workflowAndGroupVars
  PROVE  RolesInv'
  <1> USE DEF RolesInv
  <1>1. CASE UNCHANGED workflowAndGroupVars
    BY <1>1 DEF workflowAndGroupVars, groupVars, workflowVars, WorkflowTypeOK, GroupsTypeOK,
                NoDanglingRoles, IsGroup
  <1>2. CASE GroupsNext /\ UNCHANGED workflowVars
    <2>1. GroupsInv'
      BY <1>2, GroupsStep DEF GroupsInv, WorkflowTypeOK
    <2> QED BY <1>2, <2>1 DEF GroupsInv, WorkflowTypeOK, workflowVars
  <1>3. ASSUME NEW s \in AdminSets, NEW creator \in SUBSET Users,
               CreateAdminSet(s, creator) \/ GrantAgain(s)
        PROVE  RolesInv'
    <2>1. NoDanglingRoles' /\ GroupsTypeOK'
      BY <1>3 DEF CreateAdminSet, GrantAgain, groupVars, WorkflowTypeOK,
                  NoDanglingRoles, IsGroup, GroupsTypeOK
    <2>2. /\ Granted(s, creator) \subseteq Agents \X WorkflowRoles
          /\ Granted(s, {}) \subseteq Agents \X WorkflowRoles
      BY GrantedTyped DEF WorkflowTypeOK
    <2>3. resp' \in SUBSET (Agents \X WorkflowRoles)
      BY <1>3, <2>2 DEF CreateAdminSet, GrantAgain, WorkflowTypeOK
    <2> QED BY <1>3, <2>1, <2>3 DEF CreateAdminSet, GrantAgain, WorkflowTypeOK
  <1>4. ASSUME NEW a \in Agents, NEW wr \in WorkflowRoles, Assign(a, wr)
        PROVE  RolesInv'
    <2>1. NoDanglingRoles' /\ GroupsTypeOK'
      BY <1>4, EditCounts
      DEF Assign, WorkflowTypeOK, NoDanglingRoles, IsGroup, GroupsTypeOK
    <2>2. resp' \in SUBSET (Agents \X WorkflowRoles)
      BY <1>4 DEF Assign, WorkflowTypeOK
    <2> QED BY <1>4, <2>1, <2>2 DEF Assign, WorkflowTypeOK
  <1>5. ASSUME NEW row \in resp, Unassign(row)
        PROVE  RolesInv'
    <2>1. NoDanglingRoles' /\ GroupsTypeOK'
      BY <1>5, EditCounts
      DEF Unassign, WorkflowTypeOK, NoDanglingRoles, IsGroup, GroupsTypeOK
    <2> QED BY <1>5, <2>1 DEF Unassign, WorkflowTypeOK
  <1>6. ASSUME NEW u \in Users, NEW w \in Works,
               Deposit(u, w) \/ TakeAction(u, w)
        PROVE  RolesInv'
    <2>1. NoDanglingRoles' /\ GroupsTypeOK'
      BY <1>6 DEF Deposit, TakeAction, groupVars, WorkflowTypeOK,
                  NoDanglingRoles, IsGroup, GroupsTypeOK
    <2>2. AdminSetOf[w] \in AdminSets
      BY WorkflowAssumption
    <2>3. entityResp' \in SUBSET (Agents \X WorkflowRoles \X Works)
      BY <1>6, <2>2
      DEF Deposit, TakeAction, WorkflowTypeOK, Agents, WorkflowRoles, Roles
    <2>4. \A a \in DOMAIN TransitionTo : TransitionTo[a] \in States
      BY DEF TransitionTo, States
    <2>5. state' \in [Works -> States \cup {"none"}]
      <3>1. CASE Deposit(u, w)
        BY <3>1 DEF Deposit, WorkflowTypeOK, States
      <3>2. CASE TakeAction(u, w)
        <4>1. PICK a \in DOMAIN TransitionTo :
                 state' = [state EXCEPT ![w] = TransitionTo[a]]
          BY <3>2 DEF TakeAction
        <4> QED BY <4>1, <2>4 DEF WorkflowTypeOK
      <3> QED BY <1>6, <3>1, <3>2
    <2> QED BY <1>6, <2>1, <2>3, <2>5 DEF Deposit, TakeAction, WorkflowTypeOK
  <1>7. CASE WorkflowNext
    <2>1. ASSUME NEW creator \in {{}} \cup {{u} : u \in Users}
          PROVE  creator \in SUBSET Users
      OBVIOUS
    <2> QED BY <1>7, <1>2, <1>3, <1>4, <1>5, <1>6, <2>1 DEF WorkflowNext
  <1> QED BY <1>1, <1>7

\* Every table keeps its type; a responsibility is an agent's, and an agent is
\* a user or the name of a group.
THEOREM RolesTyped == WorkflowSpec => []WorkflowTypeOK
  <1>1. WorkflowInit => RolesInv
    BY RolesStart
  <1>2. RolesInv /\ [WorkflowNext]_workflowAndGroupVars => RolesInv'
    BY RolesStep
  <1>3. RolesInv => WorkflowTypeOK
    BY DEF RolesInv
  <1> QED BY <1>1, <1>2, <1>3, PTL DEF WorkflowSpec

-----------------------------------------------------------------------------
(* The queries *)

LEMMA PermissionsMatch ==
  \A p \in Permissions :
     /\ p.on \in StateActions
     /\ p.role \in WorkflowRoles
     /\ p.role[1] = p.on.set
  <1> SUFFICES ASSUME NEW s \in AdminSets, NEW f \in FromStates
               PROVE  LET on == [set |-> s, state |-> f[1], action |-> f[2]]
                      IN  on \in StateActions /\ <<s, f[3]>> \in WorkflowRoles
    BY DEF Permissions
  <1>1. f[3] \in Roles
    BY DEF FromStates, Roles
  <1> QED BY <1>1 DEF StateActions, WorkflowRoles

LEMMA PermissionOf ==
  ASSUME NEW set \in AdminSets, NEW from \in FromStates
  PROVE  [on |-> [set |-> set, state |-> from[1], action |-> from[2]],
          role |-> <<set, from[3]>>] \in Permissions
  <1> DEFINE permission(t, g) ==
               [on |-> [set |-> t, state |-> g[1], action |-> g[2]],
                role |-> <<t, g[3]>>]
  <1>1. Permissions = {permission(t, g) : t \in AdminSets, g \in FromStates}
    BY DEF Permissions
  <1> HIDE DEF permission
  <1>2. permission(set, from) \in Permissions
    BY <1>1
  <1> QED BY <1>2 DEF permission

\* What a permission says of an entity, whichever end the query starts from.
Allows(p, u, w) ==
    /\ p.on.set = AdminSetOf[w] /\ p.on.state = state[w]
    /\ p.role \in RolesOf(u, w)

LEMMA PermittedIsAllowed ==
  ASSUME NEW u, NEW w
  PROVE  /\ PermittedActions(u, w) # {}
               <=> \E p \in Permissions : Allows(p, u, w)
         /\ \A p \in Permissions :
               Allows(p, u, w) => p.on.action \in PermittedActions(u, w)
         /\ \A a \in PermittedActions(u, w) :
               \E p \in Permissions : Allows(p, u, w) /\ p.on.action = a
  <1>1. \A sa : sa \in PermittedStateActions(u, w)
                  <=> /\ sa \in Available(w)
                      /\ \E p \in Permissions :
                            p.on = sa /\ p.role \in RolesOf(u, w)
    BY DEF PermittedStateActions
  <1>2. PermittedActions(u, w) = {sa.action : sa \in PermittedStateActions(u, w)}
    BY <1>1 DEF PermittedActions
  <1>3. \A p \in Permissions :
           Allows(p, u, w) => p.on \in PermittedStateActions(u, w)
    BY <1>1, PermissionsMatch DEF Allows, Available
  <1>4. \A sa \in PermittedStateActions(u, w) :
           \E p \in Permissions : p.on = sa /\ Allows(p, u, w)
    BY <1>1 DEF Allows, Available
  <1> QED BY <1>2, <1>3, <1>4

LEMMA EntitiesAreAllowed ==
  ASSUME NEW u, NEW w
  PROVE  w \in EntitiesFor(u)
            <=> w \in Entities /\ \E p \in Permissions : Allows(p, u, w)
  <1>1. ASSUME NEW p \in Permissions, p.on.set = AdminSetOf[w]
        PROVE  p.role \in RolesOf(u, w)
                  <=> \E a \in AgentsOf(u) :
                         <<a, p.role, w>> \in entityResp \/ <<a, p.role>> \in resp
    BY <1>1, PermissionsMatch DEF RolesOf, RolesOnWorkflow, RolesOnEntity
  <1> QED BY <1>1 DEF EntitiesFor, Allows

\* The works listed for a user are those the user may act on, in every state.
THEOREM ListedIsPermitted == WorkflowSpec => []QueriesAgree
  <1>1. QueriesAgree
    BY PermittedIsAllowed, EntitiesAreAllowed DEF QueriesAgree, EntitiesFor
  <1> QED BY <1>1, PTL

\* The agents of a work and a role are those through which users have it.
THEOREM AgentsAreRoles == WorkflowSpec => []AgentsAgree
  <1>1. ASSUME RolesInv, NEW u \in Users, NEW w \in Works, NEW r \in Roles
        PROVE  AgentsOf(u) \cap AgentsFor(w, r) # {}
                  <=> \E wr \in RolesOf(u, w) : wr[2] = r
    <2>1. AgentsOf(u) \subseteq Agents
      BY <1>1, AgentsTyped
    <2>2. AdminSetOf[w] \in AdminSets
      BY WorkflowAssumption
    <2>3. \A wr \in WorkflowRoles :
             /\ wr = <<wr[1], wr[2]>>
             /\ wr[1] \in AdminSets
      BY DEF WorkflowRoles
    <2>4. \A s \in AdminSets :
             /\ <<s, r>> \in WorkflowRoles
             /\ <<s, r>>[1] = s /\ <<s, r>>[2] = r
      BY DEF WorkflowRoles
    <2>5. ASSUME NEW a \in AgentsOf(u), a \in AgentsFor(w, r)
          PROVE  \E wr \in RolesOf(u, w) : wr[2] = r
      <3>1. CASE <<a, <<AdminSetOf[w], r>>>> \in resp
        BY <3>1, <2>2, <2>4 DEF RolesOf, RolesOnWorkflow
      <3>2. CASE \E s \in AdminSets : <<a, <<s, r>>, w>> \in entityResp
        BY <3>2, <2>4 DEF RolesOf, RolesOnEntity
      <3> QED BY <2>5, <3>1, <3>2 DEF AgentsFor
    <2>6. ASSUME NEW wr \in RolesOf(u, w), wr[2] = r
          PROVE  AgentsOf(u) \cap AgentsFor(w, r) # {}
      <3>1. CASE wr \in RolesOnWorkflow(u, AdminSetOf[w])
        <4>1. PICK a \in AgentsOf(u) : <<a, wr>> \in resp
          BY <3>1 DEF RolesOnWorkflow
        <4>2. wr = <<AdminSetOf[w], r>>
          BY <3>1, <2>3, <2>6 DEF RolesOnWorkflow
        <4> QED BY <4>1, <4>2, <2>1 DEF AgentsFor
      <3>2. CASE wr \in RolesOnEntity(u, w)
        <4>1. PICK a \in AgentsOf(u) : <<a, wr, w>> \in entityResp
          BY <3>2 DEF RolesOnEntity
        <4>2. wr = <<wr[1], r>> /\ wr[1] \in AdminSets
          BY <3>2, <2>3, <2>6 DEF RolesOnEntity
        <4> QED BY <4>1, <4>2, <2>1 DEF AgentsFor
      <3> QED BY <3>1, <3>2 DEF RolesOf
    <2> QED BY <2>5, <2>6
  <1>2. RolesInv => AgentsAgree
    BY <1>1 DEF AgentsAgree, Entities
  <1>3. WorkflowInit => RolesInv
    BY RolesStart
  <1>4. RolesInv /\ [WorkflowNext]_workflowAndGroupVars => RolesInv'
    BY RolesStep
  <1> QED BY <1>2, <1>3, <1>4, PTL DEF WorkflowSpec

\* Whoever is notified to approve may approve.
THEOREM NotifiedAreAllowed == WorkflowSpec => []NotifiedMayApprove
  <1>1. ASSUME NEW w \in Works, state[w] = "pending_review",
               NEW u \in UsersFor(w, "approving")
        PROVE  Authorized(u, w, "approve")
    <2> DEFINE s == AdminSetOf[w]
               p == [on |-> [set |-> s, state |-> "pending_review",
                             action |-> "approve"],
                     role |-> <<s, "approving">>]
    <2>1. s \in AdminSets
      BY WorkflowAssumption
    <2>2. p \in Permissions
      <3>1. <<"pending_review", "approve", "approving">> \in FromStates
        BY DEF FromStates
      <3>2. PICK f \in FromStates :
               f = <<"pending_review", "approve", "approving">>
        BY <3>1
      <3>3. p = [on |-> [set |-> s, state |-> f[1], action |-> f[2]],
                 role |-> <<s, f[3]>>]
        BY <3>2
      <3> QED BY <2>1, <3>3, PermissionOf
    <2>3. u \in AgentsOf(u)
      BY DEF AgentsOf
    <2>4. <<s, "approving">> \in RolesOf(u, w)
      BY <2>1, <2>3, <1>1
      DEF UsersFor, RolesOf, RolesOnWorkflow, RolesOnEntity, WorkflowRoles, Roles
    <2>5. Allows(p, u, w)
      BY <2>4, <1>1 DEF Allows
    <2> QED BY <2>2, <2>5, PermittedIsAllowed DEF Authorized
  <1>2. NotifiedMayApprove
    BY <1>1 DEF NotifiedMayApprove
  <1> QED BY <1>2, PTL

-----------------------------------------------------------------------------
(* Approval *)

\* Only a deposit makes a role on one work, and that role is depositing: so
\* nobody approves by a role on the work alone.
OnlyDepositing ==
    \A a, wr, w : <<a, wr, w>> \in entityResp => wr[2] = "depositing"

LEMMA OnlyDepositingStep ==
  ASSUME OnlyDepositing, [WorkflowNext]_workflowAndGroupVars
  PROVE  OnlyDepositing'
  <1>1. CASE entityResp' = entityResp
    BY <1>1 DEF OnlyDepositing
  <1>2. ASSUME NEW u \in Users, NEW w \in Works, Deposit(u, w)
        PROVE  OnlyDepositing'
    BY <1>2 DEF Deposit, OnlyDepositing
  <1> QED BY <1>1, <1>2 DEF WorkflowNext, workflowAndGroupVars, workflowVars, CreateAdminSet,
             GrantAgain, Assign, Unassign, TakeAction

LEMMA ApprovalIsByReviewer ==
  ASSUME OnlyDepositing, NEW u \in Users, NEW w \in Works,
         "approve" \in PermittedActions(u, w)
  PROVE  \E a \in AgentsOf(u) : <<a, <<AdminSetOf[w], "approving">>>> \in resp
  <1>1. PICK p \in Permissions : Allows(p, u, w) /\ p.on.action = "approve"
    BY PermittedIsAllowed
  <1>2. p.role = <<p.on.set, "approving">>
    <2>1. PICK t \in AdminSets, f \in FromStates :
             p = [on |-> [set |-> t, state |-> f[1], action |-> f[2]],
                  role |-> <<t, f[3]>>]
      BY DEF Permissions
    <2>2. f[2] = "approve" => f[3] = "approving"
      BY DEF FromStates
    <2> QED BY <1>1, <2>1, <2>2
  <1>3. p.role[2] # "depositing"
    BY <1>2
  <1>4. p.role \notin RolesOnEntity(u, w)
    BY <1>3 DEF RolesOnEntity, OnlyDepositing
  <1> QED BY <1>1, <1>2, <1>4 DEF Allows, RolesOf, RolesOnWorkflow

ReviewersDeposit ==
    \A w \in Works :
       state[w] # "deposited" /\ state'[w] = "deposited" =>
           \E u \in Users : \E a \in AgentsOf(u) :
               <<a, <<AdminSetOf[w], "approving">>>> \in resp

LEMMA ReviewersDepositStep ==
  ASSUME WorkflowTypeOK, OnlyDepositing, [WorkflowNext]_workflowAndGroupVars
  PROVE  ReviewersDeposit
  <1>1. CASE state' = state
    BY <1>1 DEF ReviewersDeposit
  <1>2. ASSUME NEW u \in Users, NEW w \in Works, Deposit(u, w)
        PROVE  ReviewersDeposit
    BY <1>2 DEF Deposit, ReviewersDeposit, WorkflowTypeOK
  <1>3. ASSUME NEW u \in Users, NEW w \in Works, TakeAction(u, w)
        PROVE  ReviewersDeposit
    <2>1. PICK a \in PermittedActions(u, w) \cap DOMAIN TransitionTo :
             state' = [state EXCEPT ![w] = TransitionTo[a]]
      BY <1>3 DEF TakeAction
    <2>2. TransitionTo[a] = "deposited" => a = "approve"
      BY <2>1 DEF TransitionTo
    <2>3. \A v \in Works : state'[v] = IF v = w THEN TransitionTo[a] ELSE state[v]
      BY <2>1 DEF WorkflowTypeOK
    <2>4. CASE a = "approve"
      BY <2>1, <2>3, <2>4, ApprovalIsByReviewer DEF ReviewersDeposit
    <2>5. CASE a # "approve"
      BY <2>2, <2>3, <2>5 DEF ReviewersDeposit
    <2> QED BY <2>4, <2>5
  <1> QED BY <1>1, <1>2, <1>3 DEF WorkflowNext, workflowAndGroupVars, workflowVars, CreateAdminSet,
             GrantAgain, Assign, Unassign

\* A work is deposited only while some user is responsible for approving in
\* its admin set.
THEOREM DepositedByReviewers == WorkflowSpec => OnlyReviewersDeposit
  <1>1. WorkflowInit => RolesInv /\ OnlyDepositing
    BY RolesStart DEF WorkflowInit, OnlyDepositing
  <1>2. RolesInv /\ OnlyDepositing /\ [WorkflowNext]_workflowAndGroupVars
           => (RolesInv /\ OnlyDepositing)'
    BY RolesStep, OnlyDepositingStep
  <1>3. RolesInv /\ OnlyDepositing /\ [WorkflowNext]_workflowAndGroupVars => [ReviewersDeposit]_workflowAndGroupVars
    BY ReviewersDepositStep DEF RolesInv
  <1>4. WorkflowSpec => [][ReviewersDeposit]_workflowAndGroupVars
    BY <1>1, <1>2, <1>3, PTL DEF WorkflowSpec
  <1> QED BY <1>4 DEF OnlyReviewersDeposit, ReviewersDeposit

-----------------------------------------------------------------------------
(* Grants and access controls *)

LEMMA RolesAreAgents ==
  /\ RoleGrants \in Seq(Grants)
  /\ AdminGrant \in Grants
  /\ \A u \in Users : DefaultGrants(u) \in SUBSET Grants
  BY DEF RoleGrants, DefaultGrants, AdminGrant, Grants, GrantAgents, SiteRoles

LEMMA RolesRange ==
  Range(RoleGrants) = {AdminGrant, <<"work_depositor", "deposit">>,
                       <<"work_editor", "deposit">>, <<"work_editor", "view">>}
  BY DEF RoleGrants, Range

LEMMA DefaultsEquip ==
  ASSUME NEW u
  PROVE  Range(RoleGrants) \subseteq DefaultGrants(u) /\ IsFiniteSet(DefaultGrants(u))
  <1>1. Range(RoleGrants) \subseteq DefaultGrants(u)
    BY RolesRange DEF DefaultGrants
  <1> DEFINE D1 == {AdminGrant}
             D2 == D1 \cup {<<u, "manage">>}
             D3 == D2 \cup {<<"work_depositor", "deposit">>}
             D4 == D3 \cup {<<"work_editor", "deposit">>}
             D5 == D4 \cup {<<"work_editor", "view">>}
  <1>2. IsFiniteSet(D1)
    BY FS_Singleton
  <1>3. IsFiniteSet(D2)
    BY <1>2, FS_AddElement
  <1>4. IsFiniteSet(D3)
    BY <1>3, FS_AddElement
  <1>5. IsFiniteSet(D4)
    BY <1>4, FS_AddElement
  <1>6. IsFiniteSet(D5)
    BY <1>5, FS_AddElement
  <1>7. D5 = DefaultGrants(u)
    BY DEF DefaultGrants
  <1> QED BY <1>1, <1>6, <1>7

LEMMA AclTyped ==
  ASSUME NEW G \in SUBSET Grants
  PROVE  AclOf(G) \in [edit : SUBSET GrantAgents, read : SUBSET GrantAgents]
  BY DEF AclOf, Grants

LEMMA RestOfSequence ==
  ASSUME NEW s \in Seq(Grants), s # <<>>
  PROVE  /\ Head(s) \in Grants /\ Tail(s) \in Seq(Grants)
         /\ Range(s) \subseteq Range(Tail(s)) \cup {Head(s)}
         /\ Len(s) = 1 => Range(s) = {Head(s)}
         /\ Len(s) # 1 => Tail(s) # <<>>
  <1>1. /\ Head(s) \in Grants /\ Tail(s) \in Seq(Grants)
        /\ Len(Tail(s)) = Len(s) - 1
        /\ \A i \in 1..Len(Tail(s)) : Tail(s)[i] = s[i + 1]
    BY HeadTailProperties
  <1>2. Len(s) \in Nat \ {0} /\ DOMAIN s = 1..Len(s) /\ Head(s) = s[1]
    BY EmptySeq, LenProperties
  <1>3. DOMAIN Tail(s) = 1..(Len(s) - 1)
    BY <1>1, LenProperties
  <1>4. \A i \in 1..Len(s) : i = 1 \/ (i - 1 \in DOMAIN Tail(s) /\ Tail(s)[i - 1] = s[i])
    BY <1>1, <1>2, <1>3
  <1>5. Range(s) \subseteq Range(Tail(s)) \cup {Head(s)}
    BY <1>2, <1>4 DEF Range
  <1>6. Len(s) = 1 => Range(s) = {Head(s)}
    BY <1>2 DEF Range
  <1>7. Len(s) # 1 => Tail(s) # <<>>
    <2>1. ASSUME Tail(s) = <<>> PROVE Len(s) = 1
      <3>1. Len(Tail(s)) = 0
        BY <2>1, EmptySeq
      <3> QED BY <3>1, <1>1, <1>2
    <2> QED BY <2>1
  <1> QED BY <1>1, <1>5, <1>6, <1>7

-----------------------------------------------------------------------------
(* The invariant *)

\* A set without a template has no grants, and nobody at work on them.
TemplateInv ==
    ~template => grants = {} /\ \A p \in Workers : at[p] \in {"idle", "create"}

\* The grants of roles that a job has been over are there.
EnsuredInv ==
    \A p \in Workers :
       /\ at[p] = "grant" => Range(RoleGrants) \subseteq grants \cup Range(left[p])
       /\ at[p] = "compare" => Range(RoleGrants) \subseteq grants

\* If no reset was lost: the access controls are right or some worker will make
\* them anew; one that is about to has read the present grants; and no job
\* counted more grants than there are.
ResetInv ==
    ~torn =>
       /\ acl = AclOf(grants) \/ \E p \in Workers : Pending(p)
       /\ \A p \in Workers : at[p] = "write" => read[p] = grants
       /\ \A p \in Workers : at[p] \in {"grant", "compare"} => first[p] <= Cardinality(grants)

AccessInv ==
    /\ AccessesTypeOK /\ NoDanglingRoles
    /\ IsFiniteSet(grants)
    /\ TemplateInv /\ EnsuredInv /\ EquippedStays /\ ResetInv

LEMMA AccessStart == AccessesInit => AccessInv
  <1> SUFFICES ASSUME AccessesInit PROVE AccessInv
    OBVIOUS
  <1>1. GroupsTypeOK /\ NoDanglingRoles
    BY GroupsStart DEF AccessesInit
  <1>2. grants \in SUBSET Grants /\ IsFiniteSet(grants)
    BY RolesAreAgents, FS_EmptySet, FS_Singleton DEF AccessesInit
  <1>3. acl \in [edit : SUBSET GrantAgents, read : SUBSET GrantAgents]
    BY <1>2, AclTyped DEF AccessesInit
  <1>4. AccessesTypeOK
    <2>1. {saved, template, equipped, torn} \subseteq BOOLEAN
      BY DEF AccessesInit
    <2>2. left \in [Workers -> Seq(Grants)] /\ \A p \in Workers : at[p] = "idle"
      BY EmptySeq DEF AccessesInit
    <2>3. /\ at \in [Workers -> {"idle", "create", "grant", "compare", "read", "write"}]
          /\ first \in [Workers -> Nat] /\ read \in [Workers -> SUBSET Grants]
      BY DEF AccessesInit
    <2> QED BY <1>1, <1>2, <1>3, <2>1, <2>2, <2>3 DEF AccessesTypeOK
  <1>5. TemplateInv /\ EnsuredInv /\ EquippedStays /\ ResetInv
    BY DEF AccessesInit, TemplateInv, EnsuredInv, EquippedStays, ResetInv
  <1> QED BY <1>1, <1>2, <1>4, <1>5 DEF AccessInv


-----------------------------------------------------------------------------
(* Each step keeps the invariant *)

LEMMA GroupsKept ==
  ASSUME GroupsTypeOK, NoDanglingRoles, UNCHANGED groupVars
  PROVE  GroupsTypeOK' /\ NoDanglingRoles'
  BY GroupsStep DEF GroupsInv

LEMMA OneMore ==
  ASSUME IsFiniteSet(grants), NEW g
  PROVE  /\ IsFiniteSet(grants \cup {g})
         /\ Cardinality(grants) \in Nat /\ Cardinality(grants \cup {g}) \in Nat
         /\ Cardinality(grants) <= Cardinality(grants \cup {g})
         /\ g \notin grants => Cardinality(grants) # Cardinality(grants \cup {g})
  <1>1. Cardinality(grants) \in Nat
    BY FS_CardinalityType
  <1>2. /\ IsFiniteSet(grants \cup {g})
        /\ Cardinality(grants \cup {g}) =
              IF g \in grants THEN Cardinality(grants) ELSE Cardinality(grants) + 1
    BY FS_AddElement
  <1> QED BY <1>1, <1>2

LEMMA SaveSetKeeps ==
  ASSUME AccessInv, NEW p \in Workers, SaveSet(p)
  PROVE  AccessInv'
  <1> USE DEF AccessInv
  <1>1. at' = [at EXCEPT ![p] = "create"] /\ at[p] = "idle"
    BY DEF SaveSet, Goto, Idle
  <1>2. GroupsTypeOK' /\ NoDanglingRoles'
    BY GroupsKept DEF SaveSet, AccessesTypeOK
  <1>3. AccessesTypeOK'
    BY <1>1, <1>2 DEF SaveSet, AccessesTypeOK
  <1>4. \A q \in Workers : at'[q] = IF q = p THEN "create" ELSE at[q]
    BY <1>1 DEF AccessesTypeOK
  <1>5. TemplateInv' /\ EnsuredInv' /\ EquippedStays' /\ IsFiniteSet(grants')
    BY <1>1, <1>4 DEF SaveSet, TemplateInv, EnsuredInv, EquippedStays
  <1>6. ResetInv'
    <2>1. \A q \in Workers : Pending(q) => Pending(q)'
      BY <1>1, <1>4 DEF SaveSet, Pending
    <2> QED BY <1>1, <1>4, <2>1 DEF SaveSet, ResetInv
  <1> QED BY <1>2, <1>3, <1>5, <1>6

LEMMA CreateDefaultKeeps ==
  ASSUME AccessInv, NEW p \in Workers, NEW u \in Users, CreateDefault(p, u)
  PROVE  AccessInv'
  <1> USE DEF AccessInv
  <1> DEFINE new == DefaultGrants(u)
             reset == \A g \in new : Known(g[1])
             done == reset /\ AdminGroupExists /\ ~template
  <1>1. /\ at[p] = "create" /\ at' = [at EXCEPT ![p] = "idle"]
        /\ acl' = IF reset /\ ~template THEN AclOf(new) ELSE acl
        /\ template' = (template \/ done)
        /\ grants' = IF done THEN new ELSE grants
        /\ equipped' = (equipped \/ done)
        /\ torn' = (torn \/ (~template /\ (~done \/ Disturbs(p, FALSE))))
        /\ UNCHANGED <<groupVars, saved, left, first, read>>
    BY DEF CreateDefault, Goto
  <1>2. GroupsTypeOK' /\ NoDanglingRoles'
    BY <1>1, GroupsKept DEF AccessesTypeOK
  <1>3. /\ new \in SUBSET Grants /\ IsFiniteSet(new)
        /\ Range(RoleGrants) \subseteq new
        /\ AclOf(new) \in [edit : SUBSET GrantAgents, read : SUBSET GrantAgents]
    BY RolesAreAgents, DefaultsEquip, AclTyped
  <1>4. \A q \in Workers : at'[q] = IF q = p THEN "idle" ELSE at[q]
    BY <1>1 DEF AccessesTypeOK
  <1>5. done \in BOOLEAN /\ (done => ~template /\ reset)
    OBVIOUS
  <1>6. Disturbs(p, FALSE) \in BOOLEAN
    BY DEF Disturbs
  <1> HIDE DEF new, done, reset
  <1>7. AccessesTypeOK'
    <2>1. /\ acl' \in [edit : SUBSET GrantAgents, read : SUBSET GrantAgents]
          /\ grants' \subseteq Grants
      BY <1>1, <1>3 DEF AccessesTypeOK
    <2>2. {saved, template, equipped, torn}' \subseteq BOOLEAN
      BY <1>1, <1>5, <1>6 DEF AccessesTypeOK
    <2>3. /\ at' \in [Workers -> {"idle", "create", "grant", "compare", "read", "write"}]
          /\ left' \in [Workers -> Seq(Grants)]
          /\ \A q \in Workers : at'[q] = "grant" => left'[q] # <<>>
      BY <1>1, <1>4 DEF AccessesTypeOK
    <2> QED BY <1>1, <1>2, <2>1, <2>2, <2>3 DEF AccessesTypeOK
  <1>8. IsFiniteSet(grants')
    BY <1>1, <1>3
  <1>9. TemplateInv'
    BY <1>1, <1>4, <1>5 DEF TemplateInv
  <1>10. EnsuredInv' /\ EquippedStays'
    BY <1>1, <1>3, <1>4, <1>5 DEF TemplateInv, EnsuredInv, EquippedStays
  <1>11. ResetInv'
    <2>1. CASE template
      <3>1. \A q \in Workers : Pending(q) => Pending(q)'
        BY <1>1, <1>4, <1>5, <2>1 DEF Pending
      <3>2. acl' = acl /\ grants' = grants /\ torn' = torn /\ first' = first /\ read' = read
        BY <1>1, <1>5, <1>6, <2>1 DEF AccessesTypeOK
      <3> QED BY <1>4, <3>1, <3>2 DEF ResetInv
    <2>2. CASE ~template
      <3>1. ~torn' => acl' = AclOf(grants')
        BY <1>1, <1>5, <2>2
      <3>2. \A q \in Workers : at'[q] \in {"idle", "create"}
        BY <1>4, <2>2 DEF TemplateInv
      <3>3. acl' = AclOf(grants') => (acl = AclOf(grants))'
        OBVIOUS
      <3> QED BY <3>1, <3>2, <3>3 DEF ResetInv
    <2> QED BY <2>1, <2>2
  <1> QED BY <1>2, <1>7, <1>8, <1>9, <1>10, <1>11

\* A grant that is given or taken: the worker will read the grants anew.
LEMMA ShareKeeps ==
  ASSUME AccessInv, NEW p \in Workers, NEW g \in Grants, Share(p, g)
  PROVE  AccessInv'
  <1> USE DEF AccessInv
  <1>1. /\ at[p] = "idle" /\ at' = [at EXCEPT ![p] = "read"] /\ template
        /\ grants' = grants \cup {g}
        /\ torn' = (torn \/ Disturbs(p, FALSE))
        /\ UNCHANGED <<groupVars, saved, template, acl, left, first, read, equipped>>
    BY DEF Share, Goto, Idle
  <1>2. GroupsTypeOK' /\ NoDanglingRoles'
    BY <1>1, GroupsKept DEF AccessesTypeOK
  <1>3. \A q \in Workers : at'[q] = IF q = p THEN "read" ELSE at[q]
    BY <1>1 DEF AccessesTypeOK
  <1>4. Disturbs(p, FALSE) = (\E q \in Workers \ {p} : at[q] = "write")
    BY DEF Disturbs
  <1>5. AccessesTypeOK'
    <2>1. {saved, template, equipped, torn}' \subseteq BOOLEAN
      BY <1>1, <1>4 DEF AccessesTypeOK
    <2>2. /\ at' \in [Workers -> {"idle", "create", "grant", "compare", "read", "write"}]
          /\ left' \in [Workers -> Seq(Grants)]
          /\ \A q \in Workers : at'[q] = "grant" => left'[q] # <<>>
      BY <1>1, <1>3 DEF AccessesTypeOK
    <2> QED BY <1>1, <1>2, <2>1, <2>2 DEF AccessesTypeOK
  <1>6. IsFiniteSet(grants') /\ Cardinality(grants) <= Cardinality(grants')
        /\ Cardinality(grants) \in Nat /\ Cardinality(grants') \in Nat
    BY <1>1, OneMore
  <1>7. TemplateInv' /\ EnsuredInv' /\ EquippedStays'
    BY <1>1, <1>3 DEF TemplateInv, EnsuredInv, EquippedStays
  <1>8. ResetInv'
    <2>1. Pending(p)'
      BY <1>3 DEF Pending
    <2>2. ~torn' => ~torn /\ \A q \in Workers : at'[q] # "write"
      BY <1>1, <1>3, <1>4 DEF AccessesTypeOK
    <2>3. ~torn' => \A q \in Workers : at'[q] \in {"grant", "compare"}
                        => first'[q] <= Cardinality(grants')
      BY <1>1, <1>3, <1>6, <2>2 DEF ResetInv, AccessesTypeOK
    <2> QED BY <2>1, <2>2, <2>3 DEF ResetInv
  <1> QED BY <1>2, <1>5, <1>6, <1>7, <1>8

LEMMA UnshareKeeps ==
  ASSUME AccessInv, NEW p \in Workers, NEW g \in grants, Unshare(p, g)
  PROVE  AccessInv'
  <1> USE DEF AccessInv
  <1>1. /\ at[p] = "idle" /\ at' = [at EXCEPT ![p] = "read"]
        /\ grants' = grants \ {g} /\ Removable(g)
        /\ torn' = (torn \/ Disturbs(p, TRUE))
        /\ UNCHANGED <<groupVars, saved, template, acl, left, first, read, equipped>>
    BY DEF Unshare, Goto, Idle
  <1>2. GroupsTypeOK' /\ NoDanglingRoles'
    BY <1>1, GroupsKept DEF AccessesTypeOK
  <1>3. \A q \in Workers : at'[q] = IF q = p THEN "read" ELSE at[q]
    BY <1>1 DEF AccessesTypeOK
  <1>4. Disturbs(p, TRUE) =
           (\E q \in Workers \ {p} : at[q] = "write" \/ at[q] \in {"grant", "compare"})
    BY DEF Disturbs
  <1>5. AccessesTypeOK'
    <2>1. {saved, template, equipped, torn}' \subseteq BOOLEAN
      BY <1>1, <1>4 DEF AccessesTypeOK
    <2>2. /\ at' \in [Workers -> {"idle", "create", "grant", "compare", "read", "write"}]
          /\ left' \in [Workers -> Seq(Grants)]
          /\ \A q \in Workers : at'[q] = "grant" => left'[q] # <<>>
      BY <1>1, <1>3 DEF AccessesTypeOK
    <2> QED BY <1>1, <1>2, <2>1, <2>2 DEF AccessesTypeOK
  <1>6. IsFiniteSet(grants')
    BY <1>1, FS_RemoveElement
  <1>7. g \notin Range(RoleGrants)
    BY <1>1, RolesRange DEF Removable, AdminGrant
  <1>8. TemplateInv' /\ EnsuredInv' /\ EquippedStays'
    BY <1>1, <1>3, <1>7 DEF TemplateInv, EnsuredInv, EquippedStays
  <1>9. ResetInv'
    <2>1. Pending(p)'
      BY <1>3 DEF Pending
    <2>2. ~torn' => \A q \in Workers : at'[q] \notin {"write", "grant", "compare"}
      BY <1>1, <1>3, <1>4 DEF AccessesTypeOK
    <2> QED BY <2>1, <2>2 DEF ResetInv
  <1> QED BY <1>2, <1>5, <1>6, <1>8, <1>9

-----------------------------------------------------------------------------
(* The job *)

LEMMA CountGrantsKeeps ==
  ASSUME AccessInv, NEW p \in Workers, CountGrants(p)
  PROVE  AccessInv'
  <1> USE DEF AccessInv
  <1>1. /\ at[p] = "idle" /\ at' = [at EXCEPT ![p] = "grant"] /\ template'
        /\ template' = TRUE
        /\ first' = [first EXCEPT ![p] = Cardinality(grants)]
        /\ left' = [left EXCEPT ![p] = RoleGrants]
        /\ read' = [read EXCEPT ![p] = {}]
        /\ UNCHANGED <<groupVars, saved, grants, acl, equipped, torn>>
    BY DEF CountGrants, Remember, Goto, Idle
  <1>2. GroupsTypeOK' /\ NoDanglingRoles'
    BY <1>1, GroupsKept DEF AccessesTypeOK
  <1>3. /\ \A q \in Workers : at'[q] = IF q = p THEN "grant" ELSE at[q]
        /\ \A q \in Workers : first'[q] = IF q = p THEN Cardinality(grants) ELSE first[q]
        /\ \A q \in Workers : q # p => read'[q] = read[q]
    BY <1>1 DEF AccessesTypeOK
  <1>4. Cardinality(grants) \in Nat
    BY FS_CardinalityType
  <1>5. \A q \in Workers : left'[q] = IF q = p THEN RoleGrants ELSE left[q]
    BY <1>1 DEF AccessesTypeOK
  <1>6. RoleGrants # <<>> /\ RoleGrants \in Seq(Grants)
    BY RolesAreAgents DEF RoleGrants
  <1>7. AccessesTypeOK'
    <2>1. {saved, template, equipped, torn}' \subseteq BOOLEAN
      BY <1>1 DEF AccessesTypeOK
    <2>2. /\ at' \in [Workers -> {"idle", "create", "grant", "compare", "read", "write"}]
          /\ left' \in [Workers -> Seq(Grants)]
          /\ first' \in [Workers -> Nat] /\ read' \in [Workers -> SUBSET Grants]
      BY <1>1, <1>4, <1>6 DEF AccessesTypeOK
    <2>3. \A q \in Workers : at'[q] = "grant" => left'[q] # <<>>
      BY <1>3, <1>5, <1>6 DEF AccessesTypeOK
    <2> QED BY <1>1, <1>2, <2>1, <2>2, <2>3 DEF AccessesTypeOK
  <1>8. TemplateInv' /\ EnsuredInv' /\ EquippedStays' /\ IsFiniteSet(grants')
    BY <1>1, <1>3, <1>5 DEF TemplateInv, EnsuredInv, EquippedStays
  <1>9. ResetInv'
    <2>1. \A q \in Workers : Pending(q) => Pending(q)'
      BY <1>1, <1>3 DEF Pending
    <2>2. ~torn' => acl = AclOf(grants) \/ \E q \in Workers : Pending(q)'
      BY <1>1, <2>1 DEF ResetInv
    <2>3. ~torn' => \A q \in Workers : /\ at'[q] = "write" => read'[q] = grants'
                                       /\ at'[q] \in {"grant", "compare"}
                                             => first'[q] <= Cardinality(grants')
      BY <1>1, <1>3, <1>4 DEF ResetInv
    <2> QED BY <1>1, <2>2, <2>3 DEF ResetInv
  <1> QED BY <1>2, <1>7, <1>8, <1>9

LEMMA EnsureGrantKeeps ==
  ASSUME AccessInv, NEW p \in Workers, EnsureGrant(p)
  PROVE  AccessInv'
  <1> USE DEF AccessInv
  <1> DEFINE g == Head(left[p])
             step == IF Len(left[p]) = 1 THEN "compare" ELSE "grant"
  <1>1. /\ at[p] = "grant" /\ at' = [at EXCEPT ![p] = step]
        /\ grants' = grants \cup {g}
        /\ torn' = (torn \/ (g \notin grants /\ Disturbs(p, FALSE)))
        /\ left' = [left EXCEPT ![p] = Tail(left[p])]
        /\ UNCHANGED <<groupVars, saved, template, acl, first, read, equipped>>
    BY DEF EnsureGrant, Goto, LastGrant
  <1>2. GroupsTypeOK' /\ NoDanglingRoles'
    BY <1>1, GroupsKept DEF AccessesTypeOK
  <1>3. left[p] \in Seq(Grants) /\ left[p] # <<>>
    BY <1>1 DEF AccessesTypeOK
  <1>4. /\ g \in Grants /\ Tail(left[p]) \in Seq(Grants)
        /\ Range(left[p]) \subseteq Range(Tail(left[p])) \cup {g}
        /\ step = "compare" => Range(left[p]) = {g}
        /\ step = "grant" => Tail(left[p]) # <<>>
        /\ step \in {"grant", "compare"}
    BY <1>3, RestOfSequence
  <1>5. Disturbs(p, FALSE) = (\E q \in Workers \ {p} : at[q] = "write")
    BY DEF Disturbs
  <1> HIDE DEF g, step
  <1>6. /\ \A q \in Workers : at'[q] = IF q = p THEN step ELSE at[q]
        /\ \A q \in Workers : left'[q] = IF q = p THEN Tail(left[p]) ELSE left[q]
    BY <1>1 DEF AccessesTypeOK
  <1>7. /\ IsFiniteSet(grants') /\ Cardinality(grants) <= Cardinality(grants')
        /\ Cardinality(grants) \in Nat /\ Cardinality(grants') \in Nat
        /\ g \notin grants => Cardinality(grants) # Cardinality(grants')
    BY <1>1, OneMore
  <1>8. AccessesTypeOK'
    <2>1. {saved, template, equipped, torn}' \subseteq BOOLEAN
      BY <1>1, <1>5 DEF AccessesTypeOK
    <2>2. /\ at' \in [Workers -> {"idle", "create", "grant", "compare", "read", "write"}]
          /\ left' \in [Workers -> Seq(Grants)] /\ grants' \subseteq Grants
      BY <1>1, <1>4 DEF AccessesTypeOK
    <2>3. \A q \in Workers : at'[q] = "grant" => left'[q] # <<>>
      BY <1>4, <1>6 DEF AccessesTypeOK
    <2> QED BY <1>1, <1>2, <2>1, <2>2, <2>3 DEF AccessesTypeOK
  <1>9. TemplateInv' /\ EnsuredInv' /\ EquippedStays'
    BY <1>1, <1>4, <1>6 DEF TemplateInv, EnsuredInv, EquippedStays
  <1>10. ResetInv'
    <2>1. CASE g \in grants
      <3>1. grants' = grants /\ torn' = torn
        BY <1>1, <1>5, <2>1 DEF AccessesTypeOK
      <3>2. \A q \in Workers : Pending(q) => Pending(q)'
        BY <1>1, <1>4, <1>6, <3>1 DEF Pending
      <3>3. ~torn' => acl' = AclOf(grants') \/ \E q \in Workers : Pending(q)'
        BY <1>1, <3>1, <3>2 DEF ResetInv
      <3>4. ~torn' => \A q \in Workers : /\ at'[q] = "write" => read'[q] = grants'
                                         /\ at'[q] \in {"grant", "compare"}
                                               => first'[q] <= Cardinality(grants')
        BY <1>1, <1>4, <1>6, <3>1 DEF ResetInv
      <3> QED BY <3>3, <3>4 DEF ResetInv
    <2>2. CASE g \notin grants /\ ~torn'
      <3>1. ~torn /\ \A q \in Workers : at'[q] # "write"
        BY <1>1, <1>4, <1>5, <1>6, <2>2 DEF AccessesTypeOK
      <3>2. \A q \in Workers : at'[q] \in {"grant", "compare"} => first'[q] <= Cardinality(grants)
        BY <1>1, <1>4, <1>6, <3>1 DEF ResetInv
      <3>3. \A q \in Workers : first'[q] \in Nat
        BY <1>8 DEF AccessesTypeOK
      <3>4. Pending(p)'
        BY <1>4, <1>6, <1>7, <2>2, <3>2, <3>3 DEF Pending
      <3> QED BY <1>7, <3>1, <3>2, <3>3, <3>4 DEF ResetInv
    <2> QED BY <2>1, <2>2 DEF ResetInv
  <1> QED BY <1>2, <1>7, <1>8, <1>9, <1>10

LEMMA CompareCountKeeps ==
  ASSUME AccessInv, NEW p \in Workers, CompareCount(p)
  PROVE  AccessInv'
  <1> USE DEF AccessInv
  <1> DEFINE step == IF Added(p) THEN "read" ELSE "idle"
  <1>1. /\ at[p] = "compare" /\ at' = [at EXCEPT ![p] = step] /\ equipped' = TRUE
        /\ first' = [first EXCEPT ![p] = 0]
        /\ left' = [left EXCEPT ![p] = <<>>]
        /\ read' = [read EXCEPT ![p] = {}]
        /\ UNCHANGED <<groupVars, saved, template, grants, acl, torn>>
    BY DEF CompareCount, Goto, Remember
  <1>2. GroupsTypeOK' /\ NoDanglingRoles'
    BY <1>1, GroupsKept DEF AccessesTypeOK
  <1>3. step \in {"read", "idle"} /\ (step = "idle" => Cardinality(grants) = first[p])
    BY DEF Added
  <1> HIDE DEF step
  <1>4. /\ \A q \in Workers : at'[q] = IF q = p THEN step ELSE at[q]
        /\ \A q \in Workers : q # p => first'[q] = first[q] /\ left'[q] = left[q]
                                         /\ read'[q] = read[q]
    BY <1>1 DEF AccessesTypeOK
  <1>5. AccessesTypeOK'
    <2>1. {saved, template, equipped, torn}' \subseteq BOOLEAN
      BY <1>1 DEF AccessesTypeOK
    <2>2. /\ at' \in [Workers -> {"idle", "create", "grant", "compare", "read", "write"}]
          /\ left' \in [Workers -> Seq(Grants)]
          /\ first' \in [Workers -> Nat] /\ read' \in [Workers -> SUBSET Grants]
      BY <1>1, <1>3, EmptySeq DEF AccessesTypeOK
    <2>3. \A q \in Workers : at'[q] = "grant" => left'[q] # <<>>
      BY <1>3, <1>4 DEF AccessesTypeOK
    <2> QED BY <1>1, <1>2, <2>1, <2>2, <2>3 DEF AccessesTypeOK
  <1>6. TemplateInv' /\ EnsuredInv' /\ EquippedStays' /\ IsFiniteSet(grants')
    BY <1>1, <1>3, <1>4 DEF TemplateInv, EnsuredInv, EquippedStays
  <1>7. ResetInv'
    <2>1. \A q \in Workers : Pending(q) => Pending(q)'
      BY <1>1, <1>3, <1>4 DEF Pending
    <2>2. ~torn' => acl' = AclOf(grants') \/ \E q \in Workers : Pending(q)'
      BY <1>1, <2>1 DEF ResetInv
    <2>3. ~torn' => \A q \in Workers : /\ at'[q] = "write" => read'[q] = grants'
                                       /\ at'[q] \in {"grant", "compare"}
                                             => first'[q] <= Cardinality(grants')
      BY <1>1, <1>3, <1>4 DEF ResetInv
    <2> QED BY <2>2, <2>3 DEF ResetInv
  <1> QED BY <1>2, <1>5, <1>6, <1>7

-----------------------------------------------------------------------------
(* Making the access controls anew, and dying *)

LEMMA ReadGrantsKeeps ==
  ASSUME AccessInv, NEW p \in Workers, ReadGrants(p)
  PROVE  AccessInv'
  <1> USE DEF AccessInv
  <1>1. /\ at[p] = "read" /\ at' = [at EXCEPT ![p] = "write"]
        /\ read' = [read EXCEPT ![p] = grants]
        /\ UNCHANGED <<groupVars, saved, template, grants, acl, left, first, equipped, torn>>
    BY DEF ReadGrants, Goto
  <1>2. GroupsTypeOK' /\ NoDanglingRoles'
    BY <1>1, GroupsKept DEF AccessesTypeOK
  <1>3. \A q \in Workers : /\ at'[q] = IF q = p THEN "write" ELSE at[q]
                           /\ read'[q] = IF q = p THEN grants ELSE read[q]
    BY <1>1 DEF AccessesTypeOK
  <1>4. AccessesTypeOK'
    <2>1. {saved, template, equipped, torn}' \subseteq BOOLEAN
      BY <1>1 DEF AccessesTypeOK
    <2>2. /\ at' \in [Workers -> {"idle", "create", "grant", "compare", "read", "write"}]
          /\ read' \in [Workers -> SUBSET Grants]
          /\ \A q \in Workers : at'[q] = "grant" => left'[q] # <<>>
      BY <1>1, <1>3 DEF AccessesTypeOK
    <2> QED BY <1>1, <1>2, <2>1, <2>2 DEF AccessesTypeOK
  <1>5. TemplateInv' /\ EnsuredInv' /\ EquippedStays' /\ IsFiniteSet(grants')
    BY <1>1, <1>3 DEF TemplateInv, EnsuredInv, EquippedStays
  <1>6. ResetInv'
    <2>1. \A q \in Workers : Pending(q) => Pending(q)'
      BY <1>1, <1>3 DEF Pending
    <2>2. ~torn' => acl' = AclOf(grants') \/ \E q \in Workers : Pending(q)'
      BY <1>1, <2>1 DEF ResetInv
    <2>3. ~torn' => \A q \in Workers : /\ at'[q] = "write" => read'[q] = grants'
                                       /\ at'[q] \in {"grant", "compare"}
                                             => first'[q] <= Cardinality(grants')
      BY <1>1, <1>3 DEF ResetInv
    <2> QED BY <2>2, <2>3 DEF ResetInv
  <1> QED BY <1>2, <1>4, <1>5, <1>6

\* What a worker that becomes idle leaves as it was.
LEMMA ForgetKeeps ==
  ASSUME AccessInv, NEW p \in Workers, Forget(p),
         UNCHANGED <<groupVars, saved, template, grants, equipped>>,
         torn' \in BOOLEAN, acl' \in [edit : SUBSET GrantAgents, read : SUBSET GrantAgents]
  PROVE  /\ AccessesTypeOK' /\ NoDanglingRoles' /\ IsFiniteSet(grants')
         /\ TemplateInv' /\ EnsuredInv' /\ EquippedStays'
         /\ \A q \in Workers : at'[q] = IF q = p THEN "idle" ELSE at[q]
         /\ \A q \in Workers : q # p => first'[q] = first[q] /\ read'[q] = read[q]
  <1> USE DEF AccessInv
  <1>1. /\ at' = [at EXCEPT ![p] = "idle"]
        /\ first' = [first EXCEPT ![p] = 0]
        /\ left' = [left EXCEPT ![p] = <<>>]
        /\ read' = [read EXCEPT ![p] = {}]
    BY DEF Forget, Goto, Remember
  <1>2. GroupsTypeOK' /\ NoDanglingRoles'
    BY GroupsKept DEF AccessesTypeOK
  <1>3. \A q \in Workers :
           /\ at'[q] = IF q = p THEN "idle" ELSE at[q]
           /\ q # p => first'[q] = first[q] /\ left'[q] = left[q] /\ read'[q] = read[q]
    BY <1>1 DEF AccessesTypeOK
  <1>4. AccessesTypeOK'
    <2>1. {saved, template, equipped, torn}' \subseteq BOOLEAN
      BY DEF AccessesTypeOK
    <2>2. /\ at' \in [Workers -> {"idle", "create", "grant", "compare", "read", "write"}]
          /\ left' \in [Workers -> Seq(Grants)]
          /\ first' \in [Workers -> Nat] /\ read' \in [Workers -> SUBSET Grants]
      BY <1>1, EmptySeq DEF AccessesTypeOK
    <2>3. \A q \in Workers : at'[q] = "grant" => left'[q] # <<>>
      BY <1>3 DEF AccessesTypeOK
    <2> QED BY <1>2, <2>1, <2>2, <2>3 DEF AccessesTypeOK
  <1>5. TemplateInv' /\ EnsuredInv' /\ EquippedStays' /\ IsFiniteSet(grants')
    BY <1>3 DEF TemplateInv, EnsuredInv, EquippedStays
  <1> QED BY <1>2, <1>3, <1>4, <1>5

LEMMA WriteAclKeeps ==
  ASSUME AccessInv, NEW p \in Workers, WriteAcl(p)
  PROVE  AccessInv'
  <1> USE DEF AccessInv
  <1>1. /\ at[p] = "write" /\ acl' = AclOf(read[p]) /\ Forget(p)
        /\ UNCHANGED <<groupVars, saved, template, grants, torn, equipped>>
    BY DEF WriteAcl
  <1>2. acl' \in [edit : SUBSET GrantAgents, read : SUBSET GrantAgents]
    BY <1>1, AclTyped DEF AccessesTypeOK
  <1>3. torn' \in BOOLEAN
    BY <1>1 DEF AccessesTypeOK
  <1>4. /\ AccessesTypeOK' /\ NoDanglingRoles' /\ IsFiniteSet(grants')
        /\ TemplateInv' /\ EnsuredInv' /\ EquippedStays'
        /\ \A q \in Workers : at'[q] = IF q = p THEN "idle" ELSE at[q]
        /\ \A q \in Workers : q # p => first'[q] = first[q] /\ read'[q] = read[q]
    BY <1>1, <1>2, <1>3, ForgetKeeps
  <1>5. ResetInv'
    <2>1. ~torn' => acl' = AclOf(grants')
      BY <1>1 DEF ResetInv
    <2>2. ~torn' => \A q \in Workers : /\ at'[q] = "write" => read'[q] = grants'
                                       /\ at'[q] \in {"grant", "compare"}
                                             => first'[q] <= Cardinality(grants')
      BY <1>1, <1>4 DEF ResetInv
    <2>3. acl' = AclOf(grants') => (acl = AclOf(grants))'
      OBVIOUS
    <2> QED BY <2>1, <2>2, <2>3 DEF ResetInv
  <1> QED BY <1>4, <1>5

LEMMA DieKeeps ==
  ASSUME AccessInv, NEW p \in Workers, Die(p)
  PROVE  AccessInv'
  <1> USE DEF AccessInv
  <1>1. /\ Forget(p) /\ torn' = (torn \/ Pending(p))
        /\ UNCHANGED <<groupVars, saved, template, grants, acl, equipped>>
    BY DEF Die
  <1>2. Pending(p) \in BOOLEAN
    BY DEF Pending
  <1>3. torn' \in BOOLEAN /\ acl' \in [edit : SUBSET GrantAgents, read : SUBSET GrantAgents]
    BY <1>1, <1>2 DEF AccessesTypeOK
  <1>4. /\ AccessesTypeOK' /\ NoDanglingRoles' /\ IsFiniteSet(grants')
        /\ TemplateInv' /\ EnsuredInv' /\ EquippedStays'
        /\ \A q \in Workers : at'[q] = IF q = p THEN "idle" ELSE at[q]
        /\ \A q \in Workers : q # p => first'[q] = first[q] /\ read'[q] = read[q]
    BY <1>1, <1>3, ForgetKeeps
  <1>5. ResetInv'
    <2>1. ~torn' => ~torn /\ ~Pending(p)
      BY <1>1, <1>2 DEF AccessesTypeOK
    <2>2. \A q \in Workers : q # p /\ Pending(q) => Pending(q)'
      BY <1>1, <1>4 DEF Pending
    <2>3. ~torn' => acl' = AclOf(grants') \/ \E q \in Workers : Pending(q)'
      BY <1>1, <2>1, <2>2 DEF ResetInv
    <2>4. ~torn' => \A q \in Workers : /\ at'[q] = "write" => read'[q] = grants'
                                       /\ at'[q] \in {"grant", "compare"}
                                             => first'[q] <= Cardinality(grants')
      BY <1>1, <1>4, <2>1 DEF ResetInv
    <2> QED BY <2>3, <2>4 DEF ResetInv
  <1> QED BY <1>4, <1>5

\* Groups and roles change while the set stays as it is.
LEMMA GroupStepKeeps ==
  ASSUME AccessInv, [GroupsNext]_groupVars, UNCHANGED accessVars
  PROVE  AccessInv'
  <1>1. GroupsTypeOK' /\ NoDanglingRoles'
    BY GroupsStep DEF GroupsInv, AccessInv, AccessesTypeOK
  <1>2. AccessesTypeOK'
    BY <1>1 DEF AccessInv, AccessesTypeOK, accessVars
  <1>3. IsFiniteSet(grants') /\ TemplateInv' /\ EnsuredInv' /\ EquippedStays' /\ ResetInv'
    BY DEF AccessInv, accessVars, TemplateInv, EnsuredInv, EquippedStays, ResetInv, Pending
  <1> QED BY <1>1, <1>2, <1>3 DEF AccessInv

LEMMA AccessKept ==
  ASSUME AccessInv, [AccessesNext]_accessAndGroupVars
  PROVE  AccessInv'
  <1>1. CASE UNCHANGED accessAndGroupVars
    BY <1>1, GroupStepKeeps DEF accessAndGroupVars
  <1>2. CASE GroupsNext /\ UNCHANGED accessVars
    BY <1>2, GroupStepKeeps
  <1>3. CASE AccessStep
    <2>1. ASSUME NEW p \in Workers, NEW g \in Shares, Share(p, g)
          PROVE  AccessInv'
      BY <2>1, AccessesAssumption, ShareKeeps
    <2> QED BY <1>3, <2>1, SaveSetKeeps, CreateDefaultKeeps, UnshareKeeps, CountGrantsKeeps,
               EnsureGrantKeeps, CompareCountKeeps, ReadGrantsKeeps, WriteAclKeeps, DieKeeps
            DEF AccessStep
  <1> QED BY <1>1, <1>2, <1>3 DEF AccessesNext

LEMMA AccessAlways == AccessesSpec => []AccessInv
  BY AccessStart, AccessKept, PTL DEF AccessesSpec

-----------------------------------------------------------------------------
(* Theorems *)

\* Every value has its type, for any number of workers and grants.
THEOREM AccessesTyped == AccessesSpec => []AccessesTypeOK
  <1>1. AccessInv => AccessesTypeOK
    BY DEF AccessInv
  <1> QED BY <1>1, AccessAlways, PTL

\* Grants never make a reference to what is gone: SiteGroups' invariant holds
\* along every behaviour of this module.
THEOREM NoneDanglingHere == AccessesSpec => []NoDanglingRoles
  <1>1. AccessInv => NoDanglingRoles
    BY DEF AccessInv
  <1> QED BY <1>1, AccessAlways, PTL

\* The roles keep their grants once a creation or the job has come to an end.
THEOREM RolesKeepGrants == AccessesSpec => []EquippedStays
  <1>1. AccessInv => EquippedStays
    BY DEF AccessInv
  <1> QED BY <1>1, AccessAlways, PTL

\* Once nobody is at work, and no reset was lost, the access controls are those
\* of the grants.
LEMMA QuietIsRight == ASSUME AccessInv PROVE AclIsGrants
  BY DEF AccessInv, ResetInv, AclIsGrants, Quiet, Idle, Pending

\* The access controls follow the grants, however workers overlap.
THEOREM AclFollowsGrants == AccessesSpec => []AclIsGrants
  BY QuietIsRight, AccessAlways, PTL

\* An agent with a role that has a grant has it as one of its own.
LEMMA EquippedRoles ==
  ASSUME AccessInv, Quiet, ~torn, equipped
  PROVE  /\ AdminGrant \in grants /\ <<"work_depositor", "deposit">> \in grants
         /\ <<"work_editor", "deposit">> \in grants
         /\ "admin" \in acl.edit
         /\ {"work_depositor", "work_editor"} \subseteq acl.read
  <1>1. /\ AdminGrant \in grants /\ <<"work_depositor", "deposit">> \in grants
        /\ <<"work_editor", "deposit">> \in grants
    BY RolesRange DEF AccessInv, EquippedStays
  <1>2. acl = AclOf(grants)
    BY QuietIsRight DEF AclIsGrants
  <1>3. /\ AdminGrant[1] = "admin" /\ AdminGrant[2] = "manage"
        /\ <<"work_depositor", "deposit">>[2] # "manage"
        /\ <<"work_editor", "deposit">>[2] # "manage"
    BY DEF AdminGrant
  <1>4. "admin" \in acl.edit
    BY <1>1, <1>2, <1>3 DEF AclOf
  <1>5. "work_depositor" \in acl.read
    BY <1>1, <1>2, <1>3 DEF AclOf
  <1>6. "work_editor" \in acl.read
    BY <1>1, <1>2, <1>3 DEF AclOf
  <1> QED BY <1>1, <1>4, <1>5, <1>6

LEMMA RolesReach ==
  ASSUME AccessInv
  PROVE  RolesReachTheSet
  <1> SUFFICES ASSUME Quiet, ~torn, equipped, NEW u \in Users
               PROVE  /\ MayCreateWork(u) => AdminSetWithDeposit(u) /\ Found(u)
                      /\ HasGroupAwareRole(u, "admin") => TestEdit(u)
    BY DEF RolesReachTheSet
  <1>1. /\ AdminGrant \in grants /\ <<"work_depositor", "deposit">> \in grants
        /\ <<"work_editor", "deposit">> \in grants
        /\ "admin" \in acl.edit
        /\ {"work_depositor", "work_editor"} \subseteq acl.read
    BY EquippedRoles
  <1>2. \A r \in SiteRoles : HasGroupAwareRole(u, r) => r \in GrantAgentsOf(u)
    BY DEF GrantAgentsOf, UserGroups
  <1>3. ASSUME NEW r \in SiteRoles, HasGroupAwareRole(u, r)
        PROVE  AdminSetWithDeposit(u) /\ Found(u)
    <2>1. r \in GrantAgentsOf(u)
      BY <1>2, <1>3
    <2>2. Found(u)
      BY <1>1, <2>1 DEF Found, SiteRoles
    <2>3. \E g \in grants : g[1] = r /\ g[2] \in {"deposit", "manage"}
      BY <1>1 DEF SiteRoles, AdminGrant
    <2> QED BY <2>1, <2>2, <2>3 DEF AdminSetWithDeposit
  <1>4. AdminSetWithDeposit(u) => Found(u)
    <2> SUFFICES ASSUME AdminSetWithDeposit(u) PROVE Found(u)
      OBVIOUS
    <2>1. PICK g \in grants : g[1] \in GrantAgentsOf(u)
      BY DEF AdminSetWithDeposit
    <2>2. acl = AclOf(grants)
      BY QuietIsRight DEF AclIsGrants
    <2>3. g[1] \in acl.edit \cup acl.read
      BY <2>2 DEF AclOf
    <2> QED BY <2>1, <2>3 DEF Found
  <1>5. HasGroupAwareRole(u, "admin") => TestEdit(u)
    BY <1>1, <1>2 DEF TestEdit, SiteRoles
  <1> QED BY <1>3, <1>4, <1>5 DEF MayCreateWork

\* Whoever has a role, directly or through a group, reaches the set by it.
THEOREM RolesReachSet == AccessesSpec => []RolesReachTheSet
  BY RolesReach, AccessAlways, PTL

=============================================================================
