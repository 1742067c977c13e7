---------------------------- MODULE WorkflowRoles ----------------------------
(***************************************************************************)
(* Who may take which workflow action on a work: the responsibilities that *)
(* PermissionGrantor gives out when an admin set is created and when       *)
(* GrantWorkflowRolesForAllAdminSetsJob runs, those that the workflow      *)
(* roles page and a deposit add, and the queries of PermissionQuery that   *)
(* are asked about them, over the users, groups and roles of SiteGroups.   *)
(*                                                                         *)
(* Every admin set has its own copy of the mediated deposit workflow, so a *)
(* workflow role is an admin set and a role.  (The default workflow has no *)
(* action to permit.)  An agent is a user, or a group BY NAME.             *)
(***************************************************************************)
EXTENDS SiteGroups

CONSTANTS
    AdminSets,
    Works,
    AdminSetOf      \* [Works -> AdminSets]: where each work is deposited

ASSUME WorkflowAssumption == AdminSetOf \in [Works -> AdminSets]

Agents == Users \cup Names
Roles == {"managing", "approving", "depositing"}
WorkflowRoles == AdminSets \X Roles

States == {"pending_review", "changes_required", "deposited"}
Actions == {"request_changes", "approve", "request_review", "comment_only"}

\* one_step_mediated_deposit: in which state which role may take which action.
FromStates ==
    { <<"pending_review", "request_changes", "approving">>,
      <<"deposited", "request_changes", "approving">>,
      <<"pending_review", "approve", "approving">>,
      <<"changes_required", "request_review", "depositing">>,
      <<"pending_review", "comment_only", "approving">>,
      <<"deposited", "comment_only", "approving">>,
      <<"changes_required", "comment_only", "depositing">> }

TransitionTo ==
    [ request_changes |-> "changes_required",
      approve |-> "deposited",
      request_review |-> "pending_review" ]

\* workflow_state_actions and workflow_state_action_permissions
StateAction == [set : AdminSets, state : States, action : Actions]
StateActions ==
    {[set |-> s, state |-> f[1], action |-> f[2]] :
        s \in AdminSets, f \in FromStates}
Permissions ==
    {[on |-> [set |-> s, state |-> f[1], action |-> f[2]],
      role |-> <<s, f[3]>>] : s \in AdminSets, f \in FromStates}

VARIABLES
    sets,           \* [AdminSets -> "none", "bare" (no template), "ready"]
    resp,           \* <<agent, workflow role>>: workflow_responsibilities
    entityResp,     \* <<agent, workflow role, work>>: entity-specific ones
    state           \* [Works -> States, "none" before the deposit]

workflowVars == <<sets, resp, entityResp, state>>
workflowAndGroupVars == <<groupVars, workflowVars>>

WorkflowTypeOK ==
    /\ GroupsTypeOK
    /\ sets \in [AdminSets -> {"none", "bare", "ready"}]
    /\ resp \in SUBSET (Agents \X WorkflowRoles)
    /\ entityResp \in SUBSET (Agents \X WorkflowRoles \X Works)
    /\ state \in [Works -> States \cup {"none"}]

WorkflowInit ==
    /\ GroupsInit
    /\ sets = [s \in AdminSets |-> "none"]
    /\ resp = {}
    /\ entityResp = {}
    /\ state = [w \in Works |-> "none"]

-----------------------------------------------------------------------------
(* PermissionQuery *)

Entities == {w \in Works : state[w] # "none"}

\* scope_processing_agents_for: the user's own agent and those of the groups.
AgentsOf(u) == {u} \cup {name[m[2]] : m \in {n \in members : n[1] = u}}

RolesOnWorkflow(u, s) ==
    LET agents == AgentsOf(u)
    IN  {wr \in WorkflowRoles :
            wr[1] = s /\ \E a \in agents : <<a, wr>> \in resp}

\* The definitions marked "variant" are not used: each is a mistake that breaks
\* one of the properties.
RolesOnAnyEntity(u, w) ==                                           \* variant
    {wr \in WorkflowRoles :
        \E a \in AgentsOf(u), v \in Works : <<a, wr, v>> \in entityResp}
RolesOnEntity(u, w) ==
    LET agents == AgentsOf(u)
    IN  {wr \in WorkflowRoles :
            \E a \in agents : <<a, wr, w>> \in entityResp}

RolesOf(u, w) == RolesOnWorkflow(u, AdminSetOf[w]) \cup RolesOnEntity(u, w)

Available(w) ==
    {sa \in StateActions : sa.set = AdminSetOf[w] /\ sa.state = state[w]}

\* scope_permitted_entity_workflow_state_actions
PermittedStateActions(u, w) ==
    LET roles == RolesOf(u, w)
    IN  {sa \in Available(w) :
            \E p \in Permissions : p.on = sa /\ p.role \in roles}

\* authorized_for_processing? looks the action up among these.
PermittedToAnyRole(u, w) == {sa.action : sa \in Available(w)}       \* variant
PermittedActions(u, w) ==
    {sa.action : sa \in Available(w)}
        \cap {sa.action : sa \in PermittedStateActions(u, w)}
Authorized(u, w, a) == a \in PermittedActions(u, w)

\* scope_entities_for_the_user, written as other joins
EntitiesFor(u) ==
    LET agents == AgentsOf(u)
    IN  {w \in Entities :
            \E p \in Permissions :
               /\ p.on.set = AdminSetOf[w] /\ p.on.state = state[w]
               /\ \E a \in agents :
                     <<a, p.role, w>> \in entityResp \/ <<a, p.role>> \in resp}

\* scope_agents_associated_with_entity_and_role
AgentsInAnySet(w, r) ==                                             \* variant
    {a \in Agents :
        \E wr \in WorkflowRoles :
           wr[2] = r /\ (<<a, wr, w>> \in entityResp \/ <<a, wr>> \in resp)}
AgentsFor(w, r) ==
    {a \in Agents :
        \/ \E s \in AdminSets : <<a, <<s, r>>, w>> \in entityResp
        \/ <<a, <<AdminSetOf[w], r>>>> \in resp}

\* scope_users_for_entity_and_roles, of one role: who is notified
UsersInAnySet(w, r) ==                                              \* variant
    {u \in Users : \E s \in AdminSets : <<u, <<s, r>>>> \in resp}
UsersFor(w, r) ==
    {u \in Users :
        LET wr == <<AdminSetOf[w], r>>
        IN  <<u, wr>> \in resp \/ <<u, wr, w>> \in entityResp}

-----------------------------------------------------------------------------
(* PermissionGrantor *)

WithSiteRole(r) ==
    {name[g] : g \in {h \in Groups : IsGroup(h) /\ r \in groupRoles[h]}}
        \cup {u \in Users : r \in direct[u]}

\* The responsibilities of one call, for the workflow of admin set s.
Granted(s, creator) ==
    (({"admin"} \cup creator \cup WithSiteRole("admin")) \X ({s} \X Roles))
        \cup (WithSiteRole("work_editor")
                 \X ({s} \X {"approving", "depositing"}))
        \cup (WithSiteRole("work_depositor") \X ({s} \X {"depositing"}))

\* Hyrax::AdminSetCreateService#create!, by a user or (the default set) none.
\* The admin set is in Fedora before the transaction with its template and its
\* grants, which fails as a whole when there is no group named admin.
CreateAdminSet(s, creator) ==
    /\ sets[s] = "none"
    /\ IF AdminGroupExists
       THEN /\ sets' = [sets EXCEPT ![s] = "ready"]
            /\ resp' = resp \cup Granted(s, creator)
       ELSE /\ sets' = [sets EXCEPT ![s] = "bare"]
            /\ UNCHANGED resp
    /\ UNCHANGED <<groupVars, entityResp, state>>

\* GrantWorkflowRolesForAllAdminSetsJob comes to admin set s.  (It fails at one
\* that has no template.)
GrantAgain(s) ==
    /\ sets[s] = "ready" /\ AdminGroupExists
    /\ resp' = resp \cup Granted(s, {})
    /\ UNCHANGED <<groupVars, sets, entityResp, state>>

\* WorkflowRolesController#create, for a user or a group, and #destroy
Assign(a, wr) ==
    /\ Edit
    /\ sets[wr[1]] = "ready"
    /\ a \in Users \/ Named(a) # {}
    /\ resp' = resp \cup {<<a, wr>>}
    /\ UNCHANGED <<name, groupRoles, direct, members, rows, sets, entityResp,
                   state>>

Unassign(row) ==
    /\ Edit
    /\ resp' = resp \ {row}
    /\ UNCHANGED <<name, groupRoles, direct, members, rows, sets, entityResp,
                   state>>

-----------------------------------------------------------------------------
(* Works *)

\* A deposit makes the depositor depositing on the work and runs the deposit
\* action, which is in no state's from_states.
Deposit(u, w) ==
    /\ state[w] = "none" /\ sets[AdminSetOf[w]] = "ready"
    /\ state' = [state EXCEPT ![w] = "pending_review"]
    /\ entityResp' = entityResp
                        \cup {<<u, <<AdminSetOf[w], "depositing">>, w>>}
    /\ UNCHANGED <<groupVars, sets, resp>>

\* An authorized action that has a transition_to (comment_only has none).
TakeAction(u, w) ==
    /\ w \in Entities
    /\ \E a \in PermittedActions(u, w) \cap DOMAIN TransitionTo :
          state' = [state EXCEPT ![w] = TransitionTo[a]]
    /\ UNCHANGED <<groupVars, sets, resp, entityResp>>

WorkflowNext ==
    \/ GroupsNext /\ UNCHANGED workflowVars
    \/ \E s \in AdminSets :
          \/ \E creator \in {{}} \cup {{u} : u \in Users} :
                CreateAdminSet(s, creator)
          \/ GrantAgain(s)
    \/ \E a \in Agents, wr \in WorkflowRoles : Assign(a, wr)
    \/ \E row \in resp : Unassign(row)
    \/ \E u \in Users, w \in Works : Deposit(u, w) \/ TakeAction(u, w)

WorkflowSpec == WorkflowInit /\ [][WorkflowNext]_workflowAndGroupVars

-----------------------------------------------------------------------------
(* Properties *)

\* The works listed as waiting for a user are exactly those on which the user
\* is permitted some action: two queries over the same tables, joined from the
\* two ends, agree.
QueriesAgree ==
    \A u \in Users :
        EntitiesFor(u) = {w \in Entities : PermittedActions(u, w) # {}}

\* The agents found for a work and a role are those through which users have
\* that role on it.
AgentsAgree ==
    \A u \in Users, w \in Entities, r \in Roles :
        AgentsOf(u) \cap AgentsFor(w, r) # {}
            <=> \E wr \in RolesOf(u, w) : wr[2] = r

\* Whoever is notified as a reviewer of a work that is up for review may
\* approve it.
NotifiedMayApprove ==
    \A w \in Works :
        state[w] = "pending_review" =>
            \A u \in UsersFor(w, "approving") : Authorized(u, w, "approve")

\* A work becomes "deposited" only while some user, in person or through the
\* name of a group, is responsible for approving in its admin set.
OnlyReviewersDeposit ==
    [][\A w \in Works :
          state[w] # "deposited" /\ state'[w] = "deposited" =>
              \E u \in Users : \E a \in AgentsOf(u) :
                  <<a, <<AdminSetOf[w], "approving">>>> \in resp]_workflowAndGroupVars

=============================================================================
