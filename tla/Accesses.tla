------------------------------- MODULE Accesses -------------------------------
(***************************************************************************)
(* Access to an admin set: the grants of its permission template, in the   *)
(* database, and the access controls made from them, in Fedora and Solr.   *)
(* Creating the set, its sharing page and CreateAdminSetAccessesJob change *)
(* the first and then make the second anew, and may die in between.  Who   *)
(* has access follows from the users' groups and roles, which SiteGroups   *)
(* changes at the same time.                                               *)
(*                                                                         *)
(* An agent is the name of a user, a group or a role: grants and access    *)
(* controls do not tell a role from a group.  Collections work the same    *)
(* way with the three collection roles.                                    *)
(***************************************************************************)
EXTENDS SiteGroups, Sequences, FiniteSets, Functions

CONSTANTS
    Workers,        \* requests and jobs at work on the set
    Shares          \* grants that the sharing page gives and takes

GrantAgents == Users \cup Names \cup SiteRoles
Grants == GrantAgents \X {"manage", "deposit", "view"}

ASSUME AccessesAssumption == Shares \subseteq Grants /\ IsFiniteSet(Shares)

VARIABLES
    saved,          \* the set is in Fedora
    template,       \* its permission template has a row
    grants,         \* the template's access_grants
    acl,            \* [edit, read |-> set of agents]
    at,             \* [Workers -> step]
    left,           \* [Workers -> Seq(Grants)]: what a job still has to ensure
    first,          \* [Workers -> Nat]: original_access_grants_count
    read,           \* [Workers -> SUBSET Grants]: grants read for a reset
    equipped,       \* history: creation or the job has come to an end
    torn            \* history: a reset was lost, see Disturbs and Die

accessVars == <<saved, template, grants, acl, at, left, first, read, equipped, torn>>
accessAndGroupVars == <<groupVars, accessVars>>

-----------------------------------------------------------------------------
(* Grants and access controls *)

AdminGrant == <<"admin", "manage">>
RoleGrants == <<AdminGrant, <<"work_depositor", "deposit">>,
                <<"work_editor", "deposit">>, <<"work_editor", "view">> >>

\* The definitions marked "variant" are not used: each is a mistake that breaks
\* one of the properties.
WithoutEditors(u) ==                                                \* variant
    {AdminGrant, <<u, "manage">>, <<"work_depositor", "deposit">>}

\* PermissionsCreateService for an admin set; the managers of its type are the
\* admin group.
DefaultGrants(u) ==
    {AdminGrant, <<u, "manage">>, <<"work_depositor", "deposit">>,
     <<"work_editor", "deposit">>, <<"work_editor", "view">>}

AclOf(G) == [edit |-> {g[1] : g \in {h \in G : h[2] = "manage"}},
             read |-> {g[1] : g \in {h \in G : h[2] # "manage"}}]

AnyShare(g) == TRUE                                                 \* variant

\* The sharing page does not show the grants of roles, and not for the admin
\* group's management.
Removable(g) == g # AdminGrant /\ g[1] \notin {"work_editor", "work_depositor"}

\* The agent of an access control is the group or else the role of that name.
Known(a) == a \in Users \/ Named(a) # {} \/ a \in rows

Idle(p) == at[p] = "idle"
Quiet == \A p \in Workers : Idle(p)

\* A worker that will make the access controls anew.
Pending(p) ==
    \/ at[p] \in {"read", "write"}
    \/ at[p] \in {"grant", "compare"} /\ first[p] # Cardinality(grants)

\* A change of the grants that another worker does not see: it has read them
\* already, or counts them while one goes.
Disturbs(p, removes) ==
    \E q \in Workers \ {p} :
       \/ at[q] = "write"
       \/ removes /\ at[q] \in {"grant", "compare"}

\* What a worker remembers: nothing when it is idle.
Remember(p, n, todo, G) ==
    /\ first' = [first EXCEPT ![p] = n]
    /\ left' = [left EXCEPT ![p] = todo]
    /\ read' = [read EXCEPT ![p] = G]

Goto(p, step) == at' = [at EXCEPT ![p] = step]
Forget(p) == Goto(p, "idle") /\ Remember(p, 0, <<>>, {})

-----------------------------------------------------------------------------
(* Creation of the set *)

SaveSet(p) ==
    /\ Idle(p) /\ ~saved
    /\ saved' = TRUE
    /\ Goto(p, "create")
    /\ UNCHANGED <<groupVars, template, grants, acl, left, first, read, equipped, torn>>

\* One database transaction around the template, the access controls and the
\* workflows, which need the admin group.  The access controls are not undone.
CreateDefault(p, u) ==
    /\ at[p] = "create"
    /\ Goto(p, "idle")
    /\ LET new == DefaultGrants(u)
           reset == \A g \in new : Known(g[1])
           done == reset /\ AdminGroupExists /\ ~template
       IN  /\ acl' = IF reset /\ ~template THEN AclOf(new) ELSE acl
           /\ template' = (template \/ done)
           /\ grants' = IF done THEN new ELSE grants
           /\ equipped' = (equipped \/ done)
           /\ torn' = (torn \/ (~template /\ (~done \/ Disturbs(p, FALSE))))
    /\ UNCHANGED <<groupVars, saved, left, first, read>>

-----------------------------------------------------------------------------
(* The sharing page *)

Share(p, g) ==
    /\ Idle(p) /\ template
    /\ grants' = grants \cup {g}
    /\ Goto(p, "read")
    /\ torn' = (torn \/ Disturbs(p, FALSE))
    /\ UNCHANGED <<groupVars, saved, template, acl, left, first, read, equipped>>

Unshare(p, g) ==
    /\ Idle(p) /\ g \in grants /\ Removable(g)
    /\ grants' = grants \ {g}
    /\ Goto(p, "read")
    /\ torn' = (torn \/ Disturbs(p, TRUE))
    /\ UNCHANGED <<groupVars, saved, template, acl, left, first, read, equipped>>

-----------------------------------------------------------------------------
(* CreateAdminSetAccessesJob, at the set *)

CountGrants(p) ==
    /\ Idle(p) /\ saved
    /\ template' = TRUE
    /\ Remember(p, Cardinality(grants), RoleGrants, {})
    /\ Goto(p, "grant")
    /\ UNCHANGED <<groupVars, saved, grants, acl, equipped, torn>>

LastGrant(p) == Len(left[p]) = 1

EnsureGrant(p) ==
    /\ at[p] = "grant"
    /\ LET g == Head(left[p])
       IN  /\ grants' = grants \cup {g}
           /\ torn' = (torn \/ (g \notin grants /\ Disturbs(p, FALSE)))
    /\ left' = [left EXCEPT ![p] = Tail(@)]
    /\ Goto(p, IF LastGrant(p) THEN "compare" ELSE "grant")
    /\ UNCHANGED <<groupVars, saved, template, acl, first, read, equipped>>

AddedFirst(p) == first[p] = 0 /\ grants # {}                        \* variant
Added(p) == Cardinality(grants) # first[p]

CompareCount(p) ==
    /\ at[p] = "compare"
    /\ equipped' = TRUE
    /\ Goto(p, IF Added(p) THEN "read" ELSE "idle")
    /\ Remember(p, 0, <<>>, {})
    /\ UNCHANGED <<groupVars, saved, template, grants, acl, torn>>

-----------------------------------------------------------------------------
(* Making the access controls anew, and dying *)

ReadGrants(p) ==
    /\ at[p] = "read"
    /\ read' = [read EXCEPT ![p] = grants]
    /\ Goto(p, "write")
    /\ UNCHANGED <<groupVars, saved, template, grants, acl, left, first, equipped, torn>>

WriteAcl(p) ==
    /\ at[p] = "write"
    /\ acl' = AclOf(read[p])
    /\ Forget(p)
    /\ UNCHANGED <<groupVars, saved, template, grants, equipped, torn>>

\* A job that died is run again from the start: CountGrants.
Die(p) ==
    /\ ~Idle(p)
    /\ Forget(p)
    /\ torn' = (torn \/ Pending(p))
    /\ UNCHANGED <<groupVars, saved, template, grants, acl, equipped>>

-----------------------------------------------------------------------------

\* No set yet, or one from before there were grants for roles.
AccessesInit ==
    /\ GroupsInit
    /\ \/ saved = FALSE /\ template = FALSE /\ grants = {}
       \/ saved = TRUE /\ template = TRUE /\ grants = {AdminGrant}
    /\ acl = AclOf(grants)
    /\ equipped = FALSE /\ torn = FALSE
    /\ at = [p \in Workers |-> "idle"]
    /\ left = [p \in Workers |-> <<>>]
    /\ first = [p \in Workers |-> 0]
    /\ read = [p \in Workers |-> {}]

AccessStep ==
    \E p \in Workers :
       \/ SaveSet(p)
       \/ \E u \in Users : CreateDefault(p, u)
       \/ \E g \in Shares : Share(p, g)
       \/ \E g \in grants : Unshare(p, g)
       \/ CountGrants(p) \/ EnsureGrant(p) \/ CompareCount(p)
       \/ ReadGrants(p) \/ WriteAcl(p) \/ Die(p)

AccessesNext == AccessStep \/ (GroupsNext /\ UNCHANGED accessVars)

AccessesSpec == AccessesInit /\ [][AccessesNext]_accessAndGroupVars

-----------------------------------------------------------------------------
(* Abilities *)

HyraxGroups(u) == {g \in Groups : <<u, g>> \in members}

HasGroupAwareRole(u, r) ==
    r \in direct[u] \/ \E g \in HyraxGroups(u) : r \in groupRoles[g]

OwnRoles(u) ==                                                      \* variant
    {name[g] : g \in HyraxGroups(u)} \cup direct[u]

\* Names of groups and of roles in one set.  All users and the public have no
\* grants here.
UserGroups(u) ==
    {name[g] : g \in HyraxGroups(u)} \cup {r \in SiteRoles : HasGroupAwareRole(u, r)}

GrantAgentsOf(u) == UserGroups(u) \cup {u}

\* By its access controls the user finds the set in a search, or may edit it.
Found(u) == (acl.edit \cup acl.read) \cap GrantAgentsOf(u) # {}
TestEdit(u) == acl.edit \cap GrantAgentsOf(u) # {}

AdminSetWithDeposit(u) ==
    \E g \in grants : g[1] \in GrantAgentsOf(u) /\ g[2] \in {"deposit", "manage"}

MayCreateWork(u) ==
    \/ \E r \in SiteRoles : HasGroupAwareRole(u, r)
    \/ AdminSetWithDeposit(u)

-----------------------------------------------------------------------------
(* Properties *)

AccessesTypeOK ==
    /\ GroupsTypeOK
    /\ {saved, template, equipped, torn} \subseteq BOOLEAN
    /\ grants \subseteq Grants
    /\ acl \in [edit : SUBSET GrantAgents, read : SUBSET GrantAgents]
    /\ at \in [Workers -> {"idle", "create", "grant", "compare", "read", "write"}]
    /\ left \in [Workers -> Seq(Grants)]
    /\ \A p \in Workers : at[p] = "grant" => left[p] # <<>>
    /\ first \in [Workers -> Nat]
    /\ read \in [Workers -> SUBSET Grants]

\* "access_grants for Roles should never be allowed to be removed": once the
\* set was created or the job has been over it, the roles have their grants,
\* whatever is shared meanwhile.
EquippedStays == equipped => Range(RoleGrants) \subseteq grants

\* When nobody is at work on the set, its access controls say what its grants
\* say, although the job makes them anew only if the number of grants differs.
\* The workers may overlap; exempt is what Disturbs and Die name.
AclIsGrants == Quiet /\ ~torn => acl = AclOf(grants)

\* Abilities and search agree: whoever may create works because of a role,
\* directly or through a group, has the equipped set to deposit into and finds
\* it; an administrator may edit it.
RolesReachTheSet ==
    Quiet /\ ~torn /\ equipped =>
       \A u \in Users :
          /\ MayCreateWork(u) => AdminSetWithDeposit(u) /\ Found(u)
          /\ HasGroupAwareRole(u, "admin") => TestEdit(u)

=============================================================================
