------------------------------ MODULE SiteGroups -----------------------------
(***************************************************************************)
(* Users, Hyrax groups and site roles of one tenant, as the administration *)
(* pages change them (Admin::GroupsController, GroupUsersController,       *)
(* GroupRolesController, UsersController, the invitations) and as          *)
(* create_default_hyrax_groups_with_roles! leaves them.                    *)
(*                                                                         *)
(* A group row has an id that never changes and a name, by which           *)
(* everything else knows it.  The default rows are called after the names  *)
(* they are created with.                                                  *)
(***************************************************************************)
EXTENDS Naturals

CONSTANTS
    Users,
    OtherGroups,    \* rows an administrator may create
    OtherNames,     \* the names they, and edited groups, may get
    MaxEdits        \* bound on the changes to names, members and roles

DefaultNames == {"admin", "editors", "depositors"}
SiteRoles == {"admin", "work_editor", "work_depositor"}
Groups == DefaultNames \cup OtherGroups
Names == DefaultNames \cup OtherNames

ASSUME SiteGroupsAssumption ==
    /\ DefaultNames \cap OtherGroups = {}
    /\ DefaultNames \cap OtherNames = {}
    /\ Users \cap Names = {}
    /\ "none" \notin Names
    /\ MaxEdits \in Nat

VARIABLES
    name,           \* [Groups -> Names, "none" for no row]
    groupRoles,     \* [Groups -> SUBSET SiteRoles]: group_roles
    direct,         \* [Users -> SUBSET SiteRoles]: the users' own site roles
    members,        \* <<user, group row>>: user has role :member on it
    rows,           \* site roles that have a row in roles
    edits

groupVars == <<name, groupRoles, direct, members, rows, edits>>

GroupsTypeOK ==
    /\ name \in [Groups -> Names \cup {"none"}]
    /\ groupRoles \in [Groups -> SUBSET SiteRoles]
    /\ direct \in [Users -> SUBSET SiteRoles]
    /\ members \in SUBSET (Users \X Groups)
    /\ rows \in SUBSET SiteRoles
    /\ edits \in 0..MaxEdits

DefaultRoles(g) ==
    CASE g = "admin" -> {"admin"}
      [] g = "editors" -> {"work_editor"}
      [] g = "depositors" -> {"work_depositor"}
      [] OTHER -> {}

\* A tenant as CreateAccount leaves it: its first users are administrators.
GroupsInit ==
    /\ name = [g \in Groups |-> IF g \in DefaultNames THEN g ELSE "none"]
    /\ groupRoles = [g \in Groups |-> DefaultRoles(g)]
    /\ \E first \in SUBSET Users :
          /\ direct = [u \in Users |-> IF u \in first THEN {"admin"} ELSE {}]
          /\ members = first \X {"admin"}
    /\ rows = SiteRoles
    /\ edits = 0

IsGroup(g) == name[g] # "none"
Named(n) == {g \in Groups : name[g] = n}

\* Admin sets need the group for their workflows.
AdminGroupExists == Named("admin") # {}

Edit ==
    /\ edits < MaxEdits
    /\ edits' = edits + 1

-----------------------------------------------------------------------------
(* Groups *)

CreateGroup(g, n) ==
    /\ ~IsGroup(g) /\ Named(n) = {}
    /\ name' = [name EXCEPT ![g] = n]
    /\ UNCHANGED <<groupRoles, direct, members, rows, edits>>

\* The name is made from the humanized name on every update: whatever group is
\* edited, the name it gets may be another one.
UpdateGroup(g, n) ==
    /\ Edit
    /\ IsGroup(g) /\ Named(n) = {}
    /\ name' = [name EXCEPT ![g] = n]
    /\ UNCHANGED <<groupRoles, direct, members, rows>>

\* A default group is one that has a default name now.
DestroyGroup(g) ==
    /\ IsGroup(g) /\ name[g] \notin DefaultNames
    /\ name' = [name EXCEPT ![g] = "none"]
    /\ groupRoles' = [groupRoles EXCEPT ![g] = {}]
    /\ members' = {m \in members : m[2] # g}
    /\ UNCHANGED <<direct, rows, edits>>

AddMember(u, g) ==
    /\ Edit
    /\ IsGroup(g)
    /\ members' = members \cup {<<u, g>>}
    /\ UNCHANGED <<name, groupRoles, direct, rows>>

RemoveMember(u, g) ==
    /\ Edit
    /\ IsGroup(g) /\ name[g] # "admin"
    /\ members' = members \ {<<u, g>>}
    /\ UNCHANGED <<name, groupRoles, direct, rows>>

AddGroupRole(g, r) ==
    /\ Edit
    /\ IsGroup(g) /\ r \in rows
    /\ groupRoles' = [groupRoles EXCEPT ![g] = @ \cup {r}]
    /\ UNCHANGED <<name, direct, members, rows>>

RemoveGroupRole(g, r) ==
    /\ Edit
    /\ IsGroup(g) /\ r \in groupRoles[g]
    /\ ~(name[g] = "admin" /\ r = "admin")
    /\ groupRoles' = [groupRoles EXCEPT ![g] = @ \ {r}]
    /\ UNCHANGED <<name, direct, members, rows>>

-----------------------------------------------------------------------------
(* Roles of users *)

\* add_role, from an invitation or a form, creates the row it does not find.
GrantRole(u, r) ==
    /\ Edit
    /\ direct' = [direct EXCEPT ![u] = @ \cup {r}]
    /\ rows' = rows \cup {r}
    /\ UNCHANGED <<name, groupRoles, members>>

\* The definitions marked "variant" are not used: each is a mistake that breaks
\* one of the properties.
KeptByGroups(g, unused) == groupRoles[g]                            \* variant
LeftToGroup(g, unused) == groupRoles[g] \ unused

\* remove_role, from the users page or a form.  rolify then deletes a role that
\* no user has left, and with it its group_roles.
RevokeRole(u, r) ==
    /\ Edit
    /\ r \in direct[u]
    /\ direct' = [direct EXCEPT ![u] = @ \ {r}]
    /\ LET unused == {q \in {r} : \A v \in Users \ {u} : q \notin direct[v]}
       IN  /\ rows' = rows \ unused
           /\ groupRoles' = [g \in Groups |-> LeftToGroup(g, unused)]
    /\ UNCHANGED <<name, members>>

\* "Delete a user from the site": roles.destroy_all, memberships included.
RemoveUser(u) ==
    /\ Edit
    /\ direct' = [direct EXCEPT ![u] = {}]
    /\ members' = {m \in members : m[1] # u}
    /\ UNCHANGED <<name, groupRoles, rows>>

GroupsNext ==
    \/ \E g \in Groups :
          \/ \E n \in Names : UpdateGroup(g, n) \/ CreateGroup(g, n)
          \/ DestroyGroup(g)
          \/ \E u \in Users : AddMember(u, g) \/ RemoveMember(u, g)
          \/ \E r \in SiteRoles : AddGroupRole(g, r) \/ RemoveGroupRole(g, r)
    \/ \E u \in Users :
          \/ \E r \in SiteRoles : GrantRole(u, r) \/ RevokeRole(u, r)
          \/ RemoveUser(u)

GroupsSpec == GroupsInit /\ [][GroupsNext]_groupVars

-----------------------------------------------------------------------------
(* Properties *)

\* No user and no group is left with a role whose row is gone, and no user is a
\* member of a group that is gone: what a removal leaves behind is consistent.
NoDanglingRoles ==
    /\ \A u \in Users : direct[u] \subseteq rows
    /\ \A g \in Groups : groupRoles[g] \subseteq rows
    /\ \A m \in members : IsGroup(m[2])
    /\ \A g \in Groups : ~IsGroup(g) => groupRoles[g] = {}

\* "Admin role cannot be removed from this group": the admin group has it.
AdminGroupIsAdmin == \A g \in Named("admin") : "admin" \in groupRoles[g]

=============================================================================
