---------------------------- MODULE CdlGroupLife ----------------------------
(***************************************************************************)
(* The life of a Controlled Digital Lending work (Cdl) and of the private  *)
(* Hyrax::Group that carries its borrowers, as the sign-in code sees it:   *)
(* what CdlLending may rely on, and what CdlPipeline, which models the     *)
(* background jobs in detail, is shown to implement.                       *)
(*                                                                         *)
(* A group is named after its work.  Memberships are rolify roles that     *)
(* point at the group's database id, so a group created again under the    *)
(* same name is another group: group[w] is the number of the present       *)
(* incarnation, 0 when no row has that name, and born[w] counts them.      *)
(***************************************************************************)
EXTENDS Naturals

CONSTANT Works          \* work pids; an absent one is a pid nobody knows

VARIABLES
    work,       \* [Works -> {"absent", "live", "gone"}]: the Fedora object
    group,      \* [Works -> Nat]: the present group's incarnation, 0: none
    born,       \* [Works -> Nat]: groups created so far under that name
    building,   \* works a group job has seen and goes on with
    dooming     \* works whose DestroyCdlGroupJob is enqueued

lifeVars == <<work, group, born, building, dooming>>

LifeTypeOK ==
    /\ work \in [Works -> {"absent", "live", "gone"}]
    /\ group \in [Works -> Nat]
    /\ born \in [Works -> Nat]
    /\ building \in SUBSET Works
    /\ dooming \in SUBSET Works

LifeInit ==
    /\ work = [w \in Works |-> "absent"]
    /\ group = [w \in Works |-> 0]
    /\ born = [w \in Works |-> 0]
    /\ building = {}
    /\ dooming = {}

-----------------------------------------------------------------------------

Deposit(w) ==
    /\ work[w] = "absent"
    /\ work' = [work EXCEPT ![w] = "live"]
    /\ UNCHANGED <<group, born, building, dooming>>

\* A group job finds the work and all its pages (CreateGroupAndAddMembersJob).
BuildStart(w) ==
    /\ work[w] = "live"
    /\ building' = building \cup {w}
    /\ UNCHANGED <<work, group, born, dooming>>

\* find_or_create_by!(name: work.id): the job does not look at the work again.
BuildGroup(w) ==
    /\ w \in building
    /\ group[w] = 0
    /\ born' = [born EXCEPT ![w] = @ + 1]
    /\ group' = [group EXCEPT ![w] = born[w] + 1]
    /\ building' \in {building, building \ {w}}
    /\ UNCHANGED <<work, dooming>>

\* The group is already there, or the job dies on an error before it is made.
BuildEnd(w) ==
    /\ w \in building
    /\ building' = building \ {w}
    /\ UNCHANGED <<work, group, born, dooming>>

\* after_destroy of the work enqueues the job that removes its group.
Withdraw(w) ==
    /\ work[w] = "live"
    /\ work' = [work EXCEPT ![w] = "gone"]
    /\ dooming' = dooming \cup {w}
    /\ UNCHANGED <<group, born, building>>

DestroyGroup(w) ==
    /\ w \in dooming
    /\ dooming' = dooming \ {w}
    /\ group' = [group EXCEPT ![w] = 0]
    /\ UNCHANGED <<work, born, building>>

LifeNext ==
    \E w \in Works :
        \/ Deposit(w)
        \/ BuildStart(w)
        \/ BuildGroup(w)
        \/ BuildEnd(w)
        \/ Withdraw(w)
        \/ DestroyGroup(w)

LifeSpec == LifeInit /\ [][LifeNext]_lifeVars

=============================================================================
