----------------------------- MODULE OerRelations -----------------------------
(***************************************************************************)
(* Related works of an OER (previous and newer versions and so on): an     *)
(* import queues a RelatedMembershipsJob for each record and relationship  *)
(* of its table, users edit the tables of a form, and both end up in       *)
(* OerActor, which compares what it is given with the record as it was     *)
(* loaded and saves one list after the other.                              *)
(*                                                                         *)
(* A record, its import entry and its work are one and the same here; the  *)
(* work is created by another job of the import, at any time or never.     *)
(* Saving a list leaves the other lists alone.                             *)
(***************************************************************************)
EXTENDS Naturals, Sequences, FiniteSets, SequencesExt

CONSTANTS
    Records,
    Table,          \* of the import: <<record, type, related record>>
    UsedTypes,      \* types that forms are filled in with
    Forms,          \* browser windows, all for one record
    MaxRows,        \* bound on the rows a user adds to a form
    MaxImports, MaxErrors

TypeOrder == <<"previous-version", "newer-version", "alternate-version", "related-item">>
Types == Range(TypeOrder)

ASSUME OerAssumption ==
    /\ Table \subseteq Records \X Types \X Records
    /\ UsedTypes \subseteq Types
    /\ Forms \cap (Records \X Types) = {}
    /\ MaxRows \in Nat /\ MaxImports \in Nat /\ MaxErrors \in Nat

VARIABLES
    exists,         \* records that have a work
    rel,            \* [Records -> [Types -> SUBSET Records]]
    update,         \* [Updaters -> UpdateStates]
    raced, failed,  \* history: records and jobs, see Load and Fail
    imports, errors

historyVars == <<raced, failed, imports, errors>>
vars == <<exists, rel, update, historyVars>>

\* One for each record and type that the table has rows for.
Jobs == {<<row[1], row[2]>> : row \in Table}
Updaters == Jobs \cup Forms
Relations == [Types -> SUBSET Records]

\* A row of a form or an entry of related_members_attributes.
Entries == [id : Records, type : Types, destroy : BOOLEAN]

\* "open": a form with its rows; "queued": a job; "loaded": at work in the actor,
\* with entries to go, the lists as they were loaded, and as the update has them.
UpdateStates == [at : {"idle", "open", "queued", "loaded"}, rec : Records,
                 todo : SUBSET Entries, existing : Relations, copy : Relations]

TypeOK ==
    /\ exists \subseteq Records
    /\ rel \in [Records -> Relations]
    /\ update \in [Updaters -> UpdateStates]
    /\ \A r \in Records, t \in Types : rel[r][t] \subseteq exists
    /\ raced \subseteq Records /\ failed \subseteq Jobs
    /\ imports \in 0..MaxImports /\ errors \in 0..MaxErrors

None == [t \in Types |-> {}]

Init ==
    /\ exists \in SUBSET Records
    /\ rel = [r \in Records |-> None]
    /\ \E r \in Records :
          update = [p \in Updaters |-> [at |-> "idle", rec |-> IF p \in Jobs THEN p[1] ELSE r,
                                        todo |-> {}, existing |-> None, copy |-> None]]
    /\ raced = {} /\ failed = {}
    /\ imports = 0 /\ errors = 0

-----------------------------------------------------------------------------
(* OerActor *)

At(p, step) == update[p].at = step

\* The one type under which the actor finds a related work, or none.
FoundUnder(existing, x) ==
    LET under == {i \in DOMAIN TypeOrder : x \in existing[TypeOrder[i]]}
    IN  IF under = {} THEN {}
        ELSE {TypeOrder[CHOOSE i \in under : \A k \in under : i <= k]}

Removes(existing, e) == e.destroy /\ FoundUnder(existing, e.id) = {e.type}

\* The definitions marked "variant" are not used: each is a mistake that breaks
\* one of the properties.
NotListed(existing, e) == e.id \notin existing[e.type]              \* variant
Adds(existing, e) == FoundUnder(existing, e.id) = {}

NamesTwice(entries) == \E e \in entries, d \in entries : e.id = d.id /\ e # d

\* The record's work is loaded.  Another update of it may be under way.
Load(p, r, entries) ==
    /\ update' = [update EXCEPT ![p] = [at |-> "loaded", rec |-> r, todo |-> entries,
                                        existing |-> rel[r], copy |-> rel[r]]]
    /\ raced' = IF \/ NamesTwice(entries)
                   \/ \E q \in Updaters \ {p} : At(q, "loaded") /\ update[q].rec = r
                THEN raced \cup {r} ELSE raced

Rested(p, step) == [update[p] EXCEPT !.at = step, !.todo = {}, !.existing = None, !.copy = None]

\* One entry, and the save of the list it changes; after the last the update is
\* done.  A row that was removed in the form is added if the work is not related
\* (any more).
Apply(p, e) ==
    /\ At(p, "loaded") /\ e \in update[p].todo
    /\ LET u == update[p]
           adds == Adds(u.existing, e)
           saves == adds \/ Removes(u.existing, e)
           new == IF adds THEN u.copy[e.type] \cup {e.id} ELSE u.copy[e.type] \ {e.id}
       IN  /\ rel' = IF saves THEN [rel EXCEPT ![u.rec][e.type] = new] ELSE rel
           /\ update' = [update EXCEPT ![p] =
                            IF u.todo = {e} THEN Rested(p, "idle")
                            ELSE [u EXCEPT !.todo = @ \ {e},
                                           !.copy[e.type] = IF saves THEN new ELSE @]]
    /\ UNCHANGED <<exists, historyVars>>

Rest(p, step) == update' = [update EXCEPT ![p] = Rested(p, step)]

Ended(p) == "idle"                                                  \* variant

\* A process that dies leaves its job to be run again.
AfterDeath(p) == IF p \in Jobs THEN "queued" ELSE "idle"

\* An error ends a request; in a job it is rescued and put in the entry's status.
Fail(p, died) ==
    /\ At(p, "loaded") /\ errors < MaxErrors
    /\ errors' = errors + 1
    /\ Rest(p, IF died THEN AfterDeath(p) ELSE "idle")
    /\ failed' = IF died THEN failed ELSE failed \cup ({p} \cap Jobs)
    /\ UNCHANGED <<exists, rel, raced, imports>>

-----------------------------------------------------------------------------
(* Imports *)

Related(j) == {x \in Records : <<j[1], j[2], x>> \in Table}

CreateWork(r) ==
    /\ imports > 0 /\ r \notin exists
    /\ exists' = exists \cup {r}
    /\ UNCHANGED <<rel, update, historyVars>>

\* create_memberships, after an import or its repetition.
Import ==
    /\ imports < MaxImports
    /\ \A j \in Jobs : At(j, "idle")
    /\ imports' = imports + 1
    /\ update' = [p \in Updaters |->
                     IF p \in Jobs THEN [update[p] EXCEPT !.at = "queued"] ELSE update[p]]
    /\ UNCHANGED <<exists, rel, raced, failed, errors>>

InTime(j) == At(j, "queued")                                        \* variant

\* "Not all of the Works exist yet; reschedule": only the related works count.
WorksFound(j) == At(j, "queued") /\ Related(j) \subseteq exists

RelateMembers(j) ==
    /\ WorksFound(j) /\ j[1] \in exists
    /\ Load(j, j[1], {[id |-> x, type |-> j[2], destroy |-> FALSE] : x \in Related(j)})
    /\ UNCHANGED <<exists, rel, failed, imports, errors>>

\* A record without a work: a new one is built, which is not valid, and the job
\* ends.
DropJob(j) ==
    /\ WorksFound(j) /\ j[1] \notin exists
    /\ Rest(j, "idle")
    /\ UNCHANGED <<exists, rel, historyVars>>

-----------------------------------------------------------------------------
(* Forms *)

Row(x, t, destroy) == [id |-> x, type |-> t, destroy |-> destroy]

\* A form has a table for each type, with a row for each work related.
OpenForm(f) ==
    /\ At(f, "idle") /\ update[f].rec \in exists
    /\ LET lists == rel[update[f].rec]
       IN  update' = [update EXCEPT ![f].at = "open", ![f].existing = lists,
                         ![f].todo = {e \in Entries : ~e.destroy /\ e.id \in lists[e.type]}]
    /\ UNCHANGED <<exists, rel, historyVars>>

Added(f) == {e \in update[f].todo : e.id \notin update[f].existing[e.type]}

\* The table is not asked whether it has the work already; a user who adds one
\* work twice is left out.
AddRow(f, x, t) ==
    /\ At(f, "open") /\ t \in UsedTypes
    /\ x \in exists \ {update[f].rec}
    /\ Cardinality(Added(f)) < MaxRows
    /\ \A e \in update[f].todo : e.id = x => e.destroy \/ e \notin Added(f)
    /\ update' = [update EXCEPT ![f].todo = @ \cup {Row(x, t, FALSE)}]
    /\ UNCHANGED <<exists, rel, historyVars>>

\* "Hides the row and adds a _destroy=true field to the form"
RemoveRow(f, e) ==
    /\ At(f, "open") /\ e \in update[f].todo
    /\ update' = [update EXCEPT ![f].todo = (@ \ {e}) \cup {Row(e.id, e.type, TRUE)}]
    /\ UNCHANGED <<exists, rel, historyVars>>

\* All rows are sent, the ones removed and the ones nobody touched as well.
SubmitForm(f) ==
    /\ At(f, "open") /\ update[f].todo # {}
    /\ Load(f, update[f].rec, update[f].todo)
    /\ UNCHANGED <<exists, rel, failed, imports, errors>>

-----------------------------------------------------------------------------

ActorStep(p) == \E e \in update[p].todo : Apply(p, e)
JobStep(j) == RelateMembers(j) \/ DropJob(j) \/ ActorStep(j)

FormStep(f) ==
    \/ OpenForm(f) \/ SubmitForm(f) \/ ActorStep(f)
    \/ \E x \in Records, t \in UsedTypes : AddRow(f, x, t)
    \/ \E e \in update[f].todo : RemoveRow(f, e)

Next ==
    \/ Import \/ \E r \in Records : CreateWork(r)
    \/ \E j \in Jobs : JobStep(j)
    \/ \E f \in Forms : FormStep(f)
    \/ \E p \in Updaters, died \in BOOLEAN : Fail(p, died)

Spec == Init /\ [][Next]_vars

\* Sidekiq runs a job that was rescheduled; nobody has to import or to edit.
FairSpec == Spec /\ \A j \in Jobs : WF_vars(JobStep(j))

-----------------------------------------------------------------------------
(* Properties *)

RelatedTo(r) == UNION {rel[r][t] : t \in Types}

\* "avoid rewriting/loading works that are already attached": a work stands in
\* one relation to a record at most, so that its row can be removed again,
\* whatever imports say and forms send; exempt are records that two updates had
\* loaded at a time, and forms with two rows for one work.
OneRelation ==
    \A r \in Records \ raced, x \in Records :
       Cardinality({t \in Types : x \in rel[r][t]}) <= 1

\* "add related works to work": once the works of a record and of its related
\* records are there, the related ones end up related to it, although processes
\* die, forms are sent meanwhile and the import is repeated.
Recorded ==
    \A j \in Jobs : \A x \in Related(j) :
       At(j, "queued") /\ Related(j) \cup {j[1]} \subseteq exists
         ~> x \in RelatedTo(j[1]) \/ j[1] \in raced \/ j \in failed

=============================================================================
