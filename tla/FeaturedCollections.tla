------------------------- MODULE FeaturedCollections -------------------------
(***************************************************************************)
(* Collections on the home page: administrators feature and unfeature them *)
(* from their pages and from the home page, arrange them there, and the    *)
(* list mends itself whenever somebody looks at it.  Rows know their       *)
(* collection by id only; nothing keeps one from having two rows.  Works   *)
(* are featured in the same way.                                           *)
(***************************************************************************)
EXTENDS Integers, Sequences, FiniteSets

CONSTANTS
    Collections,
    Requests,       \* threads that may serve a request to feature
    Homes,          \* home pages open in browsers
    FEATURE_LIMIT,
    MaxRows, MaxEvents  \* bounds: rows ever made; collections changed and drags

ASSUME FeaturedAssumption ==
    /\ IsFiniteSet(Requests) /\ Requests # {}
    /\ "none" \notin Collections
    /\ FEATURE_LIMIT \in Nat \ {0} /\ MaxRows \in Nat /\ MaxEvents \in Nat

VARIABLES
    visibility,     \* [Collections -> Visibilities]
    of,             \* Seq(Collections): the collection of each row ever made
    rows,           \* ids of the rows there are
    order,          \* [rows -> 0..FEATURE_LIMIT]
    request,        \* [Requests -> Collections]: counted and about to be inserted
    removing,       \* collections whose remove_featured has still to be run
    home,           \* [Homes -> home pages]
    events,
    late, mixed,    \* history: see InsertFeatured, DieHiding, UpdateOrder
    arranged        \* history: [row ids -> weights] of the last order saved

rowVars == <<of, rows, order>>
historyVars == <<late, mixed, arranged>>
vars == <<visibility, rowVars, request, removing, home, events, historyVars>>

Visibilities == {"open", "restricted", "gone"}
Weights == 0..FEATURE_LIMIT
Ids == 1..MaxRows
Forms == UNION {[D -> 0..MaxRows \cup Weights] : D \in SUBSET Ids}
Nothing == [i \in {} |-> 0]

\* listed: collections that presenters were asked for; form: the rows on the page
\* with the order each will be sent with; todo: rows still to destroy or to update.
Pages ==
    [at : {"closed", "listed", "loaded", "open", "saving"}, listed : SUBSET Collections,
     form : Forms, todo : SUBSET Ids, dragged : BOOLEAN]
Page(step, f) ==
    [at |-> step, listed |-> {}, form |-> f, todo |-> {}, dragged |-> FALSE]
Closed == Page("closed", Nothing)

TypeOK ==
    /\ visibility \in [Collections -> Visibilities]
    /\ removing \subseteq Collections
    /\ of \in Seq(Collections) /\ Len(of) <= MaxRows
    /\ rows \subseteq DOMAIN of
    /\ order \in [rows -> Weights]
    /\ request \in [Requests -> Collections \cup {"none"}]
    /\ home \in [Homes -> Pages]
    /\ events \in 0..MaxEvents
    /\ late \subseteq Collections /\ mixed \subseteq Homes
    /\ arranged \in Forms

Init ==
    /\ visibility = [c \in Collections |-> "open"]
    /\ removing = {}
    /\ of = <<>> /\ rows = {} /\ order = Nothing
    /\ request = [r \in Requests |-> "none"]
    /\ home = [h \in Homes |-> Closed]
    /\ events = 0
    /\ late = {} /\ mixed = {} /\ arranged = Nothing

Event == events < MaxEvents /\ events' = events + 1

RowsOf(c) == {i \in rows : of[i] = c}

DestroyRows(S) ==
    /\ rows' = rows \ S
    /\ order' = [i \in rows \ S |-> order[i]]

-----------------------------------------------------------------------------
(* Featuring, from the page of a collection *)

\* The definitions marked "variant" are not used: each is a mistake that breaks
\* one of the properties.
OneTooMany == Cardinality(rows) <= FEATURE_LIMIT                    \* variant
CanCreateAnother == Cardinality(rows) < FEATURE_LIMIT

\* The page with the button may have been open for long: the collection may have
\* been changed or featured since.  count_within_limit is all that is asked;
\* otherwise the request is refused.
CountFeatured(r, c) ==
    /\ request[r] = "none"
    /\ CanCreateAnother
    /\ request' = [request EXCEPT ![r] = c]
    /\ UNCHANGED <<visibility, rowVars, removing, home, events, historyVars>>

FirstOrder == 0                                                     \* variant
DefaultOrder == FEATURE_LIMIT

Gone == {c \in Collections : visibility[c] = "gone"}
Hidden(c) == visibility[c] \in {"restricted", "gone"}

Counted == {r \in Requests : request[r] # "none"}

InsertFeatured(r) ==
    /\ r \in Counted /\ Len(of) < MaxRows
    /\ LET c == request[r]
       IN  /\ of' = Append(of, c)
           /\ late' = IF Hidden(c) THEN late \cup {c} ELSE late
    /\ rows' = rows \cup {Len(of) + 1}
    /\ order' = [i \in rows' |-> IF i = Len(of) + 1 THEN DefaultOrder ELSE order[i]]
    /\ request' = [request EXCEPT ![r] = "none"]
    /\ UNCHANGED <<visibility, removing, home, events, mixed, arranged>>

\* find_by takes the first row by its order; rows of one order come in any.
FirstOf(c) == {i \in RowsOf(c) : \A k \in RowsOf(c) : order[i] <= order[k]}

\* From the page of the collection, or from a home page.
Unfeature(c) ==
    /\ \E i \in FirstOf(c) : DestroyRows({i})
    /\ UNCHANGED <<visibility, of, request, removing, home, events, historyVars>>

-----------------------------------------------------------------------------
(* Collections that change *)

\* Saved, or destroyed, in Fedora and Solr.
ChangeCollection(c, v) ==
    /\ visibility[c] # "gone" /\ Event
    /\ visibility' = [visibility EXCEPT ![c] = v]
    /\ removing' = IF v \in {"restricted", "gone"} THEN removing \cup {c} ELSE removing
    /\ UNCHANGED <<rowVars, request, home, historyVars>>

OneRow(c) == {i \in RowsOf(c) : \A k \in RowsOf(c) : i <= k}         \* variant
FeaturedRows(c) == RowsOf(c)

RemoveFeatured(c) ==
    /\ c \in removing
    /\ removing' = removing \ {c}
    /\ DestroyRows(FeaturedRows(c))
    /\ UNCHANGED <<visibility, of, request, home, events, historyVars>>

DieHiding(c) ==
    /\ c \in removing
    /\ removing' = removing \ {c}
    /\ late' = late \cup {c}
    /\ UNCHANGED <<visibility, rowVars, request, home, events, mixed, arranged>>

-----------------------------------------------------------------------------
(* The home page *)

At(h, step) == home[h].at = step

\* The ids are read first, for the presenters.
ListIds(h) ==
    /\ At(h, "closed")
    /\ home' = [home EXCEPT ![h] = [Closed EXCEPT !.at = "listed",
                                     !.listed = {of[i] : i \in rows} \ Gone]]
    /\ UNCHANGED <<visibility, rowVars, request, removing, events, historyVars>>

\* One row of each collection with a presenter: the first by its order.
Presented(P) ==
    {R \in SUBSET rows :
        /\ {of[i] : i \in R} = P
        /\ \A i \in R : i \in FirstOf(of[i])
        /\ \A i, k \in R : of[i] = of[k] => i = k}

\* P: collections that Solr had when it was asked, in between.  A presenter whose
\* row has gone meanwhile raises.
LoadFeatured(h) ==
    /\ At(h, "listed")
    /\ \E P \in SUBSET home[h].listed :
          /\ home[h].listed \ Gone \subseteq P
          /\ \/ \E R \in Presented(P) :
                    home' = [home EXCEPT ![h] = [Page("loaded", [i \in R |-> order[i]])
                                                    EXCEPT !.todo = rows \ R]]
             \/ /\ \E c \in P : RowsOf(c) = {}
                /\ home' = [home EXCEPT ![h] = Closed]
    /\ UNCHANGED <<visibility, rowVars, request, removing, events, historyVars>>

\* Looking at the list destroys the rows without a presenter.
ShowFeatured(h) ==
    /\ At(h, "loaded")
    /\ DestroyRows(home[h].todo)
    /\ home' = [home EXCEPT ![h] = Page("open", home[h].form)]
    /\ UNCHANGED <<visibility, of, request, removing, events, historyVars>>

Leave(h) ==
    /\ At(h, "open")
    /\ home' = [home EXCEPT ![h] = Closed]
    /\ mixed' = mixed \ {h}
    /\ UNCHANGED <<visibility, rowVars, request, removing, events, late, arranged>>

\* Rows are numbered in their new order, those removed from the page too: they
\* are only hidden.
DragAndDrop(h, f) ==
    /\ At(h, "open") /\ Event
    /\ home' = [home EXCEPT ![h].form = f, ![h].dragged = TRUE]
    /\ UNCHANGED <<visibility, rowVars, request, removing, historyVars>>

-----------------------------------------------------------------------------
(* Saving the order *)

\* All rows of the page are sent.
SaveOrder(h) ==
    /\ At(h, "open") /\ DOMAIN home[h].form # {}
    /\ home' = [home EXCEPT ![h] = [Page("saving", home[h].form) EXCEPT
                                       !.todo = DOMAIN home[h].form,
                                       !.dragged = home[h].dragged]]
    /\ UNCHANGED <<visibility, rowVars, request, removing, events, historyVars>>

\* One row; find raises for a row that is gone, and the rows after it stay as
\* they are.  Rows of a form come in any order here.
UpdateOrder(h, i) ==
    /\ At(h, "saving") /\ i \in home[h].todo
    /\ LET page == home[h]
           found == i \in rows
           ends == page.todo = {i}
       IN  /\ order' = IF found /\ page.form[i] \in Weights
                       THEN [order EXCEPT ![i] = page.form[i]] ELSE order
           /\ home' = [home EXCEPT ![h] = IF ends \/ ~found THEN Closed
                                          ELSE [page EXCEPT !.todo = @ \ {i}]]
           /\ arranged' = IF found /\ ends /\ page.dragged /\ h \notin mixed
                             /\ Cardinality(DOMAIN page.form) <= FEATURE_LIMIT
                          THEN page.form ELSE Nothing
           \* pages that were open meanwhile
           /\ mixed' = {k \in mixed \cup (Homes \ {h}) : ~At(k, "closed")}
                         \ (IF ends \/ ~found THEN {h} ELSE {})
    /\ UNCHANGED <<visibility, of, rows, request, removing, events, late>>

-----------------------------------------------------------------------------

CollectionStep(c) ==
    \/ Unfeature(c) \/ RemoveFeatured(c) \/ DieHiding(c)
    \/ \E r \in Requests : CountFeatured(r, c)
    \/ \E v \in Visibilities : ChangeCollection(c, v)

\* What dragging makes of a form.
Numberings(D) == {f \in [D -> 0..(Cardinality(D) - 1)] : \A i, k \in D : f[i] = f[k] => i = k}

HomeStep(h) ==
    \/ ListIds(h) \/ LoadFeatured(h) \/ ShowFeatured(h) \/ Leave(h) \/ SaveOrder(h)
    \/ \E f \in Numberings(DOMAIN home[h].form) : DragAndDrop(h, f)
    \/ \E i \in Ids : UpdateOrder(h, i)

Next ==
    \/ \E c \in Collections : CollectionStep(c)
    \/ \E r \in Requests : InsertFeatured(r)
    \/ \E h \in Homes : HomeStep(h)

Spec == Init /\ [][Next]_vars

-----------------------------------------------------------------------------
(* Properties *)

\* The limit is a count and an insert without a lock: it is exceeded by requests
\* that overlap, and by no more than there are threads beside the first, those
\* included that have counted and not inserted.
OverlapsExceedLimit ==
    Cardinality(rows) + Cardinality(Counted) <= FEATURE_LIMIT + Cardinality(Requests) - 1

\* What an administrator arranged shows in that order until the next save, and
\* what is featured since comes after it, whatever is removed meanwhile and
\* whoever looks; exempt are pages that were open while another one's order was
\* saved, and pages beyond the limit.
ArrangedStays ==
    \A i \in rows \cap DOMAIN arranged, k \in rows :
       k \notin DOMAIN arranged \/ arranged[i] < arranged[k] => order[i] < order[k]

\* A collection that was made private, or destroyed, is not featured, however
\* many rows it had; exempt are requests from pages that were opened before, and
\* processes that died.
HiddenIsNotFeatured ==
    \A c \in Collections : Hidden(c) /\ c \notin removing \cup late => RowsOf(c) = {}

=============================================================================
