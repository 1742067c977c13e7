---------------------------- MODULE FeaturedProofs -----------------------------
(* Theorems of FeaturedCollections, for every number of collections, rows,   *)
(* threads and open pages and for every limit.                               *)
EXTENDS FeaturedCollections, FiniteSetTheorems, SequenceTheorems, TLAPS

-----------------------------------------------------------------------------
(* Types *)

Steps == {"closed", "listed", "loaded", "open", "saving"}

LEMMA RowIds ==
  ASSUME TypeOK
  PROVE  /\ Len(of) \in Nat /\ DOMAIN of = 1..Len(of) /\ DOMAIN of \subseteq Ids
         /\ rows \subseteq 1..Len(of) /\ rows \subseteq Ids
         /\ \A i \in rows : of[i] \in Collections
  <1>1. of \in Seq(Collections) /\ Len(of) <= MaxRows /\ rows \subseteq DOMAIN of
    BY DEF TypeOK
  <1>2. Len(of) \in Nat /\ DOMAIN of = 1..Len(of)
    BY <1>1, LenProperties
  <1>3. \A i \in 1..Len(of) : of[i] \in Collections
    BY <1>1, ElementOfSeq
  <1> QED BY <1>1, <1>2, <1>3, FeaturedAssumption DEF Ids

LEMMA FormTyped ==
  ASSUME NEW D \in SUBSET Ids, NEW f \in [D -> 0..MaxRows \cup Weights]
  PROVE  f \in Forms
  BY DEF Forms

LEMMA FormDomain ==
  ASSUME NEW f \in Forms
  PROVE  DOMAIN f \in SUBSET Ids /\ f \in [DOMAIN f -> 0..MaxRows \cup Weights]
  BY DEF Forms

LEMMA NothingTyped == Nothing \in Forms /\ DOMAIN Nothing = {}
  <1>1. DOMAIN Nothing = {} /\ Nothing \in [{} -> 0..MaxRows \cup Weights]
    BY DEF Nothing
  <1> QED BY <1>1, FormTyped

LEMMA NumberingBounds ==
  ASSUME NEW D \in SUBSET Ids, NEW f \in Numberings(D)
  PROVE  /\ DOMAIN f = D /\ f \in Forms /\ Cardinality(D) \in Nat
         /\ \A i \in D : f[i] \in 0..(Cardinality(D) - 1)
  <1>1. IsFiniteSet(Ids) /\ Cardinality(Ids) = MaxRows
    BY FS_Interval, FeaturedAssumption DEF Ids
  <1>2. Cardinality(D) \in Nat /\ Cardinality(D) <= MaxRows
    BY <1>1, FS_Subset, FS_CardinalityType
  <1>3. f \in [D -> 0..(Cardinality(D) - 1)]
    BY DEF Numberings
  <1>4. f \in [D -> 0..MaxRows \cup Weights]
    BY <1>2, <1>3, FeaturedAssumption
  <1> QED BY <1>2, <1>3, <1>4, FormTyped

LEMMA PageTyped ==
  ASSUME NEW step \in Steps, NEW f \in Forms
  PROVE  /\ Page(step, f) \in Pages
         /\ Page(step, f).at = step /\ Page(step, f).form = f
         /\ Page(step, f).todo = {} /\ Page(step, f).dragged = FALSE
  BY FeaturedAssumption DEF Page, Pages, Steps

LEMMA ClosedTyped ==
  Closed \in Pages /\ Closed.at = "closed" /\ Closed.dragged = FALSE
  BY PageTyped, NothingTyped DEF Closed, Steps

LEMMA RemovalTyped ==
  ASSUME TypeOK, NEW S, DestroyRows(S)
  PROVE  rows' \subseteq rows /\ order' \in [rows' -> Weights]
         /\ \A i \in rows' : order'[i] = order[i]
  BY DEF TypeOK, DestroyRows

\* A step that only takes rows away, and changes one page at most.
LEMMA TypesKept ==
  ASSUME TypeOK, UNCHANGED <<visibility, of, request, removing>>,
         rows' \subseteq rows, order' \in [rows' -> Weights],
         home' \in [Homes -> Pages], events' \in 0..MaxEvents,
         UNCHANGED late, mixed' \subseteq Homes, arranged' \in Forms
  PROVE  TypeOK'
  BY DEF TypeOK

LEMMA EventTyped ==
  ASSUME TypeOK, Event
  PROVE  events' \in 0..MaxEvents
  BY FeaturedAssumption DEF TypeOK, Event

LEMMA CollectionTypes ==
  ASSUME TypeOK, NEW c \in Collections, CollectionStep(c)
  PROVE  TypeOK'
  <1>1. CASE Unfeature(c)
    <2>1. PICK S : DestroyRows(S)
      BY <1>1 DEF Unfeature
    <2> QED BY <1>1, <2>1, RemovalTyped, TypesKept DEF Unfeature, historyVars, TypeOK
  <1>2. CASE RemoveFeatured(c)
    <2>1. rows' \subseteq rows /\ order' \in [rows' -> Weights]
      BY <1>2, RemovalTyped DEF RemoveFeatured
    <2> QED BY <1>2, <2>1 DEF RemoveFeatured, historyVars, TypeOK
  <1>3. CASE DieHiding(c)
    BY <1>3 DEF DieHiding, rowVars, TypeOK
  <1>4. ASSUME NEW r \in Requests, CountFeatured(r, c) PROVE TypeOK'
    BY <1>4 DEF CountFeatured, rowVars, historyVars, TypeOK
  <1>5. ASSUME NEW v \in Visibilities, ChangeCollection(c, v) PROVE TypeOK'
    BY <1>5, EventTyped DEF ChangeCollection, rowVars, historyVars, TypeOK
  <1> QED BY <1>1, <1>2, <1>3, <1>4, <1>5 DEF CollectionStep

LEMMA InsertTypes ==
  ASSUME TypeOK, NEW r \in Requests, InsertFeatured(r)
  PROVE  /\ TypeOK' /\ request[r] \in Collections
         /\ of' = Append(of, request[r]) /\ of'[Len(of) + 1] = request[r]
         /\ \A i \in rows : of'[i] = of[i] /\ order'[i] = order[i]
         /\ Len(of) + 1 \notin rows /\ rows' = rows \cup {Len(of) + 1}
         /\ order'[Len(of) + 1] = FEATURE_LIMIT
  <1>1. /\ request[r] \in Collections /\ Len(of) < MaxRows
        /\ of' = Append(of, request[r])
        /\ rows' = rows \cup {Len(of) + 1}
        /\ order' = [i \in rows' |-> IF i = Len(of) + 1 THEN FEATURE_LIMIT ELSE order[i]]
        /\ request' = [request EXCEPT ![r] = "none"]
        /\ late' = IF Hidden(request[r]) THEN late \cup {request[r]} ELSE late
        /\ UNCHANGED <<visibility, removing, home, events, mixed, arranged>>
    BY FeaturedAssumption DEF InsertFeatured, Counted, DefaultOrder, TypeOK
  <1>2. /\ Len(of) \in Nat /\ rows \subseteq 1..Len(of)
        /\ of \in Seq(Collections) /\ DOMAIN of = 1..Len(of)
    BY RowIds DEF TypeOK
  <1>3. /\ of' \in Seq(Collections) /\ Len(of') = Len(of) + 1
        /\ \A i \in 1..Len(of) : of'[i] = of[i]
        /\ of'[Len(of) + 1] = request[r] /\ DOMAIN of' = 1..(Len(of) + 1)
    BY <1>1, <1>2, AppendProperties
  <1>4. order' \in [rows' -> Weights]
    BY <1>1, <1>2, FeaturedAssumption DEF Weights, TypeOK
  <1>5. Len(of) + 1 \notin rows
    BY <1>2
  <1>6. TypeOK'
    BY <1>1, <1>2, <1>3, <1>4, FeaturedAssumption DEF TypeOK
  <1> QED BY <1>1, <1>2, <1>3, <1>5, <1>6

\* One page changes, and maybe rows go.
LEMMA OnePage ==
  ASSUME TypeOK, NEW h \in Homes, NEW p, home' = [home EXCEPT ![h] = p]
  PROVE  /\ p \in Pages => home' \in [Homes -> Pages]
         /\ home'[h] = p /\ \A k \in Homes : k # h => home'[k] = home[k]
  BY DEF TypeOK

LEMMA LoadedForm ==
  ASSUME TypeOK, NEW R \in SUBSET rows
  PROVE  /\ [i \in R |-> order[i]] \in Forms
         /\ [Page("loaded", [i \in R |-> order[i]]) EXCEPT !.todo = rows \ R] \in Pages
  <1> DEFINE f == [i \in R |-> order[i]]
  <1>1. R \subseteq Ids /\ f \in [R -> 0..MaxRows \cup Weights]
    BY RowIds DEF TypeOK
  <1>2. f \in Forms
    BY <1>1, FormTyped
  <1>3. Page("loaded", f) \in Pages
    BY <1>2, PageTyped DEF Steps
  <1>4. rows \ R \in SUBSET Ids
    BY RowIds
  <1> HIDE DEF f
  <1>5. [Page("loaded", f) EXCEPT !.todo = rows \ R] \in Pages
    BY <1>3, <1>4 DEF Pages
  <1> QED BY <1>2, <1>5 DEF f

LEMMA ViewTypes ==
  ASSUME TypeOK, NEW h \in Homes, ListIds(h) \/ LoadFeatured(h) \/ ShowFeatured(h)
  PROVE  TypeOK'
  <1>1. CASE ListIds(h)
    <2> DEFINE C == {of[i] : i \in rows} \ Gone
    <2>1. C \in SUBSET Collections
      BY RowIds
    <2>2. home' = [home EXCEPT ![h] = [Closed EXCEPT !.at = "listed", !.listed = C]]
      BY <1>1 DEF ListIds
    <2> HIDE DEF C
    <2>3. [Closed EXCEPT !.at = "listed", !.listed = C] \in Pages
      BY <2>1, ClosedTyped DEF Pages
    <2> QED BY <1>1, <2>2, <2>3, OnePage DEF ListIds, rowVars, historyVars, TypeOK
  <1>2. CASE LoadFeatured(h)
    <2>1. ASSUME NEW R \in SUBSET rows,
                 home' = [home EXCEPT ![h] = [Page("loaded", [i \in R |-> order[i]])
                                                 EXCEPT !.todo = rows \ R]]
          PROVE  home' \in [Homes -> Pages]
      BY <2>1, LoadedForm, OnePage
    <2>2. ASSUME home' = [home EXCEPT ![h] = Closed]
          PROVE  home' \in [Homes -> Pages]
      BY <2>2, ClosedTyped, OnePage
    <2>3. home' \in [Homes -> Pages]
      BY <1>2, <2>1, <2>2 DEF LoadFeatured, Presented
    <2> QED BY <1>2, <2>3 DEF LoadFeatured, rowVars, historyVars, TypeOK
  <1>3. CASE ShowFeatured(h)
    <2>1. rows' \subseteq rows /\ order' \in [rows' -> Weights]
      BY <1>3, RemovalTyped DEF ShowFeatured
    <2>2. home[h].form \in Forms
      BY DEF TypeOK, Pages
    <2>3. Page("open", home[h].form) \in Pages
      BY <2>2, PageTyped DEF Steps
    <2>4. home' \in [Homes -> Pages]
      BY <1>3, <2>3, OnePage DEF ShowFeatured
    <2> QED BY <1>3, <2>1, <2>4 DEF ShowFeatured, historyVars, TypeOK
  <1> QED BY <1>1, <1>2, <1>3

LEMMA PageTypes ==
  ASSUME TypeOK, NEW h \in Homes,
         \/ Leave(h) \/ SaveOrder(h)
         \/ \E f \in Numberings(DOMAIN home[h].form) : DragAndDrop(h, f)
  PROVE  TypeOK'
  <1>1. home[h] \in Pages /\ home[h].form \in Forms /\ DOMAIN home[h].form \in SUBSET Ids
    BY FormDomain DEF TypeOK, Pages
  <1>2. CASE Leave(h)
    <2>1. home' \in [Homes -> Pages]
      BY <1>2, ClosedTyped, OnePage DEF Leave
    <2> QED BY <1>2, <2>1 DEF Leave, rowVars, TypeOK
  <1>3. CASE SaveOrder(h)
    <2> DEFINE p == Page("saving", home[h].form)
               q == [p EXCEPT !.todo = DOMAIN home[h].form, !.dragged = home[h].dragged]
    <2>1. p \in Pages
      BY <1>1, PageTyped DEF Steps
    <2>2. home' = [home EXCEPT ![h] = q]
      BY <1>3 DEF SaveOrder
    <2> HIDE DEF p
    <2>3. q \in Pages
      BY <1>1, <2>1 DEF Pages
    <2>4. home' \in [Homes -> Pages]
      BY <2>2, <2>3, OnePage
    <2> QED BY <1>3, <2>4 DEF SaveOrder, rowVars, historyVars, TypeOK
  <1>4. ASSUME NEW f \in Numberings(DOMAIN home[h].form), DragAndDrop(h, f)
        PROVE  TypeOK'
    <2>1. f \in Forms
      BY <1>1, NumberingBounds
    <2> DEFINE q == [home[h] EXCEPT !.form = f, !.dragged = TRUE]
    <2>2. home' = [home EXCEPT ![h] = q]
      BY <1>4 DEF DragAndDrop
    <2>3. q \in Pages
      BY <1>1, <2>1 DEF Pages
    <2>4. home' \in [Homes -> Pages]
      BY <2>2, <2>3, OnePage
    <2> QED BY <1>4, <2>4, EventTyped DEF DragAndDrop, rowVars, historyVars, TypeOK
  <1> QED BY <1>2, <1>3, <1>4

LEMMA UpdateTypes ==
  ASSUME TypeOK, NEW h \in Homes, NEW i \in Ids, UpdateOrder(h, i)
  PROVE  TypeOK'
  <1> DEFINE page == home[h]
  <1>1. page \in Pages /\ page.form \in Forms
    BY DEF TypeOK, Pages
  <1>2. [page EXCEPT !.todo = page.todo \ {i}] \in Pages
    BY <1>1 DEF Pages
  <1>3. order' \in [rows -> Weights]
    BY DEF UpdateOrder, TypeOK
  <1>4. home' \in [Homes -> Pages]
    BY <1>1, <1>2, ClosedTyped, OnePage DEF UpdateOrder
  <1>5. arranged' \in Forms
    BY <1>1, NothingTyped DEF UpdateOrder
  <1>6. mixed' \subseteq Homes
    BY DEF UpdateOrder, TypeOK
  <1> QED BY <1>3, <1>4, <1>5, <1>6 DEF UpdateOrder, TypeOK

LEMMA TypesStart == Init => TypeOK
  <1> SUFFICES ASSUME Init PROVE TypeOK
    OBVIOUS
  <1>1. of \in Seq(Collections) /\ Len(of) = 0
    BY EmptySeq DEF Init
  <1>2. order \in [rows -> Weights]
    BY DEF Init, Nothing
  <1> QED BY <1>1, <1>2, ClosedTyped, NothingTyped, FeaturedAssumption
          DEF Init, TypeOK, Visibilities

LEMMA TypesStep ==
  ASSUME TypeOK, [Next]_vars
  PROVE  TypeOK'
  <1>1. CASE UNCHANGED vars
    BY <1>1 DEF vars, rowVars, historyVars, TypeOK
  <1>2. ASSUME NEW h \in Homes, HomeStep(h)
        PROVE  TypeOK'
    BY <1>2, ViewTypes, PageTypes, UpdateTypes DEF HomeStep
  <1> QED BY <1>1, <1>2, CollectionTypes, InsertTypes DEF Next

\* Every value has its type, whatever pages send.
THEOREM FeaturedTyped == Spec => []TypeOK
  BY TypesStart, TypesStep, PTL DEF Spec

-----------------------------------------------------------------------------
(* The limit *)

\* Pages only take rows away.
LEMMA HomeRows ==
  ASSUME TypeOK, NEW h \in Homes, HomeStep(h)
  PROVE  rows' \subseteq rows /\ UNCHANGED <<visibility, of, request, removing, late>>
  <1>1. CASE ShowFeatured(h)
    BY <1>1 DEF ShowFeatured, DestroyRows, historyVars
  <1> QED BY <1>1 DEF HomeStep, ListIds, LoadFeatured, Leave, SaveOrder, DragAndDrop,
          UpdateOrder, rowVars, historyVars

LEMMA Counts ==
  ASSUME TypeOK
  PROVE  /\ IsFiniteSet(rows) /\ Cardinality(rows) \in Nat
         /\ IsFiniteSet(Counted) /\ Cardinality(Counted) \in Nat
         /\ Cardinality(Counted) <= Cardinality(Requests)
         /\ Cardinality(Requests) \in Nat \ {0}
  <1>1. IsFiniteSet(rows)
    <2>1. IsFiniteSet(1..Len(of))
      BY RowIds, FS_Interval
    <2> QED BY <2>1, RowIds, FS_Subset
  <1>2. IsFiniteSet(Requests) /\ Counted \subseteq Requests
    BY FeaturedAssumption DEF Counted
  <1>3. Cardinality(Requests) # 0
    BY <1>2, FS_EmptySet, FeaturedAssumption
  <1> QED BY <1>1, <1>2, <1>3, FS_Subset, FS_CardinalityType

LEMMA FewerRows ==
  ASSUME TypeOK, OverlapsExceedLimit, rows' \subseteq rows, UNCHANGED request
  PROVE  OverlapsExceedLimit'
  <1>1. Cardinality(rows') \in Nat /\ Cardinality(rows') <= Cardinality(rows)
    BY Counts, FS_Subset, FS_CardinalityType
  <1>2. Counted' = Counted
    BY DEF Counted
  <1> QED BY <1>1, <1>2, Counts, FeaturedAssumption DEF OverlapsExceedLimit

LEMMA LimitStep ==
  ASSUME TypeOK, OverlapsExceedLimit, [Next]_vars
  PROVE  OverlapsExceedLimit'
  <1>1. CASE UNCHANGED vars
    BY <1>1, FewerRows DEF vars, rowVars
  <1>2. ASSUME NEW h \in Homes, HomeStep(h)
        PROVE  OverlapsExceedLimit'
    BY <1>2, HomeRows, FewerRows
  <1>3. ASSUME NEW r \in Requests, InsertFeatured(r)
        PROVE  OverlapsExceedLimit'
    <2>1. Cardinality(rows') = Cardinality(rows) + 1
      BY <1>3, InsertTypes, Counts, FS_AddElement
    <2>2. r \in Counted /\ Counted' = Counted \ {r}
      BY <1>3 DEF InsertFeatured, Counted, TypeOK
    <2>3. Cardinality(Counted') = Cardinality(Counted) - 1
      BY <2>2, Counts, FS_RemoveElement
    <2> QED BY <2>1, <2>3, Counts, FeaturedAssumption DEF OverlapsExceedLimit
  <1>4. ASSUME NEW c \in Collections, CollectionStep(c)
        PROVE  OverlapsExceedLimit'
    <2>1. ASSUME NEW r \in Requests, CountFeatured(r, c)
          PROVE  OverlapsExceedLimit'
      \* Whoever has counted found room; at most all the threads have.
      <3>1. TypeOK'
        BY <1>4, CollectionTypes
      <3>2. Cardinality(Counted') \in Nat /\ Cardinality(Counted') <= Cardinality(Requests)
        <4>1. Counted' \subseteq Requests /\ IsFiniteSet(Requests)
          BY FeaturedAssumption DEF Counted
        <4> QED BY <4>1, FS_Subset, FS_CardinalityType
      <3>3. Cardinality(rows) < FEATURE_LIMIT /\ rows' = rows
        BY <2>1 DEF CountFeatured, CanCreateAnother, rowVars
      <3> QED BY <3>2, <3>3, Counts, FeaturedAssumption DEF OverlapsExceedLimit
    <2>2. CASE Unfeature(c) \/ RemoveFeatured(c)
      BY <2>2, FewerRows DEF Unfeature, RemoveFeatured, DestroyRows
    <2>3. CASE DieHiding(c) \/ \E v \in Visibilities : ChangeCollection(c, v)
      BY <2>3, FewerRows DEF DieHiding, ChangeCollection, rowVars
    <2> QED BY <1>4, <2>1, <2>2, <2>3 DEF CollectionStep
  <1> QED BY <1>1, <1>2, <1>3, <1>4 DEF Next

LEMMA LimitStart == Init => OverlapsExceedLimit
  <1> SUFFICES ASSUME Init PROVE OverlapsExceedLimit
    OBVIOUS
  <1>1. TypeOK
    BY TypesStart
  <1>2. rows = {} /\ Counted = {}
    BY DEF Init, Counted
  <1>3. Cardinality(rows) = 0 /\ Cardinality(Counted) = 0
    BY <1>2, FS_EmptySet
  <1> QED BY <1>1, <1>3, Counts, FeaturedAssumption DEF OverlapsExceedLimit

\* More collections than the limit are featured only by requests that overlap,
\* and by no more than there are threads beside the first.
THEOREM LimitExceededByOverlap == Spec => []OverlapsExceedLimit
  <1>1. TypeOK /\ OverlapsExceedLimit /\ [Next]_vars => (TypeOK /\ OverlapsExceedLimit)'
    BY TypesStep, LimitStep
  <1> QED BY <1>1, TypesStart, LimitStart, PTL DEF Spec

-----------------------------------------------------------------------------
(* Collections that are not to be seen *)

\* Rows go, and nothing that could hide a collection changes.
LEMMA StillHidden ==
  ASSUME TypeOK, HiddenIsNotFeatured, rows' \subseteq rows,
         UNCHANGED <<visibility, of, removing>>, late \subseteq late'
  PROVE  HiddenIsNotFeatured'
  BY DEF HiddenIsNotFeatured, Hidden, RowsOf

LEMMA HiddenStep ==
  ASSUME TypeOK, HiddenIsNotFeatured, [Next]_vars
  PROVE  HiddenIsNotFeatured'
  <1>1. CASE UNCHANGED vars
    BY <1>1, StillHidden DEF vars, rowVars, historyVars
  <1>2. ASSUME NEW h \in Homes, HomeStep(h)
        PROVE  HiddenIsNotFeatured'
    BY <1>2, HomeRows, StillHidden
  <1>3. ASSUME NEW r \in Requests, InsertFeatured(r)
        PROVE  HiddenIsNotFeatured'
    <2> SUFFICES ASSUME NEW c \in Collections, Hidden(c)', c \notin removing' \cup late'
                 PROVE  RowsOf(c)' = {}
      BY DEF HiddenIsNotFeatured
    <2>1. /\ UNCHANGED <<visibility, removing>>
          /\ late' = IF Hidden(request[r]) THEN late \cup {request[r]} ELSE late
      BY <1>3 DEF InsertFeatured
    <2>2. Hidden(c) /\ c # request[r] /\ c \notin removing \cup late
      BY <2>1 DEF Hidden
    <2>3. RowsOf(c) = {}
      BY <2>2 DEF HiddenIsNotFeatured
    <2>4. /\ rows' = rows \cup {Len(of) + 1} /\ of'[Len(of) + 1] = request[r]
          /\ \A i \in rows : of'[i] = of[i]
      BY <1>3, InsertTypes
    <2> QED BY <2>2, <2>3, <2>4 DEF RowsOf
  <1>4. ASSUME NEW c \in Collections, CollectionStep(c)
        PROVE  HiddenIsNotFeatured'
    <2>1. CASE Unfeature(c)
      BY <2>1, StillHidden DEF Unfeature, DestroyRows, historyVars
    <2>2. CASE RemoveFeatured(c)
      <3>1. /\ rows' = rows \ RowsOf(c) /\ removing' = removing \ {c}
            /\ UNCHANGED <<visibility, of, late>>
        BY <2>2 DEF RemoveFeatured, DestroyRows, FeaturedRows, historyVars
      <3> QED BY <3>1 DEF HiddenIsNotFeatured, Hidden, RowsOf
    <2>3. CASE DieHiding(c)
      BY <2>3 DEF DieHiding, rowVars, HiddenIsNotFeatured, Hidden, RowsOf
    <2>4. CASE \E r \in Requests : CountFeatured(r, c)
      BY <2>4, StillHidden DEF CountFeatured, rowVars, historyVars
    <2>5. ASSUME NEW v \in Visibilities, ChangeCollection(c, v)
          PROVE  HiddenIsNotFeatured'
      <3>1. /\ visibility' = [visibility EXCEPT ![c] = v]
            /\ removing' = IF v \in {"restricted", "gone"} THEN removing \cup {c} ELSE removing
            /\ UNCHANGED <<of, rows, late>>
        BY <2>5 DEF ChangeCollection, rowVars, historyVars
      <3> QED BY <3>1 DEF HiddenIsNotFeatured, Hidden, RowsOf, TypeOK
    <2> QED BY <1>4, <2>1, <2>2, <2>3, <2>4, <2>5 DEF CollectionStep
  <1> QED BY <1>1, <1>2, <1>3, <1>4 DEF Next

\* A collection that was made private or destroyed loses all its rows, and gets
\* one back only from a page opened before.
THEOREM HiddenStaysOff == Spec => []HiddenIsNotFeatured
  <1>1. Init => HiddenIsNotFeatured
    BY DEF Init, HiddenIsNotFeatured, RowsOf
  <1>2. TypeOK /\ HiddenIsNotFeatured /\ [Next]_vars => (TypeOK /\ HiddenIsNotFeatured)'
    BY TypesStep, HiddenStep
  <1> QED BY <1>1, <1>2, TypesStart, PTL DEF Spec

-----------------------------------------------------------------------------
(* The order *)

\* What a page that no other page's save has overtaken may rely on: rows it does
\* not send come last, and those it has sent have the order it sent them with.
PageOrdered(h) ==
  LET p == home[h]
  IN  /\ DOMAIN p.form \subseteq 1..Len(of)
      /\ p.dragged => p.form \in Numberings(DOMAIN p.form)
      /\ p.at = "saving" => p.todo \subseteq DOMAIN p.form
      /\ h \notin mixed =>
           /\ p.at = "loaded" =>
                \A i \in rows : i \notin DOMAIN p.form \cup p.todo => order[i] = FEATURE_LIMIT
           /\ p.at \in {"open", "saving"} =>
                \A i \in rows : i \notin DOMAIN p.form => order[i] = FEATURE_LIMIT
           /\ p.at = "saving" =>
                \A i \in (rows \cap DOMAIN p.form) \ p.todo :
                   p.form[i] \in Weights => order[i] = p.form[i]

\* The rows that were arranged have the weights they were given; the others come
\* last.
SavedOrdered ==
  /\ DOMAIN arranged \subseteq 1..Len(of)
  /\ \A i \in DOMAIN arranged : arranged[i] \in 0..(FEATURE_LIMIT - 1)
  /\ DOMAIN arranged # {} =>
       \A i \in rows : order[i] = IF i \in DOMAIN arranged THEN arranged[i] ELSE FEATURE_LIMIT

OrderInv == SavedOrdered /\ \A h \in Homes : PageOrdered(h)

\* Rows may go; those that stay keep their order.
OrdersKept == of' = of /\ rows' \subseteq rows /\ \A i \in rows' : order'[i] = order[i]

LEMMA SavedKept ==
  ASSUME SavedOrdered, OrdersKept, UNCHANGED arranged
  PROVE  SavedOrdered'
  BY DEF SavedOrdered, OrdersKept

LEMMA PageKept ==
  ASSUME NEW h \in Homes, PageOrdered(h), OrdersKept, h \in mixed => h \in mixed',
         home'[h].at = home[h].at, home'[h].form = home[h].form,
         home'[h].todo = home[h].todo, home'[h].dragged = home[h].dragged
  PROVE  PageOrdered(h)'
  BY DEF PageOrdered, OrdersKept

LEMMA RemovalKeeps ==
  ASSUME TypeOK, NEW S, DestroyRows(S), UNCHANGED of
  PROVE  OrdersKept
  BY RemovalTyped DEF OrdersKept

LEMMA NewPage ==
  ASSUME NEW h \in Homes, home'[h] = Closed
  PROVE  PageOrdered(h)'
  BY ClosedTyped, NothingTyped DEF PageOrdered, Closed, Page

LEMMA CollectionOrder ==
  ASSUME TypeOK, OrderInv, NEW c \in Collections, CollectionStep(c)
  PROVE  OrderInv'
  <1>1. OrdersKept /\ UNCHANGED <<home, mixed, arranged>>
    <2>1. CASE Unfeature(c) \/ RemoveFeatured(c)
      BY <2>1, RemovalKeeps DEF Unfeature, RemoveFeatured, historyVars
    <2>2. CASE DieHiding(c) \/ \E r \in Requests : CountFeatured(r, c)
      BY <2>2 DEF DieHiding, CountFeatured, OrdersKept, rowVars, historyVars
    <2>3. CASE \E v \in Visibilities : ChangeCollection(c, v)
      BY <2>3 DEF ChangeCollection, OrdersKept, rowVars, historyVars
    <2> QED BY <2>1, <2>2, <2>3 DEF CollectionStep
  <1> QED BY <1>1, SavedKept, PageKept DEF OrderInv

\* A new row comes last, and no page has it yet.
LEMMA InsertOrder ==
  ASSUME TypeOK, OrderInv, NEW r \in Requests, InsertFeatured(r)
  PROVE  OrderInv'
  <1> DEFINE n == Len(of) + 1
  <1>1. /\ rows' = rows \cup {n} /\ n \notin rows
        /\ order'[n] = FEATURE_LIMIT /\ \A i \in rows : order'[i] = order[i]
        /\ Len(of) \in Nat /\ Len(of') = n /\ n \notin 1..Len(of) /\ 1..Len(of) \subseteq 1..n
        /\ UNCHANGED <<home, mixed, arranged>>
    <2>1. of \in Seq(Collections) /\ request[r] \in Collections /\ of' = Append(of, request[r])
      BY InsertTypes DEF TypeOK
    <2>2. Len(of') = n /\ Len(of) \in Nat
      BY <2>1, AppendProperties, LenProperties
    <2>3. n \notin 1..Len(of) /\ 1..Len(of) \subseteq 1..n
      BY <2>2
    <2>4. UNCHANGED <<home, mixed, arranged>>
      BY DEF InsertFeatured
    <2> QED BY <2>2, <2>3, <2>4, InsertTypes
  <1> HIDE DEF n
  <1>2. SavedOrdered'
    BY <1>1 DEF OrderInv, SavedOrdered
  <1>3. ASSUME NEW h \in Homes
        PROVE  PageOrdered(h)'
    <2>1. PageOrdered(h)
      BY DEF OrderInv
    <2> QED BY <1>1, <2>1 DEF PageOrdered
  <1> QED BY <1>2, <1>3 DEF OrderInv

\* Steps of a page other than saving touch no other page and keep the order.
LEMMA OthersKept ==
  ASSUME TypeOK, OrderInv, NEW h \in Homes, NEW p, home' = [home EXCEPT ![h] = p],
         OrdersKept, UNCHANGED arranged, mixed \ {h} \subseteq mixed', PageOrdered(h)'
  PROVE  OrderInv'
  <1>1. ASSUME NEW k \in Homes
        PROVE  PageOrdered(k)'
    <2>1. CASE k # h
      <3>1. home'[k] = home[k] /\ PageOrdered(k) /\ (k \in mixed => k \in mixed')
        BY <2>1, OnePage DEF OrderInv
      <3> QED BY <3>1, PageKept
    <2> QED BY <2>1
  <1> QED BY <1>1, SavedKept DEF OrderInv

LEMMA ViewOrder ==
  ASSUME TypeOK, OrderInv, NEW h \in Homes, ListIds(h) \/ LoadFeatured(h) \/ ShowFeatured(h)
  PROVE  OrderInv'
  <1>1. CASE ListIds(h)
    <2> DEFINE p == [Closed EXCEPT !.at = "listed", !.listed = {of[i] : i \in rows} \ Gone]
    <2>1. home' = [home EXCEPT ![h] = p] /\ UNCHANGED <<rows, of, order, mixed, arranged>>
      BY <1>1 DEF ListIds, rowVars, historyVars
    <2>2. p.at = "listed" /\ p.form = Nothing /\ p.dragged = FALSE
      BY DEF Closed, Page
    <2> HIDE DEF p
    <2>3. PageOrdered(h)'
      BY <2>1, <2>2, OnePage, NothingTyped DEF PageOrdered
    <2> QED BY <2>1, <2>3, OthersKept DEF OrdersKept
  <1>2. CASE LoadFeatured(h)
    <2>1. UNCHANGED <<rows, of, order, mixed, arranged>>
      BY <1>2 DEF LoadFeatured, rowVars, historyVars
    <2>2. ASSUME home' = [home EXCEPT ![h] = Closed]
          PROVE  OrderInv'
      BY <2>1, <2>2, NewPage, OnePage, OthersKept DEF OrdersKept
    <2>3. ASSUME NEW R \in SUBSET rows,
                 home' = [home EXCEPT ![h] = [Page("loaded", [i \in R |-> order[i]])
                                                 EXCEPT !.todo = rows \ R]]
          PROVE  OrderInv'
      <3> DEFINE p == [Page("loaded", [i \in R |-> order[i]]) EXCEPT !.todo = rows \ R]
      <3>1. p.at = "loaded" /\ DOMAIN p.form = R /\ p.todo = rows \ R /\ p.dragged = FALSE
        BY DEF Page
      <3>2. home' = [home EXCEPT ![h] = p]
        BY <2>3
      <3> HIDE DEF p
      <3>3. PageOrdered(h)'
        BY <2>1, <3>1, <3>2, OnePage, RowIds DEF PageOrdered
      <3> QED BY <2>1, <3>2, <3>3, OthersKept DEF OrdersKept
    <2> QED BY <1>2, <2>2, <2>3 DEF LoadFeatured, Presented
  <1>3. CASE ShowFeatured(h)
    <2> DEFINE p == Page("open", home[h].form)
    <2>1. home' = [home EXCEPT ![h] = p] /\ OrdersKept /\ UNCHANGED <<mixed, arranged>>
          /\ rows' = rows \ home[h].todo /\ home[h].at = "loaded"
      BY <1>3, RemovalKeeps DEF ShowFeatured, At, DestroyRows, historyVars
    <2>2. p.at = "open" /\ p.form = home[h].form /\ p.dragged = FALSE
      BY DEF Page
    <2> HIDE DEF p
    <2>3. PageOrdered(h)'
      <3>1. PageOrdered(h) /\ home'[h] = p
        BY <2>1, OnePage DEF OrderInv
      <3> QED BY <2>1, <2>2, <3>1 DEF PageOrdered, OrdersKept
    <2> QED BY <2>1, <2>3, OthersKept
  <1> QED BY <1>1, <1>2, <1>3

LEMMA PageOrder ==
  ASSUME TypeOK, OrderInv, NEW h \in Homes,
         \/ Leave(h) \/ SaveOrder(h)
         \/ \E f \in Numberings(DOMAIN home[h].form) : DragAndDrop(h, f)
  PROVE  OrderInv'
  <1>1. home[h] \in Pages /\ DOMAIN home[h].form \in SUBSET Ids /\ PageOrdered(h)
    BY FormDomain DEF TypeOK, Pages, OrderInv
  <1>2. CASE Leave(h)
    BY <1>2, NewPage, OnePage, OthersKept DEF Leave, OrdersKept, rowVars
  <1>3. CASE SaveOrder(h)
    <2> DEFINE p == [Page("saving", home[h].form) EXCEPT
                        !.todo = DOMAIN home[h].form, !.dragged = home[h].dragged]
    <2>1. home' = [home EXCEPT ![h] = p] /\ UNCHANGED <<rows, of, order, mixed, arranged>>
          /\ home[h].at = "open"
      BY <1>3 DEF SaveOrder, At, rowVars, historyVars
    <2>2. p.at = "saving" /\ p.form = home[h].form /\ p.todo = DOMAIN home[h].form
          /\ p.dragged = home[h].dragged
      BY DEF Page
    <2> HIDE DEF p
    <2>3. PageOrdered(h)'
      BY <1>1, <2>1, <2>2, OnePage DEF PageOrdered
    <2> QED BY <2>1, <2>3, OthersKept DEF OrdersKept
  <1>4. ASSUME NEW f \in Numberings(DOMAIN home[h].form), DragAndDrop(h, f)
        PROVE  OrderInv'
    <2> DEFINE p == [home[h] EXCEPT !.form = f, !.dragged = TRUE]
    <2>1. home' = [home EXCEPT ![h] = p] /\ UNCHANGED <<rows, of, order, mixed, arranged>>
          /\ home[h].at = "open"
      BY <1>4 DEF DragAndDrop, At, rowVars, historyVars
    <2>2. p.at = "open" /\ p.form = f
      BY <1>1, <2>1 DEF Pages
    <2>3. DOMAIN f = DOMAIN home[h].form
      BY <1>1, NumberingBounds
    <2> HIDE DEF p
    <2>4. PageOrdered(h)'
      BY <1>1, <2>1, <2>2, <2>3, OnePage DEF PageOrdered
    <2> QED BY <2>1, <2>4, OthersKept DEF OrdersKept
  <1> QED BY <1>2, <1>3, <1>4

\* One row saved: the other open pages are mixed from here on, and the last row
\* of a page that is not leaves all rows as it was arranged.
LEMMA UpdateOrders ==
  ASSUME TypeOK, OrderInv, NEW h \in Homes, NEW i \in Ids, UpdateOrder(h, i)
  PROVE  OrderInv'
  <1> DEFINE page == home[h]
             found == i \in rows
             ends == page.todo = {i}
  <1>1. /\ page \in Pages /\ page.at = "saving" /\ i \in page.todo
        /\ order' = IF found /\ page.form[i] \in Weights
                    THEN [order EXCEPT ![i] = page.form[i]] ELSE order
        /\ home' = [home EXCEPT ![h] = IF ends \/ ~found THEN Closed
                                       ELSE [page EXCEPT !.todo = page.todo \ {i}]]
        /\ arranged' = IF found /\ ends /\ page.dragged /\ h \notin mixed
                          /\ Cardinality(DOMAIN page.form) <= FEATURE_LIMIT
                       THEN page.form ELSE Nothing
        /\ mixed' = {k \in mixed \cup (Homes \ {h}) : home[k].at # "closed"}
                      \ (IF ends \/ ~found THEN {h} ELSE {})
        /\ UNCHANGED <<of, rows>>
    BY DEF UpdateOrder, At, TypeOK
  <1>2. PageOrdered(h) /\ i \in DOMAIN page.form
    BY <1>1 DEF OrderInv, PageOrdered
  <1>3. \A j \in rows : order'[j] = IF j = i /\ page.form[i] \in Weights
                                    THEN page.form[i] ELSE order[j]
    BY <1>1 DEF TypeOK
  <1>4. SavedOrdered'
    <2>1. CASE arranged' = Nothing
      BY <2>1, NothingTyped DEF SavedOrdered
    <2>2. CASE arranged' # Nothing
      <3> DEFINE f == page.form
                 D == DOMAIN page.form
      <3>1. /\ arranged' = f /\ page.todo = {i} /\ page.dragged /\ h \notin mixed
            /\ Cardinality(D) <= FEATURE_LIMIT
        BY <1>1, <2>2
      <3>2. D \in SUBSET Ids
        BY <1>1, FormDomain DEF Pages
      <3>3. f \in Numberings(D) /\ D \subseteq 1..Len(of)
        BY <1>2, <3>1 DEF PageOrdered
      <3>4. \A j \in D : f[j] \in 0..(FEATURE_LIMIT - 1) /\ f[j] \in Weights
        <4>1. Cardinality(D) \in Nat /\ \A j \in D : f[j] \in 0..(Cardinality(D) - 1)
          BY <3>2, <3>3, NumberingBounds
        <4> HIDE DEF f, D
        <4> QED BY <3>1, <4>1, FeaturedAssumption DEF Weights
      <3>5. /\ \A j \in rows : j \notin D => order[j] = FEATURE_LIMIT
            /\ \A j \in (rows \cap D) \ {i} : f[j] \in Weights => order[j] = f[j]
        BY <1>1, <1>2, <3>1 DEF PageOrdered
      <3>6. \A j \in rows : order'[j] = IF j \in D THEN f[j] ELSE FEATURE_LIMIT
        BY <1>2, <1>3, <3>4, <3>5
      <3> HIDE DEF f, D
      <3>7. DOMAIN arranged' = D /\ \A j \in rows' : j \in rows
        BY <1>1, <3>1 DEF f, D
      <3> QED BY <1>1, <3>1, <3>3, <3>4, <3>6, <3>7 DEF SavedOrdered
    <2> QED BY <2>1, <2>2
  <1>5. ASSUME NEW k \in Homes, k # h
        PROVE  PageOrdered(k)'
    <2>1. home'[k] = home[k] /\ PageOrdered(k) /\ (home[k].at # "closed" => k \in mixed')
      BY <1>1, <1>5, OnePage DEF OrderInv
    <2> QED BY <1>1, <2>1 DEF PageOrdered
  <1>6. PageOrdered(h)'
    <2>1. CASE ends \/ ~found
      BY <1>1, <2>1, OnePage, NewPage
    <2>2. CASE ~(ends \/ ~found)
      <3>1. home'[h] = [page EXCEPT !.todo = page.todo \ {i}] /\ (h \in mixed => h \in mixed')
        BY <1>1, <2>2, OnePage
      <3>2. /\ home'[h].at = "saving" /\ home'[h].form = page.form
            /\ home'[h].dragged = page.dragged /\ home'[h].todo = page.todo \ {i}
        BY <1>1, <3>1 DEF Pages
      <3> QED BY <1>1, <1>2, <1>3, <3>1, <3>2 DEF PageOrdered
    <2> QED BY <2>1, <2>2
  <1> QED BY <1>4, <1>5, <1>6 DEF OrderInv

LEMMA OrderStep ==
  ASSUME TypeOK, OrderInv, [Next]_vars
  PROVE  OrderInv'
  <1>1. CASE UNCHANGED vars
    BY <1>1, SavedKept, PageKept DEF vars, rowVars, historyVars, OrdersKept, OrderInv
  <1>2. ASSUME NEW h \in Homes, HomeStep(h)
        PROVE  OrderInv'
    BY <1>2, ViewOrder, PageOrder, UpdateOrders DEF HomeStep
  <1> QED BY <1>1, <1>2, CollectionOrder, InsertOrder DEF Next

LEMMA OrderStart == Init => OrderInv
  <1> SUFFICES ASSUME Init PROVE OrderInv
    OBVIOUS
  <1>1. SavedOrdered
    BY NothingTyped DEF Init, SavedOrdered
  <1>2. ASSUME NEW h \in Homes PROVE PageOrdered(h)
    BY ClosedTyped, NothingTyped DEF Init, PageOrdered, Closed, Page
  <1> QED BY <1>1, <1>2 DEF OrderInv

LEMMA OrderShows ==
  ASSUME TypeOK, OrderInv
  PROVE  ArrangedStays
  <1>1. ASSUME NEW i \in rows \cap DOMAIN arranged, NEW k \in rows,
               k \notin DOMAIN arranged \/ arranged[i] < arranged[k]
        PROVE  order[i] < order[k]
    <2>1. order[i] = arranged[i] /\ arranged[i] \in 0..(FEATURE_LIMIT - 1)
      BY <1>1 DEF OrderInv, SavedOrdered
    <2>2. order[k] = IF k \in DOMAIN arranged THEN arranged[k] ELSE FEATURE_LIMIT
      BY <1>1 DEF OrderInv, SavedOrdered
    <2> QED BY <1>1, <2>1, <2>2, FeaturedAssumption
  <1> QED BY <1>1 DEF ArrangedStays

\* What was arranged stays arranged, with what is featured later behind it, for
\* any number of open pages, removals and looks.
THEOREM OrderStays == Spec => []ArrangedStays
  <1>1. TypeOK /\ OrderInv /\ [Next]_vars => (TypeOK /\ OrderInv)'
    BY TypesStep, OrderStep
  <1> QED BY <1>1, TypesStart, OrderStart, OrderShows, PTL DEF Spec

=============================================================================
