--------------------------- MODULE OerRelationsProofs ---------------------------
(* Theorems of OerRelations, for every import table, and every number of     *)
(* records, forms, rows, imports and errors.                                 *)
EXTENDS OerRelations, FiniteSetTheorems, TLAPS

-----------------------------------------------------------------------------
(* The invariant *)

\* What an update relates has a work.
KnownInv ==
  \A p \in Updaters :
     /\ \A e \in update[p].todo : e.id \in exists
     /\ \A t \in Types : update[p].copy[t] \subseteq exists

\* An update at work on a record that is not raced for is alone, has the lists
\* of the record as they are, and finds a work that it has still to see to under
\* the types the work has; it sees to each work once.
InHand(p, r) ==
  /\ update[p].copy = rel[r]
  /\ \A e, d \in update[p].todo : e.id = d.id => e = d
  /\ \A e \in update[p].todo, t \in Types : e.id \in rel[r][t] <=> e.id \in update[p].existing[t]

HandInv ==
  \A p \in Updaters :
     At(p, "loaded") /\ update[p].rec \notin raced =>
        /\ InHand(p, update[p].rec)
        /\ \A q \in Updaters : At(q, "loaded") /\ update[q].rec = update[p].rec => q = p

TypeInv ==
  \A r \in Records \ raced, x \in Records : \A s, t \in Types :
     x \in rel[r][s] /\ x \in rel[r][t] => s = t

OerInv == TypeOK /\ KnownInv /\ HandInv /\ TypeInv

LEMMA UpdaterKinds ==
  /\ \A j \in Jobs : j \in Updaters /\ j[1] \in Records /\ j[2] \in Types
  /\ Forms \subseteq Updaters
  BY OerAssumption DEF Jobs, Updaters

LEMMA NoneTyped == None \in Relations /\ \A t \in Types : None[t] = {}
  BY DEF None, Relations

LEMMA OerStart == Init => OerInv
  <1> SUFFICES ASSUME Init PROVE OerInv
    OBVIOUS
  <1>1. PICK r \in Records :
           update = [p \in Updaters |-> [at |-> "idle", rec |-> IF p \in Jobs THEN p[1] ELSE r,
                                         todo |-> {}, existing |-> None, copy |-> None]]
    BY DEF Init
  <1>2. update \in [Updaters -> UpdateStates]
    BY <1>1, UpdaterKinds, NoneTyped DEF UpdateStates
  <1>3. /\ \A p \in Updaters : /\ update[p].at = "idle" /\ update[p].todo = {}
                               /\ update[p].copy = None
    BY <1>1
  <1>4. /\ exists \subseteq Records /\ rel = [q \in Records |-> None]
        /\ raced = {} /\ failed = {} /\ imports = 0 /\ errors = 0
    BY DEF Init
  <1>5. TypeOK
    BY <1>2, <1>4, NoneTyped, OerAssumption DEF TypeOK
  <1>6. KnownInv
    BY <1>3, NoneTyped DEF KnownInv
  <1>7. HandInv /\ TypeInv
    BY <1>3, <1>4, NoneTyped DEF HandInv, TypeInv, At
  <1> QED BY <1>5, <1>6, <1>7 DEF OerInv

-----------------------------------------------------------------------------
(* Each step keeps the invariant *)

LEMMA OneUpdate ==
  ASSUME TypeOK, NEW p \in Updaters, NEW u \in UpdateStates,
         update' = [update EXCEPT ![p] = u]
  PROVE  /\ update' \in [Updaters -> UpdateStates]
         /\ update'[p] = u /\ \A q \in Updaters : q # p => update'[q] = update[q]
  BY DEF TypeOK

LEMMA UpdateTyped ==
  ASSUME TypeOK, NEW p \in Updaters
  PROVE  /\ update[p] \in UpdateStates /\ update[p].rec \in Records
         /\ update[p].todo \subseteq Entries
         /\ update[p].existing \in Relations /\ update[p].copy \in Relations
  BY DEF TypeOK, UpdateStates

LEMMA RestedTyped ==
  ASSUME TypeOK, NEW p \in Updaters, NEW step \in {"idle", "queued"}
  PROVE  /\ Rested(p, step) \in UpdateStates /\ Rested(p, step).at = step
         /\ Rested(p, step).todo = {} /\ Rested(p, step).copy = None
  BY UpdateTyped, NoneTyped DEF Rested, UpdateStates

\* An update that is not at work may change or rest: lists stay as they are.
LEMMA AsideKeeps ==
  ASSUME OerInv, NEW p \in Updaters, NEW u \in UpdateStates,
         update' = [update EXCEPT ![p] = u], u.at # "loaded",
         \A e \in u.todo : e.id \in exists,
         \A t \in Types : u.copy[t] \subseteq exists,
         UNCHANGED <<exists, rel, raced, imports>>,
         failed' \subseteq Jobs, errors' \in 0..MaxErrors
  PROVE  OerInv'
  <1>1. /\ update' \in [Updaters -> UpdateStates]
        /\ update'[p] = u /\ \A q \in Updaters : q # p => update'[q] = update[q]
    BY OneUpdate DEF OerInv
  <1>2. TypeOK'
    BY <1>1 DEF OerInv, TypeOK
  <1>3. KnownInv'
    BY <1>1 DEF OerInv, KnownInv
  <1>4. HandInv'
    <2>1. \A q \in Updaters : At(q, "loaded")' => q # p /\ At(q, "loaded")
      BY <1>1 DEF At
    <2> QED BY <1>1, <2>1 DEF OerInv, HandInv, InHand
  <1>5. TypeInv'
    BY DEF OerInv, TypeInv
  <1> QED BY <1>2, <1>3, <1>4, <1>5 DEF OerInv

LEMMA RestKeeps ==
  ASSUME OerInv, NEW p \in Updaters, NEW step \in {"idle", "queued"},
         update' = [update EXCEPT ![p] = Rested(p, step)],
         UNCHANGED <<exists, rel, raced, imports>>,
         failed' \subseteq Jobs, errors' \in 0..MaxErrors
  PROVE  OerInv'
  <1>1. TypeOK
    BY DEF OerInv
  <1>2. /\ Rested(p, step) \in UpdateStates /\ Rested(p, step).at # "loaded"
        /\ Rested(p, step).todo = {} /\ \A t \in Types : Rested(p, step).copy[t] = {}
    BY <1>1, RestedTyped, NoneTyped
  <1> QED BY <1>2, AsideKeeps

\* The lists as they are loaded are the lists there are; whoever comes second is
\* noted.
LEMMA LoadKeeps ==
  ASSUME OerInv, NEW p \in Updaters, NEW r \in Records, NEW entries \in SUBSET Entries,
         Load(p, r, entries), \A e \in entries : e.id \in exists,
         UNCHANGED <<exists, rel, failed, imports, errors>>
  PROVE  OerInv'
  <1> DEFINE u == [at |-> "loaded", rec |-> r, todo |-> entries,
                   existing |-> rel[r], copy |-> rel[r]]
  <1>1. /\ TypeOK /\ update' = [update EXCEPT ![p] = u]
        /\ rel[r] \in Relations /\ \A t \in Types : rel[r][t] \subseteq exists
        /\ raced \subseteq raced' /\ raced' \subseteq Records
    BY DEF OerInv, Load, TypeOK
  <1>2. /\ u \in UpdateStates /\ u.at = "loaded" /\ u.rec = r /\ u.todo = entries
        /\ u.existing = rel[r] /\ u.copy = rel[r]
    BY <1>1 DEF UpdateStates
  <1> HIDE DEF u
  <1>3. /\ update' \in [Updaters -> UpdateStates]
        /\ update'[p] = u /\ \A q \in Updaters : q # p => update'[q] = update[q]
    BY <1>1, <1>2, OneUpdate
  <1>4. r \notin raced' => /\ \A e, d \in entries : e.id = d.id => e = d
                           /\ \A q \in Updaters : q # p /\ At(q, "loaded") => update[q].rec # r
    BY DEF Load, NamesTwice
  <1>5. TypeOK'
    BY <1>1, <1>3 DEF TypeOK
  <1>6. KnownInv'
    BY <1>1, <1>2, <1>3 DEF OerInv, KnownInv
  <1>7. HandInv'
    <2> SUFFICES ASSUME NEW q \in Updaters, At(q, "loaded")', update'[q].rec \notin raced'
                 PROVE  /\ InHand(q, update[q].rec)'
                        /\ \A i \in Updaters :
                              At(i, "loaded")' /\ update'[i].rec = update'[q].rec => i = q
      BY DEF HandInv
    <2>1. CASE q = p
      <3>1. InHand(q, update[q].rec)'
        BY <1>2, <1>3, <1>4, <2>1 DEF InHand
      <3>2. \A i \in Updaters : At(i, "loaded")' /\ update'[i].rec = update'[q].rec => i = q
        BY <1>2, <1>3, <1>4, <2>1 DEF At
      <3> QED BY <3>1, <3>2
    <2>2. CASE q # p
      <3>1. At(q, "loaded") /\ update[q].rec \notin raced /\ update'[q] = update[q]
        BY <1>1, <1>3, <2>2 DEF At
      <3>2. update[q].rec # r
        BY <1>4, <2>2, <3>1
      <3>3. InHand(q, update[q].rec)'
        BY <3>1 DEF OerInv, HandInv, InHand
      <3>4. \A i \in Updaters : At(i, "loaded")' /\ update'[i].rec = update'[q].rec => i = q
        BY <1>2, <1>3, <3>1, <3>2 DEF OerInv, HandInv, At
      <3> QED BY <3>3, <3>4
    <2> QED BY <2>1, <2>2
  <1>8. TypeInv'
    BY <1>1 DEF OerInv, TypeInv
  <1> QED BY <1>5, <1>6, <1>7, <1>8 DEF OerInv

\* A work that is found under no type has none; one that is found has one.
LEMMA NotFound ==
  ASSUME NEW existing \in Relations, NEW x, FoundUnder(existing, x) = {}
  PROVE  \A t \in Types : x \notin existing[t]
  BY DEF FoundUnder, Types, Range

\* One entry changes the list of its type, by its work and by no other.
LEMMA OneEntry ==
  ASSUME OerInv, NEW p \in Updaters, NEW e \in update[p].todo, Apply(p, e)
  PROVE  \E new \in SUBSET Records, saves \in BOOLEAN :
            /\ new \subseteq exists
            /\ rel' = IF saves THEN [rel EXCEPT ![update[p].rec][e.type] = new] ELSE rel
            /\ update' = [update EXCEPT ![p] =
                  IF update[p].todo = {e} THEN Rested(p, "idle")
                  ELSE [update[p] EXCEPT !.todo = @ \ {e},
                           !.copy[e.type] = IF saves THEN new ELSE @]]
            /\ \/ new = update[p].copy[e.type] \ {e.id}
               \/ /\ new = update[p].copy[e.type] \cup {e.id}
                  /\ \A t \in Types : e.id \notin update[p].existing[t]
  <1> DEFINE u == update[p]
             adds == Adds(u.existing, e)
             saves == adds \/ Removes(u.existing, e)
             new == IF adds THEN u.copy[e.type] \cup {e.id} ELSE u.copy[e.type] \ {e.id}
  <1>1. /\ TypeOK /\ e \in Entries /\ u.copy \in Relations /\ u.existing \in Relations
    BY UpdateTyped DEF OerInv
  <1>2. e.id \in exists /\ e.type \in Types /\ u.copy[e.type] \subseteq exists
        /\ exists \subseteq Records
    BY <1>1 DEF OerInv, KnownInv, Entries, TypeOK
  <1>3. saves \in BOOLEAN /\ new \subseteq exists /\ new \in SUBSET Records
    BY <1>2 DEF Adds, Removes
  <1>4. adds => \A t \in Types : e.id \notin u.existing[t]
    BY <1>1, NotFound DEF Adds
  <1>5. /\ rel' = IF saves THEN [rel EXCEPT ![u.rec][e.type] = new] ELSE rel
        /\ update' = [update EXCEPT ![p] =
              IF u.todo = {e} THEN Rested(p, "idle")
              ELSE [u EXCEPT !.todo = @ \ {e}, !.copy[e.type] = IF saves THEN new ELSE @]]
    BY DEF Apply
  <1>6. \/ new = u.copy[e.type] \ {e.id}
        \/ new = u.copy[e.type] \cup {e.id} /\ \A t \in Types : e.id \notin u.existing[t]
    BY <1>4
  <1> HIDE DEF saves, new, adds
  <1> QED BY <1>3, <1>5, <1>6

LEMMA ApplyKeeps ==
  ASSUME OerInv, NEW p \in Updaters, NEW e \in update[p].todo, Apply(p, e)
  PROVE  OerInv'
  <1> DEFINE r == update[p].rec
             rest == update[p].todo \ {e}
             old == update[p].existing
             copy == update[p].copy
  <1>1. PICK new \in SUBSET Records, saves \in BOOLEAN :
            /\ new \subseteq exists
            /\ rel' = IF saves THEN [rel EXCEPT ![r][e.type] = new] ELSE rel
            /\ update' = [update EXCEPT ![p] =
                  IF update[p].todo = {e} THEN Rested(p, "idle")
                  ELSE [update[p] EXCEPT !.todo = @ \ {e},
                           !.copy[e.type] = IF saves THEN new ELSE @]]
            /\ \/ new = copy[e.type] \ {e.id}
               \/ new = copy[e.type] \cup {e.id} /\ \A t \in Types : e.id \notin old[t]
    BY OneEntry
  <1>2. /\ TypeOK /\ At(p, "loaded")
        /\ UNCHANGED <<exists, raced, failed, imports, errors>>
        /\ r \in Records /\ copy \in Relations /\ old \in Relations
        /\ e \in Entries /\ e.type \in Types /\ rest \subseteq Entries
        /\ rel \in [Records -> Relations] /\ \A q \in Records : rel[q] \in Relations
    BY UpdateTyped DEF OerInv, Apply, historyVars, Entries, TypeOK
  <1> DEFINE next == [update[p] EXCEPT !.todo = rest,
                         !.copy = [copy EXCEPT ![e.type] = IF saves THEN new ELSE @]]
             u == IF update[p].todo = {e} THEN Rested(p, "idle") ELSE next
  <1>3. update' = [update EXCEPT ![p] = u]
    BY <1>1
  <1>4. /\ next \in UpdateStates /\ next.at = "loaded" /\ next.rec = r /\ next.todo = rest
        /\ next.existing = old
        /\ next.copy = [copy EXCEPT ![e.type] = IF saves THEN new ELSE @]
        /\ next.copy \in Relations
    <2>1. [copy EXCEPT ![e.type] = IF saves THEN new ELSE @] \in Relations
      BY <1>2 DEF Relations
    <2> QED BY <1>2, <2>1, UpdateTyped DEF UpdateStates, At
  <1> HIDE DEF next
  <1>5. /\ u \in UpdateStates
        /\ \/ u.at = "idle" /\ u.todo = {} /\ u.copy = None
           \/ u = next
    BY <1>2, <1>4, RestedTyped
  <1> HIDE DEF u
  <1>6. /\ update' \in [Updaters -> UpdateStates]
        /\ update'[p] = u /\ \A q \in Updaters : q # p => update'[q] = update[q]
    BY <1>2, <1>3, <1>5, OneUpdate
  <1>7. /\ rel' \in [Records -> Relations]
        /\ \A q \in Records : q # r => rel'[q] = rel[q]
        /\ \A t \in Types : t # e.type => rel'[r][t] = rel[r][t]
        /\ rel'[r][e.type] = IF saves THEN new ELSE rel[r][e.type]
    BY <1>1, <1>2 DEF Relations
  <1>8. TypeOK'
    <2>1. \A q \in Records, t \in Types : rel'[q][t] \subseteq exists
      BY <1>1, <1>2, <1>7 DEF TypeOK
    <2> QED BY <1>2, <1>6, <1>7, <2>1 DEF TypeOK
  <1>9. KnownInv'
    <2>1. \A t \in Types : next.copy[t] \subseteq exists
      BY <1>1, <1>2, <1>4 DEF OerInv, KnownInv, Relations
    <2>2. /\ \A d \in u.todo : d.id \in exists
          /\ \A t \in Types : u.copy[t] \subseteq exists
      BY <1>4, <1>5, <2>1, NoneTyped DEF OerInv, KnownInv
    <2> QED BY <1>2, <1>6, <2>2 DEF OerInv, KnownInv
  <1>10. ASSUME r \notin raced
         PROVE  /\ copy = rel[r]
                /\ \A d \in rest : d.id # e.id
                /\ \A d \in update[p].todo, t \in Types : d.id \in rel[r][t] <=> d.id \in old[t]
                /\ \A d, c \in rest : d.id = c.id => d = c
                /\ \A q \in Updaters : At(q, "loaded") /\ update[q].rec = r => q = p
    BY <1>2, <1>10 DEF OerInv, HandInv, InHand
  <1>11. ASSUME r \notin raced
         PROVE  \A x \in Records : x # e.id => \A t \in Types : x \in rel'[r][t] <=> x \in rel[r][t]
    <2>1. \A x \in Records : x # e.id => (x \in new <=> x \in rel[r][e.type])
      BY <1>1, <1>10, <1>11
    <2> QED BY <1>7, <2>1
  <1>12. HandInv'
    <2> SUFFICES ASSUME NEW q \in Updaters, At(q, "loaded")', update'[q].rec \notin raced
                 PROVE  /\ InHand(q, update[q].rec)'
                        /\ \A i \in Updaters :
                              At(i, "loaded")' /\ update'[i].rec = update'[q].rec => i = q
      BY <1>2 DEF HandInv
    <2>1. \A i \in Updaters : At(i, "loaded")' => At(i, "loaded") /\ update'[i].rec = update[i].rec
      BY <1>2, <1>4, <1>5, <1>6 DEF At
    <2>2. \A i \in Updaters : At(i, "loaded")' /\ update'[i].rec = update'[q].rec => i = q
      BY <2>1 DEF OerInv, HandInv
    <2>3. CASE q = p
      <3>1. update'[q] = next /\ r \notin raced
        BY <1>4, <1>5, <1>6, <2>3 DEF At
      <3>2. next.copy = rel'[r]
        <4>1. \A t \in Types : next.copy[t] = rel'[r][t]
          BY <1>2, <1>4, <1>7, <1>10, <3>1 DEF Relations
        <4>2. rel'[r] \in Relations
          BY <1>2, <1>7
        <4> QED BY <1>4, <4>1, <4>2 DEF Relations
      <3>3. \A d \in rest : d \in Entries /\ d.id \in Records /\ d \in update[p].todo
        BY <1>2 DEF Entries
      <3>4. \A d \in rest, t \in Types : d.id \in rel'[r][t] <=> d.id \in old[t]
        BY <1>10, <1>11, <3>1, <3>3
      <3> QED BY <1>4, <1>10, <2>2, <3>1, <3>2, <3>4 DEF InHand
    <2>4. CASE q # p
      <3>1. update'[q] = update[q] /\ update[q].rec # r /\ update[q].rec \in Records
        BY <1>2, <1>6, <2>1, <2>4, UpdateTyped DEF OerInv, HandInv
      <3>2. rel'[update[q].rec] = rel[update[q].rec]
        BY <1>7, <3>1
      <3>3. InHand(q, update[q].rec)'
        BY <2>1, <3>1, <3>2 DEF OerInv, HandInv, InHand
      <3> QED BY <2>2, <3>3
    <2> QED BY <2>3, <2>4
  <1>13. TypeInv'
    <2> SUFFICES ASSUME NEW q \in Records \ raced, NEW x \in Records, NEW s \in Types, NEW t \in Types,
                        x \in rel'[q][s], x \in rel'[q][t]
                 PROVE  s = t
      BY <1>2 DEF TypeInv
    <2>1. CASE q # r
      BY <1>7, <2>1 DEF OerInv, TypeInv
    <2>2. CASE q = r /\ x # e.id
      BY <1>11, <2>2 DEF OerInv, TypeInv
    <2>3. CASE q = r /\ x = e.id
      <3>1. CASE new = copy[e.type] \ {e.id}
        <4>1. \A k \in Types : x \in rel'[r][k] => x \in rel[r][k]
          BY <1>7, <2>3, <3>1
        <4> QED BY <2>3, <4>1 DEF OerInv, TypeInv
      <3>2. CASE \A k \in Types : e.id \notin old[k]
        <4>1. \A k \in Types : x \notin rel[r][k]
          BY <1>10, <2>3, <3>2
        <4> QED BY <1>7, <2>3, <4>1
      <3> QED BY <1>1, <3>1, <3>2
    <2> QED BY <2>1, <2>2, <2>3
  <1> QED BY <1>8, <1>9, <1>12, <1>13 DEF OerInv

\* An import queues the jobs of its table; a work that is created is in no list.
LEMMA ImportKeeps ==
  ASSUME OerInv, Import \/ \E r \in Records : CreateWork(r)
  PROVE  OerInv'
  <1>1. /\ TypeOK /\ exists \subseteq exists' /\ exists' \subseteq Records
        /\ UNCHANGED <<rel, raced, failed, errors>>
        /\ imports' \in 0..MaxImports
    BY OerAssumption DEF OerInv, TypeOK, Import, CreateWork, historyVars
  <1>2. /\ update' \in [Updaters -> UpdateStates]
        /\ \A p \in Updaters : /\ update'[p].todo = update[p].todo
                               /\ update'[p].copy = update[p].copy
                               /\ update'[p].at = "loaded" => update'[p] = update[p]
    <2>1. CASE UNCHANGED update
      BY <1>1, <2>1 DEF TypeOK
    <2>2. CASE update' = [p \in Updaters |->
                     IF p \in Jobs THEN [update[p] EXCEPT !.at = "queued"] ELSE update[p]]
      <3>1. \A p \in Updaters : /\ update[p] \in UpdateStates
                                /\ update'[p] = [update[p] EXCEPT !.at = "queued"]
                                     \/ update'[p] = update[p]
        BY <1>1, <2>2 DEF TypeOK
      <3>2. \A p \in Updaters : /\ update'[p] \in UpdateStates
                                /\ update'[p].todo = update[p].todo
                                /\ update'[p].copy = update[p].copy
                                /\ update'[p].at = "loaded" => update'[p] = update[p]
        BY <3>1 DEF UpdateStates
      <3> QED BY <2>2, <3>2
    <2> QED BY <2>1, <2>2 DEF Import, CreateWork
  <1>3. TypeOK'
    BY <1>1, <1>2 DEF TypeOK
  <1>4. KnownInv'
    BY <1>1, <1>2 DEF OerInv, KnownInv
  <1>5. HandInv'
    <2>1. \A q \in Updaters : At(q, "loaded")' => At(q, "loaded") /\ update'[q] = update[q]
      BY <1>2 DEF At
    <2> QED BY <1>1, <2>1 DEF OerInv, HandInv, InHand
  <1>6. TypeInv'
    BY <1>1 DEF OerInv, TypeInv
  <1> QED BY <1>3, <1>4, <1>5, <1>6 DEF OerInv

LEMMA JobKeeps ==
  ASSUME OerInv, NEW j \in Jobs, RelateMembers(j) \/ DropJob(j)
  PROVE  OerInv'
  <1>1. TypeOK /\ j \in Updaters /\ j[1] \in Records /\ j[2] \in Types
    BY UpdaterKinds DEF OerInv
  <1>2. CASE RelateMembers(j)
    <2> DEFINE entries == {[id |-> x, type |-> j[2], destroy |-> FALSE] : x \in Related(j)}
    <2>1. /\ Load(j, j[1], entries)
          /\ UNCHANGED <<exists, rel, failed, imports, errors>>
          /\ Related(j) \subseteq exists /\ Related(j) \subseteq Records
      BY <1>2 DEF RelateMembers, WorksFound, Related
    <2>2. entries \in SUBSET Entries /\ \A e \in entries : e.id \in exists
      <3>1. \A x \in Related(j) :
               LET e == [id |-> x, type |-> j[2], destroy |-> FALSE]
               IN  e \in Entries /\ e.id \in exists
        BY <1>1, <2>1 DEF Entries
      <3> QED BY <3>1
    <2> HIDE DEF entries
    <2> QED BY <1>1, <2>1, <2>2, LoadKeeps
  <1>3. CASE DropJob(j)
    <2>1. /\ update' = [update EXCEPT ![j] = Rested(j, "idle")]
          /\ UNCHANGED <<exists, rel, raced, failed, imports, errors>>
      BY <1>3 DEF DropJob, Rest, historyVars
    <2> QED BY <1>1, <2>1, RestKeeps DEF TypeOK
  <1> QED BY <1>2, <1>3

LEMMA FailKeeps ==
  ASSUME OerInv, NEW p \in Updaters, NEW died \in BOOLEAN, Fail(p, died)
  PROVE  OerInv'
  <1>1. /\ TypeOK /\ errors' \in 0..MaxErrors /\ failed' \subseteq Jobs
        /\ UNCHANGED <<exists, rel, raced, imports>>
    BY OerAssumption DEF OerInv, TypeOK, Fail
  <1>2. PICK step \in {"idle", "queued"} : update' = [update EXCEPT ![p] = Rested(p, step)]
    BY DEF Fail, Rest, AfterDeath
  <1> QED BY <1>1, <1>2, RestKeeps

\* The rows of a form: works that the record is related to, or that exist.
LEMMA FormKeeps ==
  ASSUME OerInv, NEW f \in Forms,
         \/ OpenForm(f) \/ SubmitForm(f)
         \/ \E x \in Records, t \in UsedTypes : AddRow(f, x, t)
         \/ \E e \in update[f].todo : RemoveRow(f, e)
  PROVE  OerInv'
  <1>1. /\ TypeOK /\ f \in Updaters /\ update[f] \in UpdateStates
        /\ update[f].rec \in Records /\ update[f].todo \subseteq Entries
        /\ \A e \in update[f].todo : e.id \in exists
        /\ \A t \in Types : update[f].copy[t] \subseteq exists
        /\ failed \subseteq Jobs /\ errors \in 0..MaxErrors
    BY UpdaterKinds, UpdateTyped DEF OerInv, KnownInv, TypeOK
  <1>2. CASE SubmitForm(f)
    BY <1>1, <1>2, LoadKeeps DEF SubmitForm
  <1>3. CASE OpenForm(f)
    <2> DEFINE lists == rel[update[f].rec]
               rows == {e \in Entries : ~e.destroy /\ e.id \in lists[e.type]}
               u == [update[f] EXCEPT !.at = "open", !.existing = lists, !.todo = rows]
    <2>1. /\ update' = [update EXCEPT ![f] = u]
          /\ UNCHANGED <<exists, rel, raced, failed, imports, errors>>
      BY <1>3 DEF OpenForm, historyVars
    <2>2. lists \in Relations /\ \A t \in Types : lists[t] \subseteq exists
      BY <1>1 DEF TypeOK
    <2>3. rows \subseteq Entries /\ \A e \in rows : e.id \in exists
      BY <2>2 DEF Entries
    <2> HIDE DEF lists, rows
    <2>4. u \in UpdateStates /\ u.at = "open" /\ u.todo = rows /\ u.copy = update[f].copy
      BY <1>1, <2>2, <2>3 DEF UpdateStates
    <2> HIDE DEF u
    <2> QED BY <1>1, <2>1, <2>3, <2>4, AsideKeeps
  <1>4. ASSUME NEW rows \in SUBSET Entries, \A e \in rows : e.id \in exists, At(f, "open"),
               update' = [update EXCEPT ![f].todo = rows],
               UNCHANGED <<exists, rel, historyVars>>
        PROVE  OerInv'
    <2> DEFINE u == [update[f] EXCEPT !.todo = rows]
    <2>1. update' = [update EXCEPT ![f] = u]
      BY <1>4
    <2>2. u \in UpdateStates /\ u.at = "open" /\ u.todo = rows /\ u.copy = update[f].copy
      BY <1>1, <1>4 DEF UpdateStates, At
    <2> HIDE DEF u
    <2> QED BY <1>1, <1>4, <2>1, <2>2, AsideKeeps DEF historyVars
  <1>5. ASSUME NEW x \in Records, NEW t \in UsedTypes, AddRow(f, x, t)
        PROVE  OerInv'
    <2> DEFINE rows == update[f].todo \cup {Row(x, t, FALSE)}
    <2>1. /\ update' = [update EXCEPT ![f].todo = rows] /\ At(f, "open") /\ x \in exists
          /\ UNCHANGED <<exists, rel, historyVars>>
      BY <1>5 DEF AddRow
    <2>2. Row(x, t, FALSE) \in Entries /\ Row(x, t, FALSE).id = x
      BY OerAssumption DEF Row, Entries
    <2>3. rows \in SUBSET Entries /\ \A e \in rows : e.id \in exists
      BY <1>1, <2>1, <2>2
    <2> HIDE DEF rows
    <2> QED BY <1>4, <2>1, <2>3
  <1>6. ASSUME NEW e \in update[f].todo, RemoveRow(f, e)
        PROVE  OerInv'
    <2> DEFINE rows == (update[f].todo \ {e}) \cup {Row(e.id, e.type, TRUE)}
    <2>1. /\ update' = [update EXCEPT ![f].todo = rows] /\ At(f, "open")
          /\ UNCHANGED <<exists, rel, historyVars>>
      BY <1>6 DEF RemoveRow
    <2>2. Row(e.id, e.type, TRUE) \in Entries /\ Row(e.id, e.type, TRUE).id = e.id
      BY <1>1 DEF Row, Entries
    <2>3. rows \in SUBSET Entries /\ \A d \in rows : d.id \in exists
      BY <1>1, <2>2
    <2> HIDE DEF rows
    <2> QED BY <1>4, <2>1, <2>3
  <1> QED BY <1>2, <1>3, <1>5, <1>6

LEMMA OerStep == OerInv /\ [Next]_vars => OerInv'
  <1> SUFFICES ASSUME OerInv, [Next]_vars PROVE OerInv'
    OBVIOUS
  <1>1. CASE Import \/ \E r \in Records : CreateWork(r)
    BY <1>1, ImportKeeps
  <1>2. ASSUME NEW p \in Updaters, ActorStep(p) PROVE OerInv'
    BY <1>2, ApplyKeeps DEF ActorStep
  <1>3. ASSUME NEW j \in Jobs, JobStep(j) PROVE OerInv'
    BY <1>2, <1>3, JobKeeps, UpdaterKinds DEF JobStep
  <1>4. ASSUME NEW f \in Forms, FormStep(f) PROVE OerInv'
    BY <1>2, <1>4, FormKeeps, UpdaterKinds DEF FormStep
  <1>5. ASSUME NEW p \in Updaters, NEW died \in BOOLEAN, Fail(p, died) PROVE OerInv'
    BY <1>5, FailKeeps
  <1>6. CASE UNCHANGED vars
    <2>1. UNCHANGED <<exists, rel, update, raced, failed, imports, errors>>
      BY <1>6 DEF vars, historyVars
    <2> QED BY <2>1 DEF OerInv, TypeOK, KnownInv, HandInv, InHand, TypeInv, At
  <1> QED BY <1>1, <1>3, <1>4, <1>5, <1>6 DEF Next

LEMMA OerAlways == Spec => []OerInv
  BY OerStart, OerStep, PTL DEF Spec

-----------------------------------------------------------------------------
(* Theorems *)

\* The types of the relations; what stands in a list of a record is a work.
THEOREM OerTyped == Spec => []TypeOK
  <1>1. OerInv => TypeOK
    BY DEF OerInv
  <1> QED BY <1>1, OerAlways, PTL

\* A set all of whose elements are equal has at most one.
LEMMA AllAlike ==
  ASSUME NEW S, \A a, b \in S : a = b
  PROVE  Cardinality(S) <= 1
  <1>1. CASE S = {}
    BY <1>1, FS_EmptySet
  <1>2. CASE S # {}
    <2>1. PICK a : a \in S
      BY <1>2
    <2>2. S = {a}
      BY <2>1
    <2> QED BY <2>2, FS_Singleton
  <1> QED BY <1>1, <1>2

\* Whatever table is imported, how often, with what works, and whatever forms are
\* sent: a work stands in one relation to a record at most, unless two updates had
\* the record loaded at a time or a form had two rows for one work.
THEOREM OneRelationKept == Spec => []OneRelation
  <1>1. OerInv => OneRelation
    <2> SUFFICES ASSUME OerInv, NEW r \in Records \ raced, NEW x \in Records
                 PROVE  Cardinality({t \in Types : x \in rel[r][t]}) <= 1
      BY DEF OneRelation
    <2> DEFINE found == {t \in Types : x \in rel[r][t]}
    <2>1. \A s, t \in found : s = t
      BY DEF OerInv, TypeInv
    <2> HIDE DEF found
    <2>2. Cardinality(found) <= 1
      BY <2>1, AllAlike
    <2> QED BY <2>2 DEF found
  <1> QED BY <1>1, OerAlways, PTL

-----------------------------------------------------------------------------
(* What was imported is recorded when the job is done *)

\* A job that comes to its end without an error has related its record to all the
\* works of its table, whatever it found there before, unless another update had
\* the record loaded meanwhile.
WrittenWhenDone ==
  [][\A j \in Jobs : At(j, "loaded") /\ At(j, "idle")' =>
        \/ Related(j) \subseteq RelatedTo(j[1])'
        \/ j[1] \in raced' \/ j \in failed']_vars

\* A job at work is on its own record, only adds, and has each work of its table
\* in hand until the record is related to it.
Accounted(j) ==
  /\ update[j].rec = j[1]
  /\ At(j, "loaded") =>
       /\ \A e \in update[j].todo : ~e.destroy
       /\ j[1] \notin raced =>
            \A x \in Related(j) : x \in RelatedTo(j[1]) \/ \E e \in update[j].todo : e.id = x

WrittenInv == \A j \in Jobs : Accounted(j)

\* What the actor finds, a list has.
LEMMA Found ==
  ASSUME NEW existing, NEW x, FoundUnder(existing, x) # {}
  PROVE  \E t \in Types : x \in existing[t]
  <1> DEFINE under == {i \in DOMAIN TypeOrder : x \in existing[TypeOrder[i]]}
  <1>1. under # {}
    BY DEF FoundUnder
  <1>2. PICK i \in DOMAIN TypeOrder : x \in existing[TypeOrder[i]]
    BY <1>1
  <1> QED BY <1>2 DEF Types, Range

LEMMA OthersAccounted ==
  ASSUME NEW j \in Jobs, Accounted(j), update'[j] = update[j], raced \subseteq raced',
         \A t \in Types : rel'[j[1]][t] = rel[j[1]][t]
  PROVE  Accounted(j)'
  BY DEF Accounted, At, RelatedTo

\* An entry of a job that nobody races is added, or was there when the record was
\* loaded and still is; so is what was added before.
LEMMA ApplyWrites ==
  ASSUME OerInv, NEW j \in Jobs, Accounted(j), j[1] \notin raced,
         NEW e \in update[j].todo, Apply(j, e)
  PROVE  \A x \in Related(j) :
            x \in RelatedTo(j[1])' \/ \E d \in update[j].todo \ {e} : d.id = x
  <1> DEFINE r == j[1]
             u == update[j]
             new == IF Adds(u.existing, e) THEN u.copy[e.type] \cup {e.id}
                                           ELSE u.copy[e.type] \ {e.id}
             saves == Adds(u.existing, e) \/ Removes(u.existing, e)
  <1>1. /\ j \in Updaters /\ r \in Records /\ At(j, "loaded") /\ u.rec = r
        /\ TypeOK /\ e \in Entries /\ ~e.destroy /\ e.type \in Types
    BY UpdaterKinds, UpdateTyped DEF OerInv, Apply, Accounted, Entries
  <1>2. /\ rel' = IF saves THEN [rel EXCEPT ![r][e.type] = new] ELSE rel
        /\ saves <=> Adds(u.existing, e)
    BY <1>1 DEF Apply, Removes
  <1>3. u.copy = rel[r] /\ \A t \in Types : e.id \in rel[r][t] <=> e.id \in u.existing[t]
    BY <1>1 DEF OerInv, HandInv, InHand
  <1>4. \A t \in Types : rel[r][t] \subseteq rel'[r][t]
    BY <1>1, <1>2, <1>3 DEF TypeOK, Relations
  <1>5. e.id \in RelatedTo(r)'
    <2>1. CASE Adds(u.existing, e)
      <3>1. e.id \in rel'[r][e.type]
        BY <1>1, <1>2, <2>1 DEF TypeOK, Relations
      <3> QED BY <1>1, <3>1 DEF RelatedTo
    <2>2. CASE ~Adds(u.existing, e)
      <3>1. PICK t \in Types : e.id \in u.existing[t]
        BY <2>2, Found DEF Adds
      <3> QED BY <1>3, <1>4, <3>1 DEF RelatedTo
    <2> QED BY <2>1, <2>2
  <1>6. \A x : x \in RelatedTo(r) => x \in RelatedTo(r)'
    BY <1>4 DEF RelatedTo
  <1>7. \A x \in Related(j) : x \in RelatedTo(r) \/ \E d \in u.todo : d.id = x
    BY <1>1 DEF Accounted
  <1> QED BY <1>5, <1>6, <1>7

LEMMA ApplyAccounts ==
  ASSUME OerInv, WrittenInv, NEW p \in Updaters, NEW e \in update[p].todo, Apply(p, e)
  PROVE  WrittenInv'
  <1> SUFFICES ASSUME NEW j \in Jobs PROVE Accounted(j)'
    BY DEF WrittenInv
  <1>1. /\ TypeOK /\ j \in Updaters /\ Accounted(j) /\ UNCHANGED raced /\ At(p, "loaded")
        /\ j[1] \in Records /\ update[p].rec \in Records
    BY UpdaterKinds, UpdateTyped DEF OerInv, WrittenInv, Apply, historyVars
  <1>2. PICK new \in SUBSET Records, saves \in BOOLEAN :
            /\ new \subseteq exists
            /\ rel' = IF saves THEN [rel EXCEPT ![update[p].rec][e.type] = new] ELSE rel
            /\ update' = [update EXCEPT ![p] =
                  IF update[p].todo = {e} THEN Rested(p, "idle")
                  ELSE [update[p] EXCEPT !.todo = @ \ {e},
                           !.copy[e.type] = IF saves THEN new ELSE @]]
            /\ \/ new = update[p].copy[e.type] \ {e.id}
               \/ /\ new = update[p].copy[e.type] \cup {e.id}
                  /\ \A t \in Types : e.id \notin update[p].existing[t]
    BY OneEntry
  <1>3. CASE j = p
    <2>1. update[j] \in UpdateStates
      BY <1>1, UpdateTyped
    <2>2. /\ update'[j].rec = j[1]
          /\ At(j, "loaded")' => update'[j].todo = update[j].todo \ {e}
      BY <1>1, <1>2, <1>3, <2>1 DEF Accounted, At, Rested, UpdateStates, TypeOK
    <2>3. At(j, "loaded")' => \A d \in update'[j].todo : ~d.destroy
      BY <1>1, <1>3, <2>2 DEF Accounted
    <2>4. j[1] \notin raced => \A x \in Related(j) :
             x \in RelatedTo(j[1])' \/ \E d \in update[j].todo \ {e} : d.id = x
      BY <1>1, <1>3, ApplyWrites
    <2> QED BY <1>1, <2>2, <2>3, <2>4 DEF Accounted
  <1>4. CASE j # p
    <2>1. update'[j] = update[j]
      BY <1>1, <1>2, <1>4 DEF TypeOK
    <2>2. CASE update[p].rec # j[1]
      <3>1. \A t \in Types : rel'[j[1]][t] = rel[j[1]][t]
        BY <1>1, <1>2, <2>2 DEF TypeOK
      <3> QED BY <1>1, <2>1, <3>1, OthersAccounted
    <2>3. CASE update[p].rec = j[1]
      <3>1. At(j, "loaded") => j[1] \in raced
        BY <1>1, <1>4, <2>3 DEF OerInv, HandInv, Accounted
      <3> QED BY <1>1, <2>1, <3>1 DEF Accounted, At
    <2> QED BY <2>2, <2>3
  <1> QED BY <1>3, <1>4

LEMMA LoadAccounts ==
  ASSUME OerInv, WrittenInv, NEW j \in Jobs, RelateMembers(j)
  PROVE  WrittenInv'
  <1> DEFINE entries == {[id |-> x, type |-> j[2], destroy |-> FALSE] : x \in Related(j)}
  <1>1. /\ TypeOK /\ j \in Updaters
        /\ update' = [update EXCEPT ![j] = [at |-> "loaded", rec |-> j[1], todo |-> entries,
                                            existing |-> rel[j[1]], copy |-> rel[j[1]]]]
        /\ raced \subseteq raced' /\ UNCHANGED rel
    BY UpdaterKinds DEF OerInv, RelateMembers, Load
  <1>2. /\ \A e \in entries : ~e.destroy
        /\ \A x \in Related(j) : \E e \in entries : e.id = x
    <2>1. \A x \in Related(j) :
             LET e == [id |-> x, type |-> j[2], destroy |-> FALSE]
             IN  e \in entries /\ e.id = x
      OBVIOUS
    <2>2. \A x \in Related(j) : \E e \in entries : e.id = x
      BY <2>1
    <2> QED BY <2>2
  <1> HIDE DEF entries
  <1>3. update'[j].rec = j[1] /\ update'[j].todo = entries
    BY <1>1 DEF TypeOK
  <1>4. Accounted(j)'
    BY <1>2, <1>3 DEF Accounted
  <1>5. ASSUME NEW i \in Jobs, i # j PROVE Accounted(i)'
    <2>1. update'[i] = update[i] /\ Accounted(i)
      BY <1>1, <1>5, UpdaterKinds DEF TypeOK, WrittenInv
    <2> QED BY <1>1, <2>1, OthersAccounted
  <1> QED BY <1>4, <1>5 DEF WrittenInv

\* A job that is not at work has nothing to account for.
LEMMA AsideAccounts ==
  ASSUME OerInv, WrittenInv, UNCHANGED rel, raced \subseteq raced',
         \A j \in Jobs : \/ update'[j] = update[j]
                         \/ update'[j].rec = update[j].rec /\ ~At(j, "loaded")'
  PROVE  WrittenInv'
  <1> SUFFICES ASSUME NEW j \in Jobs PROVE Accounted(j)'
    BY DEF WrittenInv
  <1>1. Accounted(j)
    BY DEF WrittenInv
  <1>2. CASE update'[j] = update[j]
    BY <1>1, <1>2, OthersAccounted
  <1>3. CASE update'[j].rec = update[j].rec /\ ~At(j, "loaded")'
    BY <1>1, <1>3 DEF Accounted
  <1> QED BY <1>2, <1>3

\* Forms are not jobs; jobs rest on their record.
LEMMA RestAccounts ==
  ASSUME OerInv, WrittenInv, NEW p \in Updaters, NEW step \in {"idle", "queued"}, Rest(p, step),
         UNCHANGED <<rel, raced>>
  PROVE  WrittenInv'
  <1>1. \A j \in Jobs : j \in Updaters /\ update[j] \in UpdateStates
    BY UpdaterKinds, UpdateTyped DEF OerInv
  <1>2. \A j \in Jobs : j # p => update'[j] = update[j]
    BY <1>1 DEF Rest, OerInv, TypeOK
  <1>3. p \in Jobs => update'[p].rec = update[p].rec /\ ~At(p, "loaded")'
    BY <1>1 DEF Rest, Rested, At, OerInv, TypeOK, UpdateStates
  <1> QED BY <1>2, <1>3, AsideAccounts

LEMMA FormAccounts ==
  ASSUME OerInv, WrittenInv, NEW f \in Forms,
         \/ OpenForm(f) \/ SubmitForm(f)
         \/ \E x \in Records, t \in UsedTypes : AddRow(f, x, t)
         \/ \E e \in update[f].todo : RemoveRow(f, e)
  PROVE  WrittenInv'
  <1>1. UNCHANGED rel /\ raced \subseteq raced'
    BY DEF OpenForm, SubmitForm, AddRow, RemoveRow, Load, historyVars
  <1>2. \A j \in Jobs : j # f
    BY OerAssumption DEF Jobs
  <1>3. TypeOK /\ \A j \in Jobs : j \in Updaters
    BY UpdaterKinds DEF OerInv
  <1>4. \A j \in Jobs : update'[j] = update[j]
    BY <1>2, <1>3 DEF OpenForm, SubmitForm, AddRow, RemoveRow, Load, TypeOK
  <1> QED BY <1>1, <1>4, AsideAccounts

LEMMA WrittenStep ==
  ASSUME OerInv, WrittenInv, [Next]_vars
  PROVE  WrittenInv'
  <1>1. CASE Import
    <2>1. /\ UNCHANGED <<rel, raced>>
          /\ \A j \in Jobs : update'[j] = [update[j] EXCEPT !.at = "queued"]
      BY <1>1, UpdaterKinds DEF Import
    <2>2. \A j \in Jobs : update[j] \in UpdateStates
      BY UpdaterKinds, UpdateTyped DEF OerInv
    <2>3. \A j \in Jobs : update'[j].rec = update[j].rec /\ ~At(j, "loaded")'
      BY <2>1, <2>2 DEF At, UpdateStates
    <2> QED BY <2>1, <2>3, AsideAccounts
  <1>2. ASSUME NEW r \in Records, CreateWork(r) PROVE WrittenInv'
    BY <1>2, AsideAccounts DEF CreateWork, historyVars
  <1>3. ASSUME NEW p \in Updaters, ActorStep(p) PROVE WrittenInv'
    BY <1>3, ApplyAccounts DEF ActorStep
  <1>4. ASSUME NEW j \in Jobs, JobStep(j) PROVE WrittenInv'
    <2>1. j \in Updaters
      BY UpdaterKinds
    <2>2. CASE DropJob(j)
      BY <2>1, <2>2, RestAccounts DEF DropJob, historyVars
    <2> QED BY <1>3, <1>4, <2>1, <2>2, LoadAccounts DEF JobStep
  <1>5. ASSUME NEW f \in Forms, FormStep(f) PROVE WrittenInv'
    BY <1>3, <1>5, FormAccounts, UpdaterKinds DEF FormStep
  <1>6. ASSUME NEW p \in Updaters, NEW died \in BOOLEAN, Fail(p, died) PROVE WrittenInv'
    <2>1. PICK step \in {"idle", "queued"} : Rest(p, step)
      BY <1>6 DEF Fail, AfterDeath
    <2> QED BY <1>6, <2>1, RestAccounts DEF Fail
  <1>7. CASE UNCHANGED vars
    BY <1>7, AsideAccounts DEF vars, historyVars
  <1> QED BY <1>1, <1>2, <1>4, <1>5, <1>6, <1>7 DEF Next

\* The last entry of a job, applied, leaves nothing of its table unrelated.
LEMMA DoneStep ==
  ASSUME OerInv, WrittenInv, [Next]_vars, NEW j \in Jobs, At(j, "loaded"), At(j, "idle")'
  PROVE  \/ Related(j) \subseteq RelatedTo(j[1])'
         \/ j[1] \in raced' \/ j \in failed'
  <1>1. /\ TypeOK /\ j \in Updaters /\ Accounted(j) /\ j \notin Forms
        /\ \A i \in Jobs : i \in Updaters
        /\ \A f \in Forms : f \in Updaters
    BY UpdaterKinds, OerAssumption DEF OerInv, WrittenInv, Jobs
  <1>2. update[j].at = "loaded" /\ update'[j].at = "idle" /\ update'[j] # update[j]
    BY DEF At
  <1>3. ASSUME NEW e \in update[j].todo, Apply(j, e), j[1] \notin raced
        PROVE  Related(j) \subseteq RelatedTo(j[1])'
    <2>1. update[j].todo = {e}
      <3>1. CASE update[j].todo # {e}
        <4>1. update'[j].at = update[j].at
          BY <1>1, <1>3, <3>1, UpdateTyped DEF Apply, TypeOK, UpdateStates
        <4> QED BY <1>2, <4>1
      <3> QED BY <3>1
    <2>2. \A x \in Related(j) :
             x \in RelatedTo(j[1])' \/ \E d \in update[j].todo \ {e} : d.id = x
      BY <1>1, <1>3, ApplyWrites
    <2> QED BY <2>1, <2>2
  <1>4. ASSUME NEW e \in update[j].todo, Apply(j, e) PROVE UNCHANGED raced
    BY <1>4 DEF Apply, historyVars
  <1>5. ASSUME NEW p \in Updaters, ActorStep(p), p # j PROVE FALSE
    BY <1>1, <1>2, <1>5 DEF ActorStep, Apply, TypeOK
  <1>6. ASSUME NEW died \in BOOLEAN, Fail(j, died) PROVE j \in failed'
    <2>1. ~died
      <3>1. CASE died
        <4>1. update'[j] = Rested(j, "queued")
          BY <1>1, <1>6, <3>1 DEF Fail, Rest, AfterDeath, TypeOK
        <4>2. update'[j].at = "queued"
          BY <1>1, <4>1, RestedTyped
        <4> QED BY <1>2, <4>2
      <3> QED BY <3>1
    <2> QED BY <1>6, <2>1 DEF Fail
  <1>7. ASSUME NEW p \in Updaters, NEW died \in BOOLEAN, Fail(p, died), p # j PROVE FALSE
    BY <1>1, <1>2, <1>7 DEF Fail, Rest, TypeOK
  <1>8. ASSUME Import PROVE FALSE
    BY <1>2, <1>8 DEF Import, At
  <1>9. ASSUME NEW r \in Records, CreateWork(r) PROVE FALSE
    BY <1>2, <1>9 DEF CreateWork
  <1>10. ASSUME NEW i \in Jobs, RelateMembers(i) \/ DropJob(i) PROVE FALSE
    <2>1. At(i, "queued") /\ i # j
      BY <1>2, <1>10 DEF RelateMembers, DropJob, WorksFound, At
    <2> QED BY <1>1, <1>2, <1>10, <2>1 DEF RelateMembers, DropJob, Load, Rest, TypeOK
  <1>11. ASSUME NEW f \in Forms,
                \/ OpenForm(f) \/ SubmitForm(f)
                \/ \E x \in Records, t \in UsedTypes : AddRow(f, x, t)
                \/ \E e \in update[f].todo : RemoveRow(f, e)
         PROVE  FALSE
    BY <1>1, <1>2, <1>11 DEF OpenForm, SubmitForm, AddRow, RemoveRow, Load, TypeOK
  <1>12. ~UNCHANGED vars
    BY <1>2 DEF vars
  <1>13. CASE ActorStep(j)
    BY <1>3, <1>4, <1>13 DEF ActorStep
  <1>14. CASE \E died \in BOOLEAN : Fail(j, died)
    BY <1>6, <1>14
  <1>15. CASE Next
    <2>1. CASE \E i \in Jobs : JobStep(i)
      BY <1>1, <1>5, <1>10, <1>13, <2>1 DEF JobStep
    <2>2. CASE \E f \in Forms : FormStep(f)
      BY <1>1, <1>5, <1>11, <2>2 DEF FormStep
    <2> QED BY <1>7, <1>8, <1>9, <1>14, <1>15, <2>1, <2>2 DEF Next
  <1> QED BY <1>12, <1>15

\* A job that comes to its end without an error has related its record to every
\* work of its table, for any table, forms, deaths and order of jobs, unless the
\* record was raced for.
THEOREM DoneIsWritten == Spec => WrittenWhenDone
  <1>1. Init => WrittenInv
    BY UpdaterKinds DEF Init, WrittenInv, Accounted, At
  <1>2. OerInv /\ WrittenInv /\ [Next]_vars =>
           [\A j \in Jobs : At(j, "loaded") /\ At(j, "idle")' =>
               \/ Related(j) \subseteq RelatedTo(j[1])'
               \/ j[1] \in raced' \/ j \in failed']_vars
    BY DoneStep
  <1> QED BY <1>1, <1>2, OerAlways, WrittenStep, PTL DEF Spec, WrittenWhenDone

=============================================================================
