------------------------ MODULE TenantLifecycleProofs ------------------------
(***************************************************************************)
(* Theorems about TenantLifecycle, for any accounts.                       *)
(***************************************************************************)
EXTENDS TenantLifecycle, SequenceTheorems, TLAPS

CleanUp == {"queue removal", "remove solr", "empty fedora", "remove fcrepo",
            "remove redis", "drop", "destroy"}

\* What a request may still do after a step x.
MayPrecede(x, y) ==
    /\ x \notin {"tenant", "destroy"}
    /\ x = "alias" => y \notin {"alias", "unalias"}
    /\ x = "remove fcrepo" => y # "empty fedora"
    /\ x \in CleanUp => y \in CleanUp
    /\ x = "collection" => y \notin CleanUp
    /\ x = "remove solr" => y # "queue removal"

\* What a request that has step x still to take has to do behind it.
Followed(x, S) ==
    /\ x \in Kinds => "link" \in S
    /\ x = "unalias" => "alias" \in S
    /\ x = "collection" => "solr" \in S
    /\ x \in CleanUp \ {"destroy"} => "destroy" \in S

\* The steps of s from position i on.
From(s, i) == {s[j] : j \in i..Len(s)}

Planned(s) ==
    /\ s \in Seq(Steps)
    /\ \A i, j \in 1..Len(s) : i < j => MayPrecede(s[i], s[j])
    /\ \A i \in 1..Len(s) : Followed(s[i], From(s, i + 1))

IsPlan(s, S) == Planned(s) /\ From(s, 1) = S

Left(a) == From(todo[a], 1)

RequestInv ==
    \A a \in Accounts :
        /\ Planned(todo[a])
        /\ ~Idle(a) => a \in row
        /\ Left(a) \cap CleanUp # {} => a \in cleaning
        /\ fresh[a] # {} => "link" \in Left(a)
        /\ "collection" \in Left(a) => a \in Fulls

EndpointInv ==
    \A a \in Accounts, k \in Kinds :
        <<a, k>> \in endpoints => k \in links[a] \cup fresh[a] \/ a \in torn

NeedsInv ==
    \A a \in Accounts :
        "tenant" \in Left(a) => Needed(a) \subseteq links[a] \cup fresh[a] \cup Left(a)

TenantInv == ServedIsWhole /\ NeedsInv

RemainsInv ==
    \A a \in Accounts :
        /\ a \in containers => "fcrepo" \in links[a]
        /\ "destroy" \in Left(a) =>
              /\ a \in containers => "empty fedora" \in Left(a)
              /\ a \in schemas => a \in undropped \/ "drop" \in Left(a)

AliasInv ==
    /\ removals \subseteq cleaning
    /\ \A s \in row \cap SearchOnly :
          s \notin cleaning \cup torn =>
             full[s] \subseteq IF "alias" \in Left(s) THEN wanted[s] ELSE alias[s]

\* The collection of a full account is to be removed, or has an endpoint (or will)
\* from which a clean-up will have it removed.
CollectionInv ==
    /\ collections \subseteq used
    /\ \A a \in Fulls \ torn :
          a \in collections \ removals =>
             /\ a \in row
             /\ "solr" \in links[a] \cup fresh[a] \cup Left(a)
             /\ "destroy" \in Left(a) => "queue removal" \in Left(a)

TenantsInv ==
    /\ TypeOK
    /\ RequestInv
    /\ EndpointInv
    /\ TenantInv
    /\ RemainsInv
    /\ AliasInv
    /\ GoneLeavesNothing

-----------------------------------------------------------------------------
(* Plans *)

LEMMA Single ==
    ASSUME NEW x PROVE <<x>> = <<x>> \o <<>>
    OBVIOUS

LEMMA Pair ==
    ASSUME NEW x, NEW y PROVE <<x, y>> = <<x>> \o <<y>>
<1> DEFINE S == {x, y}
           s == <<x>> \o <<y>>
           t == <<x, y>>
<1>1. /\ <<x>> \in Seq(S) /\ Len(<<x>>) = 1
      /\ <<y>> \in Seq(S) /\ Len(<<y>>) = 1
    OBVIOUS
<1>2. t \in Seq(S) /\ Len(t) = 2 /\ t[1] = x /\ t[2] = y
    OBVIOUS
<1>3. s \in Seq(S) /\ Len(s) = 2 /\ s[1] = x /\ s[2] = y
    BY <1>1, ConcatProperties
<1> HIDE DEF s, t, S
<1>4. s = t
    BY <1>2, <1>3, SeqEqual
<1>5. QED BY <1>4 DEF s, t

LEMMA Triple ==
    ASSUME NEW x, NEW y, NEW z PROVE <<x, y, z>> = <<x>> \o <<y, z>>
    OBVIOUS

LEMMA Quadruple ==
    ASSUME NEW w, NEW x, NEW y, NEW z
    PROVE  <<w, x, y, z>> = <<w>> \o <<x, y, z>>
    OBVIOUS

LEMMA NothingPlanned == IsPlan(<<>>, {})
    BY DEF IsPlan, Planned, From

\* A plan is made from its last step on.
LEMMA PlannedBefore ==
    ASSUME NEW x \in Steps, NEW t, NEW T, IsPlan(t, T),
           \A y \in T : MayPrecede(x, y),
           Followed(x, T)
    PROVE  IsPlan(<<x>> \o t, {x} \cup T)
<1> DEFINE s == <<x>> \o t
<1> USE DEF IsPlan
<1>1. /\ s \in Seq(Steps) /\ Len(s) = Len(t) + 1 /\ Len(t) \in Nat
      /\ s[1] = x
      /\ \A i \in 1..Len(t) : s[i + 1] = t[i]
    BY ConcatProperties, LenProperties DEF Planned
<1> HIDE DEF s
<1>2. \A i \in Nat \ {0} : From(s, i + 1) = From(t, i)
  <2> TAKE i \in Nat \ {0}
  <2>1. \A y : y \in From(t, i) => y \in From(s, i + 1)
      BY <1>1 DEF From
  <2>2. ASSUME NEW j \in (i + 1)..Len(s) PROVE s[j] \in From(t, i)
    <3>1. j - 1 \in i..Len(t) /\ t[j - 1] = s[j]
        BY <1>1
    <3>2. QED BY <3>1 DEF From
  <2>3. QED BY <2>1, <2>2 DEF From
<1>3. From(s, 1) = {x} \cup From(t, 1)
  <2>1. From(s, 1) = {x} \cup From(s, 1 + 1)
      BY <1>1 DEF From
  <2>2. QED BY <2>1, <1>2
<1>4. ASSUME NEW i \in 1..Len(s), NEW j \in 1..Len(s), i < j
      PROVE  MayPrecede(s[i], s[j])
  <2>1. j - 1 \in 1..Len(t) /\ s[j] = t[j - 1]
      BY <1>1, <1>4
  <2>2. CASE i = 1
    <3>1. s[j] \in From(t, 1)
        BY <2>1 DEF From
    <3>2. QED BY <2>2, <1>1, <3>1
  <2>3. CASE i # 1
    <3>1. i - 1 \in 1..Len(t) /\ s[i] = t[i - 1] /\ i - 1 < j - 1
        BY <1>1, <1>4, <2>3
    <3>2. QED BY <3>1, <2>1 DEF Planned
  <2>4. QED BY <2>2, <2>3
<1>5. ASSUME NEW i \in 1..Len(s) PROVE Followed(s[i], From(s, i + 1))
  <2>1. CASE i = 1
      BY <2>1, <1>1, <1>2
  <2>2. CASE i # 1
    <3>1. /\ i - 1 \in 1..Len(t) /\ s[i] = t[i - 1]
          /\ i - 1 \in Nat \ {0} /\ (i - 1) + 1 = i
        BY <1>1, <2>2
    <3>2. Followed(t[i - 1], From(t, (i - 1) + 1))
        BY <3>1 DEF Planned
    <3>3. QED BY <3>1, <3>2, <1>2
  <2>3. QED BY <2>1, <2>2
<1>6. Planned(s)
    BY <1>1, <1>4, <1>5 DEF Planned
<1>7. QED BY <1>3, <1>6 DEF s

\* What is left after the first step of a plan is a plan, of steps that may come
\* after it.
LEMMA PlannedRest ==
    ASSUME NEW s, Planned(s), s # <<>>
    PROVE  /\ Planned(Tail(s))
           /\ Head(s) \in Steps
           /\ From(s, 1) = {Head(s)} \cup From(Tail(s), 1)
           /\ \A y \in From(Tail(s), 1) : MayPrecede(Head(s), y)
           /\ Followed(Head(s), From(Tail(s), 1))
           /\ From(Tail(s), 1) = {} => Tail(s) = <<>>
<1> DEFINE t == Tail(s)
<1>1. /\ t \in Seq(Steps) /\ Len(t) = Len(s) - 1 /\ Len(s) \in Nat
      /\ Len(t) \in Nat
      /\ \A i \in 1..Len(t) : t[i] = s[i + 1]
      /\ Head(s) = s[1] /\ Head(s) \in Steps
    BY HeadTailProperties DEF Planned
<1> HIDE DEF t
<1>2. \A i \in Nat \ {0} : From(t, i) = From(s, i + 1)
  <2> TAKE i \in Nat \ {0}
  <2>1. \A y : y \in From(t, i) => y \in From(s, i + 1)
      BY <1>1 DEF From
  <2>2. ASSUME NEW j \in (i + 1)..Len(s) PROVE s[j] \in From(t, i)
    <3>1. j - 1 \in i..Len(t) /\ t[j - 1] = s[j]
        BY <1>1
    <3>2. QED BY <3>1 DEF From
  <2>3. QED BY <2>1, <2>2 DEF From
<1>3. From(t, 1) = From(s, 1 + 1)
    BY <1>2
<1>4. Planned(t)
  <2>1. \A i, j \in 1..Len(t) : i < j => MayPrecede(t[i], t[j])
    <3>1. \A i \in 1..Len(t) : i + 1 \in 1..Len(s)
        BY <1>1
    <3>2. QED BY <1>1, <3>1 DEF Planned
  <2>2. ASSUME NEW i \in 1..Len(t) PROVE Followed(t[i], From(t, i + 1))
    <3>1. /\ i + 1 \in 1..Len(s) /\ i + 1 \in Nat \ {0}
          /\ t[i] = s[i + 1]
        BY <1>1
    <3>2. Followed(s[i + 1], From(s, (i + 1) + 1))
        BY <3>1 DEF Planned
    <3>3. QED BY <3>1, <3>2, <1>2
  <2>3. QED BY <1>1, <2>1, <2>2 DEF Planned
<1>5. From(s, 1) = {s[1]} \cup From(t, 1)
  <2>1. From(s, 1) = {s[1]} \cup From(s, 1 + 1)
    <3>1. Len(s) > 0
        BY <1>1
    <3>2. QED BY <1>1, <3>1 DEF From
  <2>2. QED BY <2>1, <1>3
<1>6. ASSUME NEW y \in From(t, 1) PROVE MayPrecede(s[1], y)
    BY <1>1, <1>3, <1>6 DEF From, Planned
<1>7. Followed(s[1], From(t, 1))
    BY <1>1, <1>3 DEF Planned
<1>8. From(t, 1) = {} => t = <<>>
  <2>1. Len(t) > 0 => t[1] \in From(t, 1)
      BY <1>1 DEF From
  <2>2. QED BY <1>1, <2>1
<1>9. QED BY <1>1, <1>4, <1>5, <1>6, <1>7, <1>8 DEF t


LEMMA LastPlan == IsPlan(LastSteps, {"redis", "datacite", "link", "tenant"})
<1> DEFINE t1 == <<"tenant">> \o <<>>
           t2 == <<"link">> \o t1
           t3 == <<"datacite">> \o t2
           t4 == <<"redis">> \o t3
<1>1. LastSteps = t4
  <2>1. <<"tenant">> = <<"tenant">> \o <<>>
      BY Single
  <2>2. <<"link", "tenant">> = <<"link">> \o <<"tenant">>
      BY Pair
  <2>3. <<"datacite", "link", "tenant">> = <<"datacite">> \o <<"link", "tenant">>
      BY Triple
  <2>4. <<"redis", "datacite", "link", "tenant">>
          = <<"redis">> \o <<"datacite", "link", "tenant">>
      BY Quadruple
  <2>5. QED BY <2>1, <2>2, <2>3, <2>4, Zenon DEF LastSteps
<1> USE DEF Steps, MayPrecede, Followed, Kinds, CleanUp
<1>2. IsPlan(t1, {"tenant"} \cup {})
    BY NothingPlanned, PlannedBefore
<1> HIDE DEF t1
<1>3. IsPlan(t2, {"link"} \cup ({"tenant"} \cup {}))
    BY <1>2, PlannedBefore
<1> HIDE DEF t2
<1>4. IsPlan(t3, {"datacite"} \cup ({"link"} \cup ({"tenant"} \cup {})))
    BY <1>3, PlannedBefore
<1> HIDE DEF t3
<1>5. IsPlan(t4, {"redis"} \cup ({"datacite"} \cup ({"link"} \cup ({"tenant"} \cup {}))))
    BY <1>4, PlannedBefore
<1>6. {"redis"} \cup ({"datacite"} \cup ({"link"} \cup ({"tenant"} \cup {})))
        = {"redis", "datacite", "link", "tenant"}
    OBVIOUS
<1>7. QED BY <1>1, <1>5, <1>6

LEMMA OneStep == ASSUME NEW x \in Steps PROVE <<x>> \in Seq(Steps)
    OBVIOUS

\* Two or three steps before a plan.
LEMMA TwoBefore ==
    ASSUME NEW x \in Steps, NEW y \in Steps, NEW t \in Seq(Steps)
    PROVE  /\ <<x, y>> \o t = <<x>> \o (<<y>> \o t)
           /\ <<x, y>> \in Seq(Steps)
<1>1. <<x>> \in Seq(Steps) /\ <<y>> \in Seq(Steps)
    OBVIOUS
<1>2. (<<x>> \o <<y>>) \o t = <<x>> \o (<<y>> \o t)
    BY <1>1, ConcatAssociative
<1>3. <<x>> \o <<y>> \in Seq(Steps)
    BY <1>1, ConcatProperties
<1>4. <<x, y>> = <<x>> \o <<y>>
    BY Pair, Zenon
<1>5. QED BY <1>2, <1>3, <1>4, Zenon

LEMMA ThreeBefore ==
    ASSUME NEW x \in Steps, NEW y \in Steps, NEW z \in Steps, NEW t \in Seq(Steps)
    PROVE  <<x, y, z>> \o t = <<x>> \o (<<y>> \o (<<z>> \o t))
<1>1. /\ <<x>> \in Seq(Steps) /\ <<y>> \in Seq(Steps) /\ <<z>> \in Seq(Steps)
      /\ <<y, z>> \in Seq(Steps)
    OBVIOUS
<1>2. (<<x>> \o <<y, z>>) \o t = <<x>> \o (<<y, z>> \o t)
    BY <1>1, ConcatAssociative
<1>3. (<<y>> \o <<z>>) \o t = <<y>> \o (<<z>> \o t)
    BY <1>1, ConcatAssociative
<1>4. <<x, y, z>> = <<x>> \o <<y, z>> /\ <<y, z>> = <<y>> \o <<z>>
    BY Triple, Pair, Zenon
<1>5. QED BY <1>2, <1>3, <1>4, Zenon

\* What CreateSolrCollectionJob does for a cross-search tenant, before a plan.
LEMMA AliasBefore ==
    ASSUME NEW t, NEW T, IsPlan(t, T), T \cap {"alias", "unalias"} = {}
    PROVE  IsPlan(<<"alias", "solr", "link">> \o t, {"alias", "solr", "link"} \cup T)
<1> DEFINE t1 == <<"link">> \o t
           t2 == <<"solr">> \o t1
           t3 == <<"alias">> \o t2
<1>1. <<"alias", "solr", "link">> \o t = t3
  <2>1. /\ "alias" \in Steps /\ "solr" \in Steps /\ "link" \in Steps
        /\ t \in Seq(Steps)
      BY DEF IsPlan, Planned, Steps
  <2>2. QED BY <2>1, ThreeBefore
<1> USE DEF Steps, MayPrecede, Followed, Kinds, CleanUp
<1>2. IsPlan(t1, {"link"} \cup T)
    BY PlannedBefore
<1> HIDE DEF t1
<1>3. IsPlan(t2, {"solr"} \cup ({"link"} \cup T))
    BY <1>2, PlannedBefore
<1> HIDE DEF t2
<1>4. IsPlan(t3, {"alias"} \cup ({"solr"} \cup ({"link"} \cup T)))
    BY <1>3, PlannedBefore
<1>5. {"alias"} \cup ({"solr"} \cup ({"link"} \cup T)) = {"alias", "solr", "link"} \cup T
    OBVIOUS
<1>6. QED BY <1>1, <1>4, <1>5

LEMMA CreationPlan ==
    ASSUME NEW a \in Accounts, NEW F
    PROVE  /\ Planned(CreationSteps(a, F))
           /\ From(CreationSteps(a, F), 1) \cap CleanUp = {}
           /\ Needed(a) \subseteq From(CreationSteps(a, F), 1)
           /\ a \in SearchOnly /\ F # {} => "alias" \in From(CreationSteps(a, F), 1)
           /\ a \in SearchOnly => "collection" \notin From(CreationSteps(a, F), 1)
<1> DEFINE last == {"redis", "datacite", "link", "tenant"}
<1>1. IsPlan(LastSteps, last) /\ LastSteps \in Seq(Steps)
    BY LastPlan DEF IsPlan, Planned
<1>2. CASE a \notin SearchOnly
  <2> DEFINE t1 == <<"fcrepo">> \o LastSteps
             t2 == <<"solr">> \o t1
             t3 == <<"collection">> \o t2
             T3 == {"collection"} \cup ({"solr"} \cup ({"fcrepo"} \cup last))
  <2>1. CreationSteps(a, F) = t3
    <3>1. "collection" \in Steps /\ "solr" \in Steps /\ "fcrepo" \in Steps
        BY DEF Steps
    <3>2. <<"collection", "solr", "fcrepo">> \o LastSteps = t3
        BY <1>1, <3>1, ThreeBefore
    <3>3. CreationSteps(a, F) = <<"collection", "solr", "fcrepo">> \o LastSteps
        BY <1>2 DEF CreationSteps
    <3>4. QED BY <3>2, <3>3
  <2>2. IsPlan(t3, T3)
    <3> USE DEF Steps, MayPrecede, Followed, Kinds, CleanUp
    <3>1. IsPlan(t1, {"fcrepo"} \cup last)
        BY <1>1, PlannedBefore
    <3> HIDE DEF t1
    <3>2. IsPlan(t2, {"solr"} \cup ({"fcrepo"} \cup last))
        BY <3>1, PlannedBefore
    <3> HIDE DEF t2
    <3>3. QED BY <3>2, PlannedBefore
  <2> HIDE DEF t3
  <2>3. T3 \cap CleanUp = {} /\ Needed(a) \subseteq T3
      BY DEF CleanUp, Needed, Kinds
  <2>4. QED BY <1>2, <2>1, <2>2, <2>3 DEF IsPlan
<1>3. CASE a \in SearchOnly /\ F = {}
  <2>1. CreationSteps(a, F) = LastSteps
    <3>1. CreationSteps(a, F) = <<>> \o LastSteps
        BY <1>3 DEF CreationSteps, AliasSteps
    <3>2. QED BY <3>1, <1>1, ConcatEmptySeq
  <2>2. last \cap CleanUp = {} /\ Needed(a) \subseteq last /\ "collection" \notin last
      BY <1>3, TenantAssumption DEF CleanUp, Needed
  <2>3. QED BY <1>1, <1>3, <2>1, <2>2 DEF IsPlan
<1>4. CASE a \in SearchOnly /\ F # {}
  <2> DEFINE s == <<"alias", "solr", "link">> \o LastSteps
             S == {"alias", "solr", "link"} \cup last
  <2>1. CreationSteps(a, F) = s
      BY <1>4 DEF CreationSteps, AliasSteps
  <2>2. IsPlan(s, S)
      BY <1>1, AliasBefore
  <2> HIDE DEF s
  <2>3. /\ S \cap CleanUp = {} /\ Needed(a) \subseteq S
        /\ "alias" \in S /\ "collection" \notin S
      BY <1>4, TenantAssumption DEF CleanUp, Needed
  <2>4. QED BY <2>1, <2>2, <2>3 DEF IsPlan
<1>5. QED BY <1>2, <1>3, <1>4

LEMMA UpdatePlan ==
    ASSUME NEW F, NEW hasSolr \in BOOLEAN
    PROVE  /\ Planned(AliasSteps(F, hasSolr))
           /\ From(AliasSteps(F, hasSolr), 1) \cap (CleanUp \cup {"tenant", "collection"}) = {}
           /\ F # {} => "alias" \in From(AliasSteps(F, hasSolr), 1)
<1>1. CASE F = {}
    BY <1>1, NothingPlanned DEF AliasSteps, IsPlan
<1>2. CASE F # {} /\ hasSolr
  <2> DEFINE t1 == <<"alias">> \o <<>>
             t2 == <<"unalias">> \o t1
             T2 == {"unalias"} \cup ({"alias"} \cup {})
  <2>1. AliasSteps(F, hasSolr) = t2
    <3>1. AliasSteps(F, hasSolr) = <<"unalias", "alias">>
        BY <1>2 DEF AliasSteps
    <3>2. <<"unalias", "alias">> = <<"unalias">> \o <<"alias">>
        BY Pair
    <3>3. <<"alias">> = <<"alias">> \o <<>>
        BY Single
    <3>4. QED BY <3>1, <3>2, <3>3, Zenon
  <2>2. IsPlan(t2, T2)
    <3> USE DEF Steps, MayPrecede, Followed, Kinds, CleanUp
    <3>1. IsPlan(t1, {"alias"} \cup {})
        BY NothingPlanned, PlannedBefore
    <3> HIDE DEF t1
    <3>2. QED BY <3>1, PlannedBefore
  <2> HIDE DEF t2
  <2>3. T2 \cap (CleanUp \cup {"tenant", "collection"}) = {} /\ "alias" \in T2
      BY DEF CleanUp
  <2>4. QED BY <2>1, <2>2, <2>3 DEF IsPlan
<1>3. CASE F # {} /\ ~hasSolr
  <2> DEFINE s == <<"alias", "solr", "link">> \o <<>>
             S == {"alias", "solr", "link"} \cup {}
  <2>1. AliasSteps(F, hasSolr) = s
    <3>1. <<"alias", "solr", "link">> \in Seq(Steps)
        BY DEF Steps
    <3>2. s = <<"alias", "solr", "link">>
        BY <3>1, ConcatEmptySeq
    <3>3. AliasSteps(F, hasSolr) = <<"alias", "solr", "link">>
        BY <1>3 DEF AliasSteps
    <3>4. QED BY <3>2, <3>3
  <2>2. IsPlan(s, S)
      BY NothingPlanned, AliasBefore
  <2> HIDE DEF s
  <2>3. S \cap (CleanUp \cup {"tenant", "collection"}) = {} /\ "alias" \in S
      BY DEF CleanUp
  <2>4. QED BY <2>1, <2>2, <2>3 DEF IsPlan
<1>4. QED BY <1>1, <1>2, <1>3

LEMMA CleanupPlan ==
    ASSUME NEW ks
    PROVE  /\ Planned(CleanupSteps(ks))
           /\ From(CleanupSteps(ks), 1) \subseteq CleanUp
           /\ {"drop", "destroy"} \subseteq From(CleanupSteps(ks), 1)
           /\ "fcrepo" \in ks => "empty fedora" \in From(CleanupSteps(ks), 1)
           /\ "solr" \in ks => "queue removal" \in From(CleanupSteps(ks), 1)
<1> DEFINE solr == SolrRemoval(ks)
           fedora == IF "fcrepo" \in ks
                     THEN <<"empty fedora", "remove fcrepo">>
                     ELSE <<>>
           redis == IF "redis" \in ks THEN <<"remove redis">> ELSE <<>>
           end == <<"drop", "destroy">>
           t3 == redis \o end
           t2 == fedora \o t3
           t1 == solr \o t2
<1>1. /\ solr \in Seq(Steps) /\ fedora \in Seq(Steps) /\ redis \in Seq(Steps)
      /\ end \in Seq(Steps)
  <2>1. /\ "queue removal" \in Steps /\ "remove solr" \in Steps
        /\ "empty fedora" \in Steps /\ "remove fcrepo" \in Steps
        /\ "remove redis" \in Steps /\ "drop" \in Steps /\ "destroy" \in Steps
        /\ <<>> \in Seq(Steps)
      BY DEF Steps
  <2>2. <<"remove redis">> \in Seq(Steps)
      BY <2>1, OneStep
  <2>3. QED BY <2>1, <2>2, TwoBefore DEF SolrRemoval
<1>2. \A t \in Seq(Steps) :
          /\ <<"queue removal", "remove solr">> \o t
                = <<"queue removal">> \o (<<"remove solr">> \o t)
          /\ <<"empty fedora", "remove fcrepo">> \o t
                = <<"empty fedora">> \o (<<"remove fcrepo">> \o t)
  <2>1. /\ "queue removal" \in Steps /\ "remove solr" \in Steps
        /\ "empty fedora" \in Steps /\ "remove fcrepo" \in Steps
      BY DEF Steps
  <2>2. ASSUME NEW t \in Seq(Steps)
        PROVE  <<"queue removal", "remove solr">> \o t
                  = <<"queue removal">> \o (<<"remove solr">> \o t)
      BY <2>1, TwoBefore
  <2>3. ASSUME NEW t \in Seq(Steps)
        PROVE  <<"empty fedora", "remove fcrepo">> \o t
                  = <<"empty fedora">> \o (<<"remove fcrepo">> \o t)
      BY <2>1, TwoBefore
  <2>4. QED BY <2>2, <2>3
<1>3. CleanupSteps(ks) = t1
  <2>1. CleanupSteps(ks) = ((solr \o fedora) \o redis) \o end
      BY DEF CleanupSteps
  <2> HIDE DEF solr, fedora, redis, end
  <2>2. /\ t3 \in Seq(Steps) /\ solr \o fedora \in Seq(Steps)
        /\ ((solr \o fedora) \o redis) \o end = (solr \o fedora) \o t3
      BY <1>1, ConcatProperties, ConcatAssociative
  <2> HIDE DEF t3
  <2>3. (solr \o fedora) \o t3 = t1
      BY <1>1, <2>2, ConcatAssociative
  <2>4. QED BY <2>1, <2>2, <2>3
<1> DEFINE Ending(S) == S \subseteq CleanUp /\ {"drop", "destroy"} \subseteq S
<1>4. \E T : IsPlan(end, T) /\ Ending(T) /\ T = {"drop", "destroy"}
  <2> DEFINE e1 == <<"destroy">> \o <<>>
             e2 == <<"drop">> \o e1
  <2>1. end = e2
    <3>1. <<"drop", "destroy">> = <<"drop">> \o <<"destroy">>
        BY Pair
    <3>2. <<"destroy">> = <<"destroy">> \o <<>>
        BY Single
    <3>3. QED BY <3>1, <3>2, Zenon
  <2> USE DEF Steps, MayPrecede, Followed, Kinds, CleanUp
  <2>2. IsPlan(e1, {"destroy"} \cup {})
      BY NothingPlanned, PlannedBefore
  <2> HIDE DEF e1
  <2>3. IsPlan(e2, {"drop"} \cup ({"destroy"} \cup {}))
      BY <2>2, PlannedBefore
  <2>4. {"drop"} \cup ({"destroy"} \cup {}) = {"drop", "destroy"}
      OBVIOUS
  <2>5. QED BY <2>1, <2>3, <2>4
<1>5. PICK T : IsPlan(end, T) /\ T = {"drop", "destroy"}
    BY <1>4
<1> HIDE DEF end
<1> USE DEF Steps, MayPrecede, Followed, Kinds, CleanUp
<1>6. \E S : IsPlan(t3, S) /\ Ending(S) /\ S \subseteq {"remove redis"} \cup T
  <2>1. CASE "redis" \in ks
    <3>1. IsPlan(<<"remove redis">> \o end, {"remove redis"} \cup T)
        BY <1>5, PlannedBefore
    <3>2. QED BY <1>5, <2>1, <3>1
  <2>2. CASE "redis" \notin ks
    <3>1. t3 = end
        BY <1>1, <2>2, ConcatEmptySeq
    <3>2. QED BY <1>5, <3>1
  <2>3. QED BY <2>1, <2>2
<1>7. PICK S3 : IsPlan(t3, S3) /\ Ending(S3) /\ S3 \subseteq {"remove redis"} \cup T
    BY <1>6
<1>8. t3 \in Seq(Steps)
    BY <1>7 DEF IsPlan, Planned
<1> HIDE DEF t3
<1>9. \E S : /\ IsPlan(t2, S) /\ Ending(S) /\ "queue removal" \notin S
             /\ "fcrepo" \in ks => "empty fedora" \in S
  <2>1. CASE "fcrepo" \in ks
    <3> DEFINE f1 == <<"remove fcrepo">> \o t3
    <3>1. t2 = <<"empty fedora">> \o f1
      <4>2. <<"empty fedora", "remove fcrepo">> \o t3 = <<"empty fedora">> \o f1
          BY <1>2, <1>8
      <4>3. QED BY <2>1, <4>2
    <3>2. IsPlan(f1, {"remove fcrepo"} \cup S3)
        BY <1>5, <1>7, PlannedBefore
    <3> HIDE DEF f1
    <3>3. IsPlan(<<"empty fedora">> \o f1, {"empty fedora"} \cup ({"remove fcrepo"} \cup S3))
        BY <1>5, <1>7, <3>2, PlannedBefore
    <3>4. "queue removal" \notin {"empty fedora"} \cup ({"remove fcrepo"} \cup S3)
        BY <1>5, <1>7
    <3>5. Ending({"empty fedora"} \cup ({"remove fcrepo"} \cup S3))
        BY <1>7
    <3>6. "empty fedora" \in {"empty fedora"} \cup ({"remove fcrepo"} \cup S3)
        OBVIOUS
    <3> HIDE DEF Ending, Steps, MayPrecede, Followed, Kinds, CleanUp
    <3>7. QED BY <3>1, <3>3, <3>4, <3>5, <3>6
  <2>2. CASE "fcrepo" \notin ks
    <3>1. t2 = t3
        BY <1>8, <2>2, ConcatEmptySeq
    <3>2. QED BY <1>5, <1>7, <2>2, <3>1
  <2>3. QED BY <2>1, <2>2
<1>10. PICK S2 : /\ IsPlan(t2, S2) /\ Ending(S2) /\ "queue removal" \notin S2
                 /\ "fcrepo" \in ks => "empty fedora" \in S2
    BY <1>9
<1>11. t2 \in Seq(Steps)
    BY <1>10 DEF IsPlan, Planned
<1> HIDE DEF t2
<1>12. \E S : /\ IsPlan(t1, S) /\ Ending(S) /\ S2 \subseteq S
              /\ "solr" \in ks => "queue removal" \in S
  <2>1. CASE "solr" \in ks
    <3> DEFINE r1 == <<"remove solr">> \o t2
    <3>1. t1 = <<"queue removal">> \o r1
      <4>2. <<"queue removal", "remove solr">> \o t2 = <<"queue removal">> \o r1
          BY <1>2, <1>11
      <4>3. QED BY <2>1, <4>2 DEF SolrRemoval
    <3>2. IsPlan(r1, {"remove solr"} \cup S2)
        BY <1>10, PlannedBefore
    <3> HIDE DEF r1
    <3>3. IsPlan(<<"queue removal">> \o r1, {"queue removal"} \cup ({"remove solr"} \cup S2))
        BY <1>10, <3>2, PlannedBefore
    <3>4. QED BY <1>10, <3>1, <3>3
  <2>2. CASE "solr" \notin ks
    <3>1. t1 = t2
        BY <1>11, <2>2, ConcatEmptySeq DEF SolrRemoval
    <3>2. QED BY <1>10, <2>2, <3>1
  <2>3. QED BY <2>1, <2>2
<1>13. QED BY <1>3, <1>10, <1>12 DEF IsPlan

-----------------------------------------------------------------------------
(* Steps *)

LEMMA TakenStep ==
    ASSUME TypeOK, RequestInv, NEW a \in Accounts, NEW step, Take(a, step)
    PROVE  /\ todo' \in [Accounts -> Seq(Steps)]
           /\ a \in row
           /\ Left(a) = {step} \cup Left(a)'
           /\ Planned(todo'[a])
           /\ \A y \in Left(a)' : MayPrecede(step, y)
           /\ Followed(step, Left(a)')
           /\ Left(a)' = {} => todo'[a] = <<>>
           /\ \A b \in Accounts \ {a} : todo'[b] = todo[b] /\ Left(b)' = Left(b)
<1>1. Planned(todo[a]) /\ todo[a] # <<>> /\ Head(todo[a]) = step
    BY DEF RequestInv, Take, Idle
<1>2. todo' = [todo EXCEPT ![a] = Tail(todo[a])] /\ todo'[a] = Tail(todo[a])
    BY DEF Take, TypeOK
<1>3. Tail(todo[a]) \in Seq(Steps)
    BY <1>1, PlannedRest DEF Planned
<1>4. todo' \in [Accounts -> Seq(Steps)]
    BY <1>2, <1>3 DEF TypeOK
<1>5. \A b \in Accounts \ {a} : todo'[b] = todo[b]
    BY <1>2 DEF TypeOK
<1>6. \A b \in Accounts \ {a} : Left(b)' = Left(b)
    BY <1>5 DEF Left
<1>7. Left(a)' = From(Tail(todo[a]), 1)
    BY <1>2 DEF Left
<1>8. Left(a) = From(todo[a], 1)
    BY DEF Left
<1>9. a \in row
    BY <1>1 DEF RequestInv, Idle
<1>10. QED BY <1>1, <1>2, <1>4, <1>5, <1>6, <1>7, <1>8, <1>9, PlannedRest

LEMMA OthersLeft ==
    ASSUME TypeOK, RequestInv, NEW a \in Accounts, NEW step, Take(a, step)
    PROVE  \A b \in Accounts, y \in Steps :
              /\ y \in Left(b)' => y \in Left(b)
              /\ y \in Left(b) => y \in Left(b)' \/ (b = a /\ y = step)
<1> SUFFICES ASSUME NEW b \in Accounts, NEW y \in Steps
             PROVE  /\ y \in Left(b)' => y \in Left(b)
                    /\ y \in Left(b) => y \in Left(b)' \/ (b = a /\ y = step)
    OBVIOUS
<1>1. CASE b = a
  <2>1. Left(a) = {step} \cup Left(a)'
      BY TakenStep
  <2>2. QED BY <1>1, <2>1
<1>2. CASE b # a
  <2>1. Left(b) = Left(b)'
      BY <1>2, TakenStep
  <2>2. QED BY <1>2, <2>1
<1>3. QED BY <1>1, <1>2

\* A step of a request keeps RequestInv if it keeps what its rest needs.
LEMMA RequestsKept ==
    ASSUME TypeOK, RequestInv, NEW a \in Accounts, NEW step, Take(a, step),
           row' = (IF step = "destroy" THEN row \ {a} ELSE row),
           cleaning' = cleaning,
           \A b \in Accounts \ {a} : fresh'[b] = fresh[b],
           \/ fresh'[a] = {}
           \/ fresh'[a] = fresh[a] /\ step # "link"
           \/ step \in Kinds
    PROVE  RequestInv'
<1> SUFFICES ASSUME NEW b \in Accounts
             PROVE  /\ Planned(todo'[b])
                    /\ todo'[b] # <<>> => b \in row'
                    /\ Left(b)' \cap CleanUp # {} => b \in cleaning'
                    /\ fresh'[b] # {} => "link" \in Left(b)'
                    /\ "collection" \in Left(b)' => b \in Fulls
    BY DEF RequestInv, Idle
<1>1. CASE b # a
    BY <1>1, TakenStep DEF RequestInv, Idle
<1>2. CASE b = a
  <2>1. todo'[a] # <<>> => a \in row'
      BY TakenStep DEF MayPrecede
  <2>2. Left(a)' \cap CleanUp # {} => a \in cleaning'
      BY TakenStep DEF RequestInv
  <2>3. fresh'[a] # {} => "link" \in Left(a)'
      BY TakenStep DEF RequestInv, Followed
  <2>4. "collection" \in Left(a)' => a \in Fulls
      BY TakenStep DEF RequestInv
  <2>5. QED BY <1>2, <2>1, <2>2, <2>3, <2>4, TakenStep
<1>3. QED BY <1>1, <1>2

\* And it keeps NeedsInv if no endpoint id gets lost, and a new one is remembered.
LEMMA NeedsKept ==
    ASSUME TypeOK, RequestInv, NeedsInv,
           NEW a \in Accounts, NEW step, Take(a, step),
           \A b \in Accounts : links[b] \cup fresh[b] \subseteq links'[b] \cup fresh'[b],
           step \in Kinds => step \in fresh'[a]
    PROVE  NeedsInv'
<1> SUFFICES ASSUME NEW b \in Accounts, "tenant" \in Left(b)', NEW k \in Needed(b)
             PROVE  k \in links'[b] \cup fresh'[b] \cup Left(b)'
    BY DEF NeedsInv, Needed
<1>1. k \in Kinds /\ k \in Steps /\ "tenant" \in Steps
    BY DEF Needed, Kinds, Steps
<1>2. "tenant" \in Left(b)
    BY <1>1, OthersLeft
<1>3. k \in links[b] \cup fresh[b] \cup Left(b)
    BY <1>2 DEF NeedsInv
<1>4. CASE k \in Left(b)
    BY <1>1, <1>4, OthersLeft
<1>5. QED BY <1>3, <1>4

LEMMA CleanUpKeepsNeeds ==
    ASSUME TypeOK, RequestInv, NeedsInv,
           NEW a \in Accounts, NEW step \in CleanUp, Take(a, step),
           \A b \in Accounts \ {a} : links'[b] = links[b] /\ fresh'[b] = fresh[b]
    PROVE  NeedsInv' /\ a \in cleaning
<1>1. "tenant" \notin Left(a)'
  <2>1. "tenant" \in Left(a)' => MayPrecede(step, "tenant")
      BY TakenStep
  <2>2. "tenant" \notin CleanUp
      BY DEF CleanUp
  <2>3. QED BY <2>1, <2>2 DEF MayPrecede
<1>2. \A b \in Accounts \ {a} : Left(b)' = Left(b)
    BY TakenStep
<1>3. a \in cleaning
    BY TakenStep DEF RequestInv
<1>4. QED BY <1>1, <1>2, <1>3 DEF NeedsInv, Needed

LEMMA CreateCollectionKeeps ==
    ASSUME TenantsInv, NEW a \in Accounts, CreateCollection(a)
    PROVE  TenantsInv'
<1> USE DEF TenantsInv
<1>1. /\ Take(a, "collection")
      /\ UNCHANGED <<used, row, links, endpoints, full, alias, removals>>
      /\ UNCHANGED <<containers, schemas, fresh, wanted, cleaning, torn, undropped>>
      /\ collections' = collections \cup {a}
    BY DEF CreateCollection, dbVars, otherVars, noteVars
<1>2. TypeOK'
    BY TakenStep, <1>1 DEF RequestInv, TypeOK
<1>3. RequestInv'
    BY <1>1, RequestsKept
<1>4. EndpointInv'
    BY <1>1 DEF EndpointInv
<1>5. TenantInv'
    BY <1>1, NeedsKept DEF TenantInv, ServedIsWhole, Kinds
<1>6. RemainsInv'
    BY <1>1, OthersLeft DEF RemainsInv, Steps
<1>7. AliasInv'
    BY <1>1, OthersLeft DEF AliasInv, Steps, Accounts
<1>8. GoneLeavesNothing'
    BY <1>1 DEF GoneLeavesNothing
<1>9. QED BY <1>2, <1>3, <1>4, <1>5, <1>6, <1>7, <1>8

LEMMA CreateAliasKeeps ==
    ASSUME TenantsInv, NEW a \in SearchOnly, CreateAlias(a)
    PROVE  TenantsInv'
<1> USE DEF TenantsInv
<1>1. /\ Take(a, "alias")
      /\ UNCHANGED <<used, row, links, endpoints, full, collections, removals>>
      /\ UNCHANGED <<containers, schemas, fresh, cleaning, torn, undropped>>
      /\ alias' = [alias EXCEPT ![a] = wanted[a]]
      /\ wanted' = [wanted EXCEPT ![a] = {}]
    BY DEF CreateAlias, dbVars, solrVars, otherVars, noteVars
<1>0. a \in Accounts
    BY DEF Accounts
<1>2. TypeOK'
    BY TakenStep, <1>0, <1>1 DEF TypeOK
<1>3. RequestInv'
    BY <1>0, <1>1, RequestsKept DEF Kinds, TypeOK
<1>4. EndpointInv'
    BY <1>1 DEF EndpointInv
<1>5. TenantInv'
    BY <1>0, <1>1, NeedsKept DEF TenantInv, ServedIsWhole, Kinds
<1>6. RemainsInv'
    BY <1>0, <1>1, OthersLeft DEF RemainsInv, Steps
<1>7. AliasInv'
  <2>1. "alias" \in Left(a) /\ "alias" \notin Left(a)'
    <3>1. /\ Left(a) = {"alias"} \cup Left(a)'
          /\ \A y \in Left(a)' : MayPrecede("alias", y)
        BY <1>0, <1>1, TakenStep
    <3>2. ~MayPrecede("alias", "alias")
        BY DEF MayPrecede
    <3>3. QED BY <3>1, <3>2
  <2>2. QED BY <1>0, <1>1, <2>1, OthersLeft DEF AliasInv, Steps, Accounts, TypeOK
<1>8. GoneLeavesNothing'
    BY <1>1 DEF GoneLeavesNothing
<1>9. QED BY <1>2, <1>3, <1>4, <1>5, <1>6, <1>7, <1>8

LEMMA DeleteAliasKeeps ==
    ASSUME TenantsInv, NEW a \in SearchOnly, DeleteAlias(a)
    PROVE  TenantsInv'
<1> USE DEF TenantsInv
<1>1. /\ Take(a, "unalias")
      /\ UNCHANGED <<used, row, links, endpoints, full, collections, removals>>
      /\ UNCHANGED <<containers, schemas, fresh, wanted, cleaning, torn, undropped>>
      /\ alias' = [alias EXCEPT ![a] = {}]
    BY DEF DeleteAlias, dbVars, solrVars, otherVars, noteVars
<1>0. a \in Accounts
    BY DEF Accounts
<1>2. TypeOK'
    BY TakenStep, <1>0, <1>1 DEF TypeOK
<1>3. RequestInv'
    BY <1>0, <1>1, RequestsKept DEF Kinds, TypeOK
<1>4. EndpointInv'
    BY <1>1 DEF EndpointInv
<1>5. TenantInv'
    BY <1>0, <1>1, NeedsKept DEF TenantInv, ServedIsWhole, Kinds
<1>6. RemainsInv'
    BY <1>0, <1>1, OthersLeft DEF RemainsInv, Steps
<1>7. AliasInv'
  <2>1. "alias" \in Left(a)'
      BY <1>0, <1>1, TakenStep DEF Followed
  <2>2. QED BY <1>0, <1>1, <2>1, OthersLeft DEF AliasInv, Steps, Accounts, TypeOK
<1>8. GoneLeavesNothing'
    BY <1>1 DEF GoneLeavesNothing
<1>9. QED BY <1>2, <1>3, <1>4, <1>5, <1>6, <1>7, <1>8

LEMMA SaveLinksKeeps ==
    ASSUME TenantsInv, NEW a \in Accounts, SaveLinks(a)
    PROVE  TenantsInv'
<1> USE DEF TenantsInv
<1>1. /\ Take(a, "link")
      /\ UNCHANGED <<used, row, endpoints, full, collections, alias, removals>>
      /\ UNCHANGED <<containers, schemas, wanted, cleaning, torn, undropped>>
      /\ links' = [links EXCEPT ![a] = links[a] \cup fresh[a]]
      /\ fresh' = [fresh EXCEPT ![a] = {}]
    BY DEF SaveLinks, dbVars, solrVars, otherVars, noteVars
<1>2. TypeOK'
    BY TakenStep, <1>1 DEF TypeOK
<1>3. RequestInv'
    BY <1>1, RequestsKept DEF Kinds, TypeOK
<1>4. EndpointInv'
    BY <1>1 DEF EndpointInv, TypeOK
<1>5. TenantInv'
    BY <1>1, NeedsKept DEF TenantInv, ServedIsWhole, Kinds, TypeOK
<1>6. RemainsInv'
    BY <1>1, OthersLeft DEF RemainsInv, Steps, TypeOK
<1>7. AliasInv'
    BY <1>1, OthersLeft DEF AliasInv, Steps, Accounts
<1>8. GoneLeavesNothing'
    BY <1>1 DEF GoneLeavesNothing
<1>9. QED BY <1>2, <1>3, <1>4, <1>5, <1>6, <1>7, <1>8

LEMMA CreateTenantKeeps ==
    ASSUME TenantsInv, NEW a \in Accounts, CreateTenant(a)
    PROVE  TenantsInv'
<1> USE DEF TenantsInv
<1>1. /\ Take(a, "tenant")
      /\ UNCHANGED <<used, row, links, endpoints, full, collections, alias>>
      /\ UNCHANGED <<removals, fresh, wanted, cleaning, torn, undropped>>
      /\ schemas' = schemas \cup {a}
      /\ containers' = IF a \notin SearchOnly THEN containers \cup {a} ELSE containers
    BY DEF CreateTenant, dbVars, solrVars, otherVars, noteVars, HasAdminSet
<1>0. /\ "tenant" \in Left(a) /\ Left(a)' = {} /\ Left(a) = {"tenant"}
      /\ fresh[a] = {} /\ Needed(a) \subseteq links[a]
  <2>1. "tenant" \in Left(a) /\ Left(a)' = {} /\ Left(a) = {"tenant"}
    <3>1. /\ Left(a) = {"tenant"} \cup Left(a)'
          /\ \A y \in Left(a)' : MayPrecede("tenant", y)
        BY <1>1, TakenStep
    <3>2. \A y : ~MayPrecede("tenant", y)
        BY DEF MayPrecede
    <3>3. QED BY <3>1, <3>2
  <2>2. fresh[a] = {}
      BY <2>1 DEF RequestInv
  <2>3. QED BY <2>1, <2>2 DEF TenantInv, NeedsInv, Needed, Kinds
<1>2. TypeOK'
    BY TakenStep, <1>1 DEF TypeOK, Accounts
<1>3. RequestInv'
    BY <1>1, RequestsKept DEF Kinds, TypeOK
<1>4. EndpointInv'
    BY <1>1 DEF EndpointInv
<1>5. TenantInv'
    BY <1>0, <1>1, NeedsKept DEF TenantInv, ServedIsWhole, Kinds
<1>6. RemainsInv'
    BY <1>0, <1>1, OthersLeft DEF RemainsInv, Steps, Needed, Kinds, Accounts
<1>7. AliasInv'
    BY <1>1, OthersLeft DEF AliasInv, Steps, Accounts
<1>8. GoneLeavesNothing'
    BY <1>1, TakenStep DEF GoneLeavesNothing
<1>9. QED BY <1>2, <1>3, <1>4, <1>5, <1>6, <1>7, <1>8

LEMMA QueueRemovalKeeps ==
    ASSUME TenantsInv, NEW a \in Accounts, QueueRemoval(a)
    PROVE  TenantsInv'
<1> USE DEF TenantsInv
<1>1. /\ Take(a, "queue removal")
      /\ UNCHANGED <<used, row, links, endpoints, full, collections, alias>>
      /\ UNCHANGED <<containers, schemas, fresh, wanted, cleaning, torn, undropped>>
      /\ removals' = removals \cup {a}
    BY DEF QueueRemoval, dbVars, solrVars, otherVars, noteVars
<1>2. TypeOK'
    BY TakenStep, <1>1 DEF TypeOK
<1>3. RequestInv'
    BY <1>1, RequestsKept DEF Kinds, TypeOK
<1>4. EndpointInv'
    BY <1>1 DEF EndpointInv
<1>5. TenantInv'
    BY <1>1, CleanUpKeepsNeeds DEF TenantInv, ServedIsWhole, CleanUp, TypeOK
<1>6. RemainsInv'
    BY <1>1, OthersLeft DEF RemainsInv, Steps
<1>7. AliasInv'
    BY <1>1, OthersLeft, CleanUpKeepsNeeds
    DEF AliasInv, TenantInv, CleanUp, Steps, Accounts
<1>8. GoneLeavesNothing'
    BY <1>1 DEF GoneLeavesNothing
<1>9. QED BY <1>2, <1>3, <1>4, <1>5, <1>6, <1>7, <1>8

LEMMA RemoveSolrRowKeeps ==
    ASSUME TenantsInv, NEW a \in Accounts, RemoveSolrRow(a)
    PROVE  TenantsInv'
<1> USE DEF TenantsInv
<1>1. /\ Take(a, "remove solr")
      /\ UNCHANGED <<used, row, full, collections, alias, removals, containers>>
      /\ UNCHANGED <<schemas, fresh, wanted, cleaning, torn, undropped>>
      /\ endpoints' = endpoints \ {<<a, "solr">>}
      /\ links' = [links EXCEPT ![a] = links[a] \ {"solr"}]
    BY DEF RemoveSolrRow, dbVars, solrVars, otherVars, noteVars, DestroyEndpoint
<1>2. TypeOK'
    BY TakenStep, <1>1 DEF TypeOK
<1>3. RequestInv'
    BY <1>1, RequestsKept DEF Kinds, TypeOK
<1>4. EndpointInv'
    BY <1>1 DEF EndpointInv, TypeOK
<1>5. TenantInv'
    BY <1>1, CleanUpKeepsNeeds DEF TenantInv, ServedIsWhole, CleanUp, TypeOK
<1>6. RemainsInv'
    BY <1>1, OthersLeft DEF RemainsInv, Steps, TypeOK
<1>7. AliasInv'
    BY <1>1, OthersLeft DEF AliasInv, Steps, Accounts
<1>8. GoneLeavesNothing'
    BY <1>1, TakenStep DEF GoneLeavesNothing, TypeOK
<1>9. QED BY <1>2, <1>3, <1>4, <1>5, <1>6, <1>7, <1>8

LEMMA EmptyFedoraKeeps ==
    ASSUME TenantsInv, NEW a \in Accounts, EmptyFedora(a)
    PROVE  TenantsInv'
<1> USE DEF TenantsInv
<1>1. /\ Take(a, "empty fedora")
      /\ UNCHANGED <<used, row, links, endpoints, full, collections, alias>>
      /\ UNCHANGED <<removals, schemas, fresh, wanted, cleaning, torn, undropped>>
      /\ containers' = containers \ {a}
    BY DEF EmptyFedora, dbVars, solrVars, otherVars, noteVars
<1>2. TypeOK'
    BY TakenStep, <1>1 DEF TypeOK
<1>3. RequestInv'
    BY <1>1, RequestsKept DEF Kinds, TypeOK
<1>4. EndpointInv'
    BY <1>1 DEF EndpointInv
<1>5. TenantInv'
    BY <1>1, CleanUpKeepsNeeds DEF TenantInv, ServedIsWhole, CleanUp, TypeOK
<1>6. RemainsInv'
    BY <1>1, OthersLeft DEF RemainsInv, Steps
<1>7. AliasInv'
    BY <1>1, OthersLeft DEF AliasInv, Steps, Accounts
<1>8. GoneLeavesNothing'
    BY <1>1 DEF GoneLeavesNothing
<1>9. QED BY <1>2, <1>3, <1>4, <1>5, <1>6, <1>7, <1>8

LEMMA RemoveFcrepoRowKeeps ==
    ASSUME TenantsInv, NEW a \in Accounts, RemoveFcrepoRow(a)
    PROVE  TenantsInv'
<1> USE DEF TenantsInv
<1>1. /\ Take(a, "remove fcrepo")
      /\ UNCHANGED <<used, row, full, collections, alias, removals, containers>>
      /\ UNCHANGED <<schemas, fresh, wanted, cleaning, torn, undropped>>
      /\ endpoints' = endpoints \ {<<a, "fcrepo">>}
      /\ links' = [links EXCEPT ![a] = links[a] \ {"fcrepo"}]
    BY DEF RemoveFcrepoRow, dbVars, solrVars, otherVars, noteVars, DestroyEndpoint
<1>0. a \notin containers
  <2>1. /\ Left(a) = {"remove fcrepo"} \cup Left(a)'
        /\ \A y \in Left(a)' : MayPrecede("remove fcrepo", y)
        /\ Followed("remove fcrepo", Left(a)')
      BY <1>1, TakenStep
  <2>2. "empty fedora" \notin Left(a)'
      BY <2>1 DEF MayPrecede
  <2>3. "destroy" \in Left(a)'
      BY <2>1 DEF Followed, CleanUp
  <2>4. QED BY <2>1, <2>2, <2>3 DEF RemainsInv
<1>2. TypeOK'
    BY TakenStep, <1>1 DEF TypeOK
<1>3. RequestInv'
    BY <1>1, RequestsKept DEF Kinds, TypeOK
<1>4. EndpointInv'
    BY <1>1 DEF EndpointInv, TypeOK
<1>5. TenantInv'
    BY <1>1, CleanUpKeepsNeeds DEF TenantInv, ServedIsWhole, CleanUp, TypeOK
<1>6. RemainsInv'
    BY <1>0, <1>1, OthersLeft DEF RemainsInv, Steps, TypeOK
<1>7. AliasInv'
    BY <1>1, OthersLeft DEF AliasInv, Steps, Accounts
<1>8. GoneLeavesNothing'
    BY <1>1, TakenStep DEF GoneLeavesNothing, TypeOK
<1>9. QED BY <1>2, <1>3, <1>4, <1>5, <1>6, <1>7, <1>8

LEMMA RemoveRedisRowKeeps ==
    ASSUME TenantsInv, NEW a \in Accounts, RemoveRedisRow(a)
    PROVE  TenantsInv'
<1> USE DEF TenantsInv
<1>1. /\ Take(a, "remove redis")
      /\ UNCHANGED <<used, row, full, collections, alias, removals, containers>>
      /\ UNCHANGED <<schemas, fresh, wanted, cleaning, torn, undropped>>
      /\ \/ /\ endpoints' = endpoints \ {<<a, "redis">>}
            /\ links' = [links EXCEPT ![a] = links[a] \ {"redis"}]
         \/ UNCHANGED <<endpoints, links>>
    BY DEF RemoveRedisRow, dbVars, solrVars, otherVars, noteVars, DestroyEndpoint
<1>2. TypeOK'
  <2>1. /\ links' \in [Accounts -> SUBSET Kinds]
        /\ endpoints' \subseteq Accounts \X Kinds
      BY <1>1 DEF TypeOK
  <2>2. QED BY TakenStep, <1>1, <2>1 DEF TypeOK
<1>3. RequestInv'
    BY <1>1, RequestsKept DEF Kinds, TypeOK
<1>4. EndpointInv'
    BY <1>1 DEF EndpointInv, TypeOK
<1>5. TenantInv'
    BY <1>1, CleanUpKeepsNeeds DEF TenantInv, ServedIsWhole, CleanUp, TypeOK
<1>6. RemainsInv'
    BY <1>1, OthersLeft DEF RemainsInv, Steps, TypeOK
<1>7. AliasInv'
    BY <1>1, OthersLeft DEF AliasInv, Steps, Accounts
<1>8. GoneLeavesNothing'
    BY <1>1, TakenStep DEF GoneLeavesNothing, TypeOK
<1>9. QED BY <1>2, <1>3, <1>4, <1>5, <1>6, <1>7, <1>8

LEMMA DropTenantKeeps ==
    ASSUME TenantsInv, NEW a \in Accounts, DropTenant(a)
    PROVE  TenantsInv'
<1> USE DEF TenantsInv
<1>1. /\ Take(a, "drop")
      /\ UNCHANGED <<used, row, links, endpoints, full, collections, alias>>
      /\ UNCHANGED <<removals, containers, fresh, wanted, cleaning, torn>>
      /\ \/ schemas' = schemas \ {a} /\ undropped' = undropped
         \/ schemas' = schemas /\ undropped' = undropped \cup {a}
    BY DEF DropTenant, dbVars, solrVars, otherVars, noteVars
<1>2. TypeOK'
    BY TakenStep, <1>1 DEF TypeOK
<1>3. RequestInv'
    BY <1>1, RequestsKept DEF Kinds, TypeOK
<1>4. EndpointInv'
    BY <1>1 DEF EndpointInv
<1>5. TenantInv'
    BY <1>1, CleanUpKeepsNeeds DEF TenantInv, ServedIsWhole, CleanUp, TypeOK
<1>6. RemainsInv'
    BY <1>1, OthersLeft DEF RemainsInv, Steps
<1>7. AliasInv'
    BY <1>1, OthersLeft DEF AliasInv, Steps, Accounts
<1>8. GoneLeavesNothing'
    BY <1>1 DEF GoneLeavesNothing
<1>9. QED BY <1>2, <1>3, <1>4, <1>5, <1>6, <1>7, <1>8

LEMMA DestroyAccountKeeps ==
    ASSUME TenantsInv, NEW a \in Accounts, DestroyAccount(a)
    PROVE  TenantsInv'
<1> USE DEF TenantsInv
<1>1. /\ Take(a, "destroy")
      /\ UNCHANGED <<used, collections, alias, removals, containers, schemas, fresh>>
      /\ UNCHANGED <<wanted, cleaning, torn, undropped>>
      /\ row' = row \ {a}
      /\ endpoints' = endpoints \ ({a} \X links[a])
      /\ links' = [links EXCEPT ![a] = {}]
      /\ full' = [s \in SearchOnly |-> IF s = a THEN {} ELSE full[s] \ {a}]
    BY DEF DestroyAccount, dbVars, solrVars, otherVars, noteVars, LeftEndpoints
<1>0. /\ Left(a) = {"destroy"} /\ fresh[a] = {}
      /\ a \notin containers
      /\ a \in schemas => a \in undropped
  <2>1. Left(a) = {"destroy"}
      BY <1>1, TakenStep DEF MayPrecede
  <2>2. QED BY <2>1 DEF RemainsInv, RequestInv
<1>2. TypeOK'
    BY TakenStep, <1>1 DEF TypeOK
<1>3. RequestInv'
    BY <1>1, RequestsKept DEF Kinds, TypeOK
<1>4. EndpointInv'
    BY <1>1 DEF EndpointInv, TypeOK
<1>5. TenantInv'
    BY <1>1, CleanUpKeepsNeeds DEF TenantInv, ServedIsWhole, CleanUp, TypeOK
<1>6. RemainsInv'
    BY <1>0, <1>1, OthersLeft DEF RemainsInv, Steps, TypeOK
<1>7. AliasInv'
    BY <1>1, OthersLeft DEF AliasInv, Steps, Accounts, TypeOK
<1>8. GoneLeavesNothing'
  <2> SUFFICES ASSUME NEW b \in used' \ (row' \cup torn')
               PROVE  /\ \A k \in Kinds : <<b, k>> \notin endpoints'
                      /\ b \notin containers'
                      /\ b \in schemas' => b \in undropped'
      BY DEF GoneLeavesNothing
  <2>1. CASE b = a
      BY <1>0, <1>1, <2>1 DEF EndpointInv
  <2>2. CASE b # a
      BY <1>1, <2>2 DEF GoneLeavesNothing
  <2>3. QED BY <2>1, <2>2
<1>9. QED BY <1>2, <1>3, <1>4, <1>5, <1>6, <1>7, <1>8

LEMMA CreateEndpointKeeps ==
    ASSUME TenantsInv, NEW a \in Accounts, CreateEndpoint(a)
    PROVE  TenantsInv'
<1> USE DEF TenantsInv
<1>0. \E k \in Kinds :
      /\ Take(a, k)
      /\ UNCHANGED <<used, row, links, full, collections, alias, removals>>
      /\ UNCHANGED <<containers, schemas, wanted, cleaning, torn, undropped>>
      /\ endpoints' = endpoints \cup {<<a, k>>}
      /\ fresh' = [fresh EXCEPT ![a] = fresh[a] \cup {k}]
    BY DEF CreateEndpoint, dbVars, solrVars, otherVars, noteVars
<1>1. PICK k \in Kinds :
      /\ Take(a, k)
      /\ UNCHANGED <<used, row, links, full, collections, alias, removals>>
      /\ UNCHANGED <<containers, schemas, wanted, cleaning, torn, undropped>>
      /\ endpoints' = endpoints \cup {<<a, k>>}
      /\ fresh' = [fresh EXCEPT ![a] = fresh[a] \cup {k}]
    BY <1>0
<1>2. TypeOK'
    BY TakenStep, <1>1 DEF TypeOK
<1>3. RequestInv'
    BY <1>1, RequestsKept DEF Kinds, TypeOK
<1>4. EndpointInv'
    BY <1>1 DEF EndpointInv, TypeOK
<1>5. TenantInv'
    BY <1>1, NeedsKept DEF TenantInv, ServedIsWhole, TypeOK
<1>6. RemainsInv'
    BY <1>1, OthersLeft DEF RemainsInv, Steps, Kinds
<1>7. AliasInv'
    BY <1>1, OthersLeft DEF AliasInv, Steps, Kinds, Accounts
<1>8. GoneLeavesNothing'
    BY <1>1, TakenStep DEF GoneLeavesNothing, TypeOK
<1>9. QED BY <1>2, <1>3, <1>4, <1>5, <1>6, <1>7, <1>8

-----------------------------------------------------------------------------
(* Requests, failures and Solr *)

LEMMA CreateAccountKeeps ==
    ASSUME TenantsInv, NEW a \in Accounts, NEW F \in SUBSET (row \cap Fulls),
           a \in SearchOnly \/ F = {}, CreateAccount(a, F)
    PROVE  TenantsInv'
<1> USE DEF TenantsInv
<1> DEFINE s == CreationSteps(a, F)
<1>1. /\ a \notin used
      /\ used' = used \cup {a} /\ row' = row \cup {a}
      /\ todo' = [todo EXCEPT ![a] = s]
      /\ full' = IF a \in SearchOnly THEN [full EXCEPT ![a] = F] ELSE full
      /\ wanted' = IF a \in SearchOnly THEN [wanted EXCEPT ![a] = F] ELSE wanted
      /\ UNCHANGED <<links, endpoints, collections, alias, removals, containers>>
      /\ UNCHANGED <<schemas, fresh, cleaning, torn, undropped>>
    BY DEF CreateAccount, solrVars, otherVars, noteVars
<1>2. /\ Planned(s) /\ s \in Seq(Steps)
      /\ From(s, 1) \cap CleanUp = {} /\ Needed(a) \subseteq From(s, 1)
      /\ a \in SearchOnly /\ F # {} => "alias" \in From(s, 1)
      /\ a \in SearchOnly => "collection" \notin From(s, 1)
    BY CreationPlan DEF Planned
<1> HIDE DEF s
<1>3. /\ todo'[a] = s /\ Left(a)' = From(s, 1)
      /\ \A b \in Accounts \ {a} : todo'[b] = todo[b] /\ Left(b)' = Left(b)
    BY <1>1 DEF TypeOK, Left
<1>4. a \notin row /\ todo[a] = <<>> /\ fresh[a] = {}
  <2>1. a \notin row /\ todo[a] = <<>>
      BY <1>1 DEF TypeOK, RequestInv, Idle
  <2>2. Left(a) = {}
      BY <2>1 DEF Left, From
  <2>3. QED BY <2>1, <2>2 DEF RequestInv
<1>5. TypeOK'
  <2>1. /\ full' \in [SearchOnly -> SUBSET Fulls]
        /\ wanted' \in [SearchOnly -> SUBSET Fulls]
      BY <1>1 DEF TypeOK
  <2>2. todo' \in [Accounts -> Seq(Steps)]
      BY <1>1, <1>2 DEF TypeOK
  <2>3. QED BY <1>1, <2>1, <2>2 DEF TypeOK
<1>6. RequestInv'
  <2> SUFFICES ASSUME NEW b \in Accounts
               PROVE  /\ Planned(todo'[b])
                      /\ todo'[b] # <<>> => b \in row'
                      /\ Left(b)' \cap CleanUp # {} => b \in cleaning'
                      /\ fresh'[b] # {} => "link" \in Left(b)'
                      /\ "collection" \in Left(b)' => b \in Fulls
      BY DEF RequestInv, Idle
  <2>1. CASE b = a
      BY <1>1, <1>2, <1>3, <1>4, <2>1 DEF Accounts
  <2>2. CASE b # a
      BY <1>1, <1>3, <2>2 DEF RequestInv, Idle
  <2>3. QED BY <2>1, <2>2
<1>7. EndpointInv'
    BY <1>1 DEF EndpointInv
<1>8. TenantInv'
  <2>1. ServedIsWhole'
      BY <1>1 DEF TenantInv, ServedIsWhole, Needed
  <2>2. NeedsInv'
      BY <1>1, <1>2, <1>3 DEF TenantInv, NeedsInv, Needed
  <2>3. QED BY <2>1, <2>2 DEF TenantInv
<1>9. RemainsInv'
    BY <1>1, <1>2, <1>3 DEF RemainsInv, CleanUp
<1>10. AliasInv'
  <2> SUFFICES ASSUME NEW b \in row' \cap SearchOnly, b \notin cleaning \cup torn
               PROVE  full'[b] \subseteq IF "alias" \in Left(b)' THEN wanted'[b]
                                                                ELSE alias[b]
      BY <1>1 DEF AliasInv
  <2>1. CASE b = a
    <3>1. full'[a] = F /\ wanted'[a] = F
        BY <1>1, <2>1 DEF TypeOK
    <3>2. QED BY <1>2, <1>3, <2>1, <3>1
  <2>2. CASE b # a
      BY <1>1, <1>3, <2>2 DEF AliasInv, Accounts, TypeOK
  <2>3. QED BY <2>1, <2>2
<1>11. GoneLeavesNothing'
    BY <1>1 DEF GoneLeavesNothing
<1>12. QED BY <1>5, <1>6, <1>7, <1>8, <1>9, <1>10, <1>11

LEMMA UpdateSearchKeeps ==
    ASSUME TenantsInv, NEW a \in SearchOnly, NEW F \in SUBSET (row \cap Fulls),
           UpdateSearch(a, F)
    PROVE  TenantsInv'
<1> USE DEF TenantsInv
<1> DEFINE s == AliasSteps(F, "solr" \in links[a])
<1>1. /\ a \in row /\ todo[a] = <<>>
      /\ todo' = [todo EXCEPT ![a] = s]
      /\ full' = [full EXCEPT ![a] = F]
      /\ wanted' = [wanted EXCEPT ![a] = F]
      /\ endpoints' = IF "datacite" \in links[a]
                      THEN endpoints ELSE endpoints \cup {<<a, "datacite">>}
      /\ links' = [links EXCEPT ![a] = links[a] \cup {"datacite"}]
      /\ UNCHANGED <<used, row, collections, alias, removals, containers>>
      /\ UNCHANGED <<schemas, fresh, cleaning, torn, undropped>>
    BY DEF UpdateSearch, Idle, solrVars, otherVars, noteVars
<1>2. /\ Planned(s) /\ s \in Seq(Steps)
      /\ From(s, 1) \cap (CleanUp \cup {"tenant", "collection"}) = {}
      /\ F # {} => "alias" \in From(s, 1)
  <2>1. ("solr" \in links[a]) \in BOOLEAN
      OBVIOUS
  <2>2. QED BY <2>1, UpdatePlan DEF Planned
<1> HIDE DEF s
<1>3. /\ a \in Accounts
      /\ todo'[a] = s /\ Left(a)' = From(s, 1)
      /\ \A b \in Accounts \ {a} : todo'[b] = todo[b] /\ Left(b)' = Left(b)
    BY <1>1 DEF TypeOK, Left, Accounts
<1>4. fresh[a] = {}
  <2>1. Left(a) = {}
      BY <1>1 DEF Left, From
  <2>2. QED BY <1>3, <2>1 DEF RequestInv
<1>5. TypeOK'
  <2>1. /\ full' \in [SearchOnly -> SUBSET Fulls]
        /\ wanted' \in [SearchOnly -> SUBSET Fulls]
      BY <1>1 DEF TypeOK
  <2>2. todo' \in [Accounts -> Seq(Steps)]
      BY <1>1, <1>2, <1>3 DEF TypeOK
  <2>3. /\ links' \in [Accounts -> SUBSET Kinds]
        /\ endpoints' \subseteq Accounts \X Kinds
      BY <1>1, <1>3 DEF TypeOK, Kinds
  <2>4. QED BY <1>1, <2>1, <2>2, <2>3 DEF TypeOK
<1>6. RequestInv'
  <2> SUFFICES ASSUME NEW b \in Accounts
               PROVE  /\ Planned(todo'[b])
                      /\ todo'[b] # <<>> => b \in row'
                      /\ Left(b)' \cap CleanUp # {} => b \in cleaning'
                      /\ fresh'[b] # {} => "link" \in Left(b)'
                      /\ "collection" \in Left(b)' => b \in Fulls
      BY DEF RequestInv, Idle
  <2>1. CASE b = a
      BY <1>1, <1>2, <1>3, <1>4, <2>1
  <2>2. CASE b # a
      BY <1>1, <1>3, <2>2 DEF RequestInv, Idle
  <2>3. QED BY <2>1, <2>2
<1>7. EndpointInv'
    BY <1>1, <1>3 DEF EndpointInv, TypeOK, Kinds
<1>8. TenantInv'
  <2>1. \A b \in Accounts : links[b] \subseteq links'[b]
      BY <1>1 DEF TypeOK
  <2>2. ServedIsWhole'
      BY <1>1, <2>1 DEF TenantInv, ServedIsWhole, Needed, TypeOK
  <2>3. NeedsInv'
      BY <1>1, <1>2, <1>3, <2>1 DEF TenantInv, NeedsInv, Needed
  <2>4. QED BY <2>2, <2>3 DEF TenantInv
<1>9. RemainsInv'
  <2>1. \A b \in Accounts : links[b] \subseteq links'[b]
      BY <1>1 DEF TypeOK
  <2>2. "destroy" \notin Left(a)'
      BY <1>2, <1>3 DEF CleanUp
  <2>3. QED BY <1>1, <1>3, <2>1, <2>2 DEF RemainsInv
<1>10. AliasInv'
  <2> SUFFICES ASSUME NEW b \in row' \cap SearchOnly, b \notin cleaning \cup torn
               PROVE  full'[b] \subseteq IF "alias" \in Left(b)' THEN wanted'[b]
                                                                ELSE alias[b]
      BY <1>1 DEF AliasInv
  <2>1. CASE b = a
    <3>1. full'[a] = F /\ wanted'[a] = F
        BY <1>1, <2>1 DEF TypeOK
    <3>2. QED BY <1>2, <1>3, <2>1, <3>1
  <2>2. CASE b # a
      BY <1>1, <1>3, <2>2 DEF AliasInv, Accounts, TypeOK
  <2>3. QED BY <2>1, <2>2
<1>11. GoneLeavesNothing'
    BY <1>1, <1>3 DEF GoneLeavesNothing, TypeOK
<1>12. QED BY <1>5, <1>6, <1>7, <1>8, <1>9, <1>10, <1>11

LEMMA CleanupKeeps ==
    ASSUME TenantsInv, NEW a \in Accounts, Cleanup(a)
    PROVE  TenantsInv'
<1> USE DEF TenantsInv
<1> DEFINE s == CleanupSteps(links[a])
<1>1. /\ a \in row /\ todo[a] = <<>>
      /\ cleaning' = cleaning \cup {a}
      /\ todo' = [todo EXCEPT ![a] = s]
      /\ UNCHANGED <<used, row, links, endpoints, full, collections, alias>>
      /\ UNCHANGED <<removals, containers, schemas, fresh, wanted, torn, undropped>>
    BY DEF Cleanup, Idle, dbVars, solrVars, otherVars
<1>2. /\ Planned(s) /\ s \in Seq(Steps)
      /\ From(s, 1) \subseteq CleanUp /\ {"drop", "destroy"} \subseteq From(s, 1)
      /\ "fcrepo" \in links[a] => "empty fedora" \in From(s, 1)
    BY CleanupPlan DEF Planned
<1> HIDE DEF s
<1>3. /\ todo'[a] = s /\ Left(a)' = From(s, 1)
      /\ \A b \in Accounts \ {a} : todo'[b] = todo[b] /\ Left(b)' = Left(b)
    BY <1>1 DEF TypeOK, Left
<1>4. fresh[a] = {} /\ {"tenant", "collection", "alias"} \cap From(s, 1) = {}
  <2>1. Left(a) = {}
      BY <1>1 DEF Left, From
  <2>2. {"tenant", "collection", "alias"} \cap CleanUp = {}
      BY DEF CleanUp
  <2>3. QED BY <1>2, <2>1, <2>2 DEF RequestInv
<1>5. TypeOK'
  <2>1. todo' \in [Accounts -> Seq(Steps)]
      BY <1>1, <1>2 DEF TypeOK
  <2>2. QED BY <1>1, <2>1 DEF TypeOK
<1>6. RequestInv'
  <2> SUFFICES ASSUME NEW b \in Accounts
               PROVE  /\ Planned(todo'[b])
                      /\ todo'[b] # <<>> => b \in row'
                      /\ Left(b)' \cap CleanUp # {} => b \in cleaning'
                      /\ fresh'[b] # {} => "link" \in Left(b)'
                      /\ "collection" \in Left(b)' => b \in Fulls
      BY DEF RequestInv, Idle
  <2>1. CASE b = a
      BY <1>1, <1>2, <1>3, <1>4, <2>1
  <2>2. CASE b # a
      BY <1>1, <1>3, <2>2 DEF RequestInv, Idle
  <2>3. QED BY <2>1, <2>2
<1>7. EndpointInv'
    BY <1>1 DEF EndpointInv
<1>8. TenantInv'
  <2>1. ServedIsWhole'
      BY <1>1 DEF TenantInv, ServedIsWhole, Needed
  <2>2. NeedsInv'
      BY <1>1, <1>3, <1>4 DEF TenantInv, NeedsInv, Needed
  <2>3. QED BY <2>1, <2>2 DEF TenantInv
<1>9. RemainsInv'
    BY <1>1, <1>2, <1>3 DEF RemainsInv
<1>10. AliasInv'
    BY <1>1, <1>3 DEF AliasInv, Accounts
<1>11. GoneLeavesNothing'
    BY <1>1 DEF GoneLeavesNothing
<1>12. QED BY <1>5, <1>6, <1>7, <1>8, <1>9, <1>10, <1>11

LEMMA FailKeeps ==
    ASSUME TenantsInv, NEW a \in Accounts, Fail(a)
    PROVE  TenantsInv'
<1> USE DEF TenantsInv
<1>1. /\ todo[a] # <<>>
      /\ todo' = [todo EXCEPT ![a] = <<>>]
      /\ fresh' = [fresh EXCEPT ![a] = {}]
      /\ wanted' = [s \in SearchOnly |-> IF s = a THEN {} ELSE wanted[s]]
      /\ torn' = IF ToSet(todo[a]) \cap {"link", "alias"} # {}
                 THEN torn \cup {a} ELSE torn
      /\ UNCHANGED <<used, row, links, endpoints, full, collections, alias>>
      /\ UNCHANGED <<removals, containers, schemas, cleaning, undropped>>
    BY DEF Fail, Idle, dbVars, solrVars, otherVars
<1>2. /\ todo'[a] = <<>> /\ Left(a)' = {}
      /\ \A b \in Accounts \ {a} : todo'[b] = todo[b] /\ Left(b)' = Left(b)
      /\ Planned(<<>>)
    BY <1>1, NothingPlanned DEF TypeOK, Left, From, IsPlan
<1>3. a \in torn' \/ (torn' = torn /\ Left(a) \cap {"link", "alias"} = {})
  <2>1. ToSet(todo[a]) = Left(a)
    <3>1. todo[a] \in Seq(Steps)
        BY DEF TypeOK
    <3>2. DOMAIN todo[a] = 1..Len(todo[a])
        BY <3>1, LenProperties
    <3>3. QED BY <3>2 DEF ToSet, Left, From
  <2>2. QED BY <1>1, <2>1
<1>4. a \in row /\ torn \subseteq torn'
    BY <1>1 DEF RequestInv, Idle
<1>5. TypeOK'
  <2>1. todo' \in [Accounts -> Seq(Steps)]
      BY <1>1 DEF TypeOK
  <2>2. QED BY <1>1, <2>1 DEF TypeOK
<1>6. RequestInv'
  <2> SUFFICES ASSUME NEW b \in Accounts
               PROVE  /\ Planned(todo'[b])
                      /\ todo'[b] # <<>> => b \in row'
                      /\ Left(b)' \cap CleanUp # {} => b \in cleaning'
                      /\ fresh'[b] # {} => "link" \in Left(b)'
                      /\ "collection" \in Left(b)' => b \in Fulls
      BY DEF RequestInv, Idle
  <2>1. CASE b = a
      BY <1>1, <1>2, <2>1 DEF TypeOK
  <2>2. CASE b # a
      BY <1>1, <1>2, <2>2 DEF RequestInv, Idle, TypeOK
  <2>3. QED BY <2>1, <2>2
<1>7. EndpointInv'
  <2> SUFFICES ASSUME NEW b \in Accounts, NEW k \in Kinds,
                      <<b, k>> \in endpoints', b \notin torn'
               PROVE  k \in links'[b] \cup fresh'[b]
      BY DEF EndpointInv
  <2>1. k \in links[b] \cup fresh[b]
      BY <1>1, <1>4 DEF EndpointInv
  <2>2. CASE b = a
    <3>1. fresh[a] = {}
        BY <1>3, <2>2 DEF RequestInv
    <3>2. QED BY <1>1, <2>1, <2>2, <3>1
  <2>3. CASE b # a
      BY <1>1, <2>1, <2>3 DEF TypeOK
  <2>4. QED BY <2>2, <2>3
<1>8. TenantInv'
  <2>1. ServedIsWhole'
      BY <1>1 DEF TenantInv, ServedIsWhole, Needed
  <2>2. NeedsInv'
      BY <1>1, <1>2 DEF TenantInv, NeedsInv, Needed, TypeOK
  <2>3. QED BY <2>1, <2>2 DEF TenantInv
<1>9. RemainsInv'
    BY <1>1, <1>2 DEF RemainsInv
<1>10. AliasInv'
  <2> SUFFICES ASSUME NEW b \in row \cap SearchOnly, b \notin cleaning \cup torn'
               PROVE  full[b] \subseteq IF "alias" \in Left(b)' THEN wanted'[b]
                                                                ELSE alias[b]
      BY <1>1 DEF AliasInv
  <2>1. full[b] \subseteq IF "alias" \in Left(b) THEN wanted[b] ELSE alias[b]
      BY <1>4 DEF AliasInv
  <2>2. CASE b = a
      BY <1>2, <1>3, <2>1, <2>2
  <2>3. CASE b # a
      BY <1>1, <1>2, <2>1, <2>3 DEF Accounts
  <2>4. QED BY <2>2, <2>3
<1>11. GoneLeavesNothing'
    BY <1>1, <1>4 DEF GoneLeavesNothing
<1>12. QED BY <1>5, <1>6, <1>7, <1>8, <1>9, <1>10, <1>11

LEMMA RemoveSolrCollectionKeeps ==
    ASSUME TenantsInv, NEW a \in Accounts, RemoveSolrCollection(a)
    PROVE  TenantsInv'
<1> USE DEF TenantsInv
<1>1. /\ a \in removals /\ removals' = removals \ {a}
      /\ collections' = collections \ {a}
      /\ alias' = [s \in SearchOnly |-> IF s = a THEN {} ELSE alias[s]]
      /\ UNCHANGED <<used, row, links, endpoints, full, fresh, wanted, todo>>
      /\ UNCHANGED <<containers, schemas, cleaning, torn, undropped>>
    BY DEF RemoveSolrCollection, dbVars, otherVars, requestVars, noteVars
<1>2. \A b \in Accounts : Left(b)' = Left(b)
    BY <1>1 DEF Left
<1>3. TypeOK'
    BY <1>1 DEF TypeOK
<1>4. RequestInv'
    BY <1>1, <1>2 DEF RequestInv, Idle
<1>5. EndpointInv'
    BY <1>1 DEF EndpointInv
<1>6. TenantInv'
  <2>1. ServedIsWhole'
      BY <1>1 DEF TenantInv, ServedIsWhole, Needed
  <2>2. NeedsInv'
      BY <1>1, <1>2 DEF TenantInv, NeedsInv, Needed
  <2>3. QED BY <2>1, <2>2 DEF TenantInv
<1>7. RemainsInv'
    BY <1>1, <1>2 DEF RemainsInv
<1>8. AliasInv'
    BY <1>1, <1>2 DEF AliasInv, Accounts, TypeOK
<1>9. GoneLeavesNothing'
    BY <1>1 DEF GoneLeavesNothing
<1>10. QED BY <1>3, <1>4, <1>5, <1>6, <1>7, <1>8, <1>9

-----------------------------------------------------------------------------
(* Solr collections *)

\* A step of a request keeps CollectionInv if the account keeps its Solr endpoint.
LEMMA CollectionsKept ==
    ASSUME TypeOK, RequestInv, CollectionInv,
           NEW a \in Accounts, NEW step, Take(a, step), step # "queue removal",
           UNCHANGED <<used, row, torn, collections, removals>>,
           \A b \in Accounts : "solr" \in links[b] \cup fresh[b]
                                  => "solr" \in links'[b] \cup fresh'[b],
           step = "solr" => "solr" \in fresh'[a]
    PROVE  CollectionInv'
<1> SUFFICES ASSUME NEW b \in Fulls \ torn, b \in collections \ removals
             PROVE  /\ b \in row
                    /\ "solr" \in links'[b] \cup fresh'[b] \cup Left(b)'
                    /\ "destroy" \in Left(b)' => "queue removal" \in Left(b)'
    BY DEF CollectionInv
<1>1. /\ b \in row /\ b \in Accounts
      /\ "solr" \in links[b] \cup fresh[b] \cup Left(b)
      /\ "destroy" \in Left(b) => "queue removal" \in Left(b)
    BY DEF CollectionInv, Accounts
<1>2. "solr" \in Steps /\ "destroy" \in Steps /\ "queue removal" \in Steps
    BY DEF Steps
<1>3. "solr" \in Left(b) => "solr" \in Left(b)' \/ "solr" \in fresh'[b]
  <2>1. "solr" \in Left(b) => "solr" \in Left(b)' \/ (b = a /\ step = "solr")
      BY <1>1, <1>2, OthersLeft
  <2>2. QED BY <2>1
<1>4. "destroy" \in Left(b)' => "queue removal" \in Left(b)'
    BY <1>1, <1>2, OthersLeft
<1>5. QED BY <1>1, <1>3, <1>4

\* The steps that leave the Solr endpoint and its collection alone.
LEMMA OtherStepsOrphanNone ==
    ASSUME TenantsInv, CollectionInv, NEW a \in Accounts,
           \/ CreateEndpoint(a) \/ SaveLinks(a) \/ CreateTenant(a)
           \/ EmptyFedora(a) \/ RemoveFcrepoRow(a) \/ RemoveRedisRow(a)
           \/ DropTenant(a)
           \/ a \in SearchOnly /\ (CreateAlias(a) \/ DeleteAlias(a))
    PROVE  CollectionInv'
<1> USE DEF TenantsInv
<1> DEFINE Kept == \A b \in Accounts : "solr" \in links[b] \cup fresh[b]
                                          => "solr" \in links'[b] \cup fresh'[b]
<1>1. CASE CreateEndpoint(a)
  <2>1. PICK k \in Kinds : Take(a, k) /\ fresh' = [fresh EXCEPT ![a] = fresh[a] \cup {k}]
      BY <1>1 DEF CreateEndpoint
  <2>2. UNCHANGED <<used, row, links, torn, collections, removals>>
      BY <1>1 DEF CreateEndpoint, solrVars, noteVars
  <2>3. k # "queue removal" /\ k \in fresh'[a] /\ Kept
      BY <2>1, <2>2 DEF Kinds, TypeOK
  <2>4. QED BY <2>1, <2>2, <2>3, CollectionsKept
<1>2. CASE SaveLinks(a)
  <2>1. /\ Take(a, "link")
        /\ UNCHANGED <<used, row, torn, collections, removals>>
        /\ links' = [links EXCEPT ![a] = links[a] \cup fresh[a]]
        /\ fresh' = [fresh EXCEPT ![a] = {}]
      BY <1>2 DEF SaveLinks, solrVars, noteVars
  <2>2. Kept
      BY <2>1 DEF TypeOK
  <2>3. QED BY <2>1, <2>2, CollectionsKept
<1>3. CASE CreateTenant(a)
  <2>1. /\ Take(a, "tenant")
        /\ UNCHANGED <<used, row, torn, collections, removals, links, fresh>>
      BY <1>3 DEF CreateTenant, dbVars, solrVars, noteVars
  <2>2. QED BY <2>1, CollectionsKept
<1>4. CASE EmptyFedora(a)
  <2>1. /\ Take(a, "empty fedora")
        /\ UNCHANGED <<used, row, torn, collections, removals, links, fresh>>
      BY <1>4 DEF EmptyFedora, dbVars, solrVars, noteVars
  <2>2. QED BY <2>1, CollectionsKept
<1>5. CASE RemoveFcrepoRow(a)
  <2>1. /\ Take(a, "remove fcrepo")
        /\ UNCHANGED <<used, row, torn, collections, removals, fresh>>
        /\ links' = [links EXCEPT ![a] = links[a] \ {"fcrepo"}]
      BY <1>5 DEF RemoveFcrepoRow, DestroyEndpoint, solrVars, noteVars
  <2>2. Kept
      BY <2>1 DEF TypeOK
  <2>3. QED BY <2>1, <2>2, CollectionsKept
<1>6. CASE RemoveRedisRow(a)
  <2>1. /\ Take(a, "remove redis")
        /\ UNCHANGED <<used, row, torn, collections, removals, fresh>>
        /\ links' = [links EXCEPT ![a] = links[a] \ {"redis"}] \/ links' = links
      BY <1>6 DEF RemoveRedisRow, DestroyEndpoint, dbVars, solrVars, noteVars
  <2>2. Kept
      BY <2>1 DEF TypeOK
  <2>3. QED BY <2>1, <2>2, CollectionsKept
<1>7. CASE DropTenant(a)
  <2>1. /\ Take(a, "drop")
        /\ UNCHANGED <<used, row, torn, collections, removals, links, fresh>>
      BY <1>7 DEF DropTenant, dbVars, solrVars
  <2>2. QED BY <2>1, CollectionsKept
<1>8. CASE CreateAlias(a) \/ DeleteAlias(a)
  <2>1. /\ Take(a, "alias") \/ Take(a, "unalias")
        /\ UNCHANGED <<used, row, torn, collections, removals, links, fresh>>
      BY <1>8 DEF CreateAlias, DeleteAlias, dbVars, noteVars
  <2>2. QED BY <2>1, CollectionsKept
<1>9. QED BY <1>1, <1>2, <1>3, <1>4, <1>5, <1>6, <1>7, <1>8

\* The collection is made before its endpoint.
LEMMA CreateCollectionOrphansNone ==
    ASSUME TenantsInv, CollectionInv, NEW a \in Accounts, CreateCollection(a)
    PROVE  CollectionInv'
<1> USE DEF TenantsInv
<1>1. /\ Take(a, "collection")
      /\ UNCHANGED <<used, row, links, fresh, removals, torn>>
      /\ collections' = collections \cup {a}
    BY DEF CreateCollection, dbVars, noteVars
<1>2. a \in row /\ "solr" \in Left(a)' /\ "destroy" \notin Left(a)'
  <2>1. /\ a \in row
        /\ \A y \in Left(a)' : MayPrecede("collection", y)
        /\ Followed("collection", Left(a)')
      BY <1>1, TakenStep
  <2>2. "solr" \in Left(a)'
      BY <2>1 DEF Followed
  <2>3. ~MayPrecede("collection", "destroy")
      BY DEF MayPrecede, CleanUp
  <2>4. QED BY <2>1, <2>2, <2>3
<1>3. \A b \in Accounts \ {a} : Left(b)' = Left(b)
    BY <1>1, TakenStep
<1>4. collections' \subseteq used'
    BY <1>1, <1>2 DEF CollectionInv, TypeOK
<1>5. ASSUME NEW b \in Fulls \ torn, b \in collections' \ removals
      PROVE  /\ b \in row
             /\ "solr" \in links[b] \cup fresh[b] \cup Left(b)'
             /\ "destroy" \in Left(b)' => "queue removal" \in Left(b)'
  <2>1. CASE b = a
      BY <1>2, <2>1
  <2>2. CASE b # a
    <3>1. b \in collections \ removals
        BY <1>1, <1>5, <2>2
    <3>2. Left(b)' = Left(b)
        BY <1>3, <2>2 DEF Accounts
    <3>3. QED BY <3>1, <3>2 DEF CollectionInv
  <2>3. QED BY <2>1, <2>2
<1>6. QED BY <1>1, <1>4, <1>5 DEF CollectionInv

LEMMA QueueRemovalOrphansNone ==
    ASSUME TenantsInv, CollectionInv, NEW a \in Accounts, QueueRemoval(a)
    PROVE  CollectionInv'
<1> USE DEF TenantsInv
<1>1. /\ Take(a, "queue removal")
      /\ UNCHANGED <<used, row, links, fresh, collections, torn>>
      /\ removals' = removals \cup {a}
    BY DEF QueueRemoval, dbVars, noteVars
<1>2. \A b \in Accounts \ {a} : Left(b)' = Left(b)
    BY <1>1, TakenStep
<1>3. QED BY <1>1, <1>2 DEF CollectionInv, Accounts

\* The endpoint's row is destroyed after the job was queued.
LEMMA RemoveSolrRowOrphansNone ==
    ASSUME TenantsInv, CollectionInv, NEW a \in Accounts, RemoveSolrRow(a)
    PROVE  CollectionInv'
<1> USE DEF TenantsInv
<1>1. /\ Take(a, "remove solr")
      /\ UNCHANGED <<used, row, fresh, collections, removals, torn>>
      /\ links' = [links EXCEPT ![a] = links[a] \ {"solr"}]
    BY DEF RemoveSolrRow, DestroyEndpoint, solrVars, noteVars
<1>2. "destroy" \in Left(a) /\ "queue removal" \notin Left(a)
  <2>1. /\ Left(a) = {"remove solr"} \cup Left(a)'
        /\ \A y \in Left(a)' : MayPrecede("remove solr", y)
        /\ Followed("remove solr", Left(a)')
      BY <1>1, TakenStep
  <2>2. "destroy" \in Left(a)'
      BY <2>1 DEF Followed, CleanUp
  <2>3. ~MayPrecede("remove solr", "queue removal")
      BY DEF MayPrecede
  <2>4. QED BY <2>1, <2>2, <2>3
<1>3. a \in Fulls \ torn => a \notin collections \ removals
    BY <1>2 DEF CollectionInv
<1>4. \A b \in Accounts \ {a} : Left(b)' = Left(b) /\ links'[b] = links[b]
    BY <1>1, TakenStep DEF TypeOK
<1>5. QED BY <1>1, <1>3, <1>4 DEF CollectionInv, Accounts

LEMMA DestroyAccountOrphansNone ==
    ASSUME TenantsInv, CollectionInv, NEW a \in Accounts, DestroyAccount(a)
    PROVE  CollectionInv'
<1> USE DEF TenantsInv
<1>1. /\ Take(a, "destroy")
      /\ UNCHANGED <<used, collections, removals, fresh, torn>>
      /\ row' = row \ {a}
      /\ links' = [links EXCEPT ![a] = {}]
    BY DEF DestroyAccount, solrVars, noteVars
<1>2. "destroy" \in Left(a) /\ "queue removal" \notin Left(a)
  <2>1. /\ Left(a) = {"destroy"} \cup Left(a)'
        /\ \A y \in Left(a)' : MayPrecede("destroy", y)
      BY <1>1, TakenStep
  <2>2. \A y : ~MayPrecede("destroy", y)
      BY DEF MayPrecede
  <2>3. QED BY <2>1, <2>2
<1>3. a \in Fulls \ torn => a \notin collections \ removals
    BY <1>2 DEF CollectionInv
<1>4. \A b \in Accounts \ {a} : Left(b)' = Left(b) /\ links'[b] = links[b]
    BY <1>1, TakenStep DEF TypeOK
<1>5. QED BY <1>1, <1>3, <1>4 DEF CollectionInv, Accounts

\* An account that is new has no collection: its uuid is fresh.
LEMMA CreateAccountOrphansNone ==
    ASSUME TenantsInv, CollectionInv, NEW a \in Accounts, NEW F, CreateAccount(a, F)
    PROVE  CollectionInv'
<1> USE DEF TenantsInv
<1> DEFINE s == CreationSteps(a, F)
<1>1. /\ a \notin used /\ used' = used \cup {a} /\ row' = row \cup {a}
      /\ todo' = [todo EXCEPT ![a] = s]
      /\ UNCHANGED <<links, fresh, collections, removals, torn>>
    BY DEF CreateAccount, solrVars, noteVars
<1> HIDE DEF s
<1>2. \A b \in Accounts \ {a} : Left(b)' = Left(b)
    BY <1>1 DEF Left, TypeOK
<1>3. a \notin collections
    BY <1>1 DEF CollectionInv
<1>4. QED BY <1>1, <1>2, <1>3 DEF CollectionInv, Accounts

LEMMA UpdateSearchOrphansNone ==
    ASSUME TenantsInv, CollectionInv, NEW a \in SearchOnly, NEW F, UpdateSearch(a, F)
    PROVE  CollectionInv'
<1> USE DEF TenantsInv
<1> DEFINE s == AliasSteps(F, "solr" \in links[a])
<1>1. /\ todo' = [todo EXCEPT ![a] = s]
      /\ links' = [links EXCEPT ![a] = links[a] \cup {"datacite"}]
      /\ UNCHANGED <<used, row, fresh, collections, removals, torn>>
    BY DEF UpdateSearch, solrVars, noteVars
<1> HIDE DEF s
<1>2. \A b \in Accounts \ {a} : Left(b)' = Left(b) /\ links'[b] = links[b]
    BY <1>1 DEF Left, TypeOK
<1>3. a \notin Fulls
    BY TenantAssumption
<1>4. QED BY <1>1, <1>2, <1>3 DEF CollectionInv, Accounts

\* A clean-up that starts again has the job queued again, unless the endpoint's row
\* is gone: then it was queued before.
LEMMA CleanupOrphansNone ==
    ASSUME TenantsInv, CollectionInv, NEW a \in Accounts, Cleanup(a)
    PROVE  CollectionInv'
<1> USE DEF TenantsInv
<1> DEFINE s == CleanupSteps(links[a])
<1>1. /\ todo[a] = <<>> /\ todo' = [todo EXCEPT ![a] = s]
      /\ UNCHANGED <<used, row, links, fresh, collections, removals, torn>>
    BY DEF Cleanup, Idle, dbVars, solrVars
<1>2. "solr" \in links[a] => "queue removal" \in From(s, 1)
    BY CleanupPlan
<1> HIDE DEF s
<1>3. Left(a)' = From(s, 1) /\ Left(a) = {} /\ fresh[a] = {}
  <2>1. Left(a) = {}
      BY <1>1 DEF Left, From
  <2>2. QED BY <1>1, <2>1 DEF Left, TypeOK, RequestInv
<1>4. \A b \in Accounts \ {a} : Left(b)' = Left(b)
    BY <1>1 DEF Left, TypeOK
<1>5. QED BY <1>1, <1>2, <1>3, <1>4 DEF CollectionInv, Accounts

\* A creation that dies before the endpoint's id is saved is torn; else the id is in
\* the account's row.
LEMMA FailOrphansNone ==
    ASSUME TenantsInv, CollectionInv, NEW a \in Accounts, Fail(a)
    PROVE  CollectionInv'
<1> USE DEF TenantsInv
<1>1. /\ todo' = [todo EXCEPT ![a] = <<>>]
      /\ fresh' = [fresh EXCEPT ![a] = {}]
      /\ torn' = IF ToSet(todo[a]) \cap {"link", "alias"} # {}
                 THEN torn \cup {a} ELSE torn
      /\ UNCHANGED <<used, row, links, collections, removals>>
    BY DEF Fail, dbVars, solrVars
<1>2. /\ Left(a)' = {}
      /\ \A b \in Accounts \ {a} : Left(b)' = Left(b) /\ fresh'[b] = fresh[b]
    BY <1>1 DEF TypeOK, Left, From
<1>3. a \notin torn' => "link" \notin Left(a)
  <2>1. ToSet(todo[a]) = Left(a)
    <3>1. DOMAIN todo[a] = 1..Len(todo[a])
        BY LenProperties DEF TypeOK
    <3>2. QED BY <3>1 DEF ToSet, Left, From
  <2>2. QED BY <1>1, <2>1
<1>4. a \notin torn' => "solr" \notin fresh[a] \cup Left(a)
  <2>1. "solr" \in Left(a) => "link" \in Left(a)
    <3>1. ASSUME NEW i \in 1..Len(todo[a]), todo[a][i] = "solr"
          PROVE  "link" \in Left(a)
      <4>1. Followed("solr", From(todo[a], i + 1))
          BY <3>1 DEF RequestInv, Planned
      <4>2. "link" \in From(todo[a], i + 1)
          BY <4>1 DEF Followed, Kinds
      <4>3. Len(todo[a]) \in Nat
          BY LenProperties DEF TypeOK
      <4>4. QED BY <4>2, <4>3 DEF Left, From
    <3>2. QED BY <3>1 DEF Left, From
  <2>2. QED BY <1>3, <2>1 DEF RequestInv
<1>5. torn \subseteq torn'
    BY <1>1
<1>6. ASSUME NEW b \in Fulls \ torn', b \in collections \ removals
      PROVE  /\ b \in row
             /\ "solr" \in links[b] \cup fresh'[b] \cup Left(b)'
             /\ "destroy" \in Left(b)' => "queue removal" \in Left(b)'
  <2>1. /\ b \in row /\ b \in Accounts
        /\ "solr" \in links[b] \cup fresh[b] \cup Left(b)
        /\ "destroy" \in Left(b) => "queue removal" \in Left(b)
      BY <1>5, <1>6 DEF CollectionInv, Accounts
  <2>2. CASE b = a
      BY <1>2, <1>4, <1>6, <2>1, <2>2
  <2>3. CASE b # a
      BY <1>2, <2>1, <2>3
  <2>4. QED BY <2>2, <2>3
<1>7. QED BY <1>1, <1>6 DEF CollectionInv

LEMMA RemoveSolrCollectionOrphansNone ==
    ASSUME TenantsInv, CollectionInv, NEW a \in Accounts, RemoveSolrCollection(a)
    PROVE  CollectionInv'
<1>1. /\ removals' = removals \ {a} /\ collections' = collections \ {a}
      /\ UNCHANGED <<used, row, links, fresh, todo, torn>>
    BY DEF RemoveSolrCollection, dbVars, requestVars, noteVars
<1>2. \A b : Left(b)' = Left(b)
    BY <1>1 DEF Left
<1>3. QED BY <1>1, <1>2 DEF CollectionInv

LEMMA CollectionsFollowed ==
    TenantsInv /\ CollectionInv /\ [Next]_vars => CollectionInv'
<1> SUFFICES ASSUME TenantsInv, CollectionInv, [Next]_vars PROVE CollectionInv'
    OBVIOUS
<1>1. CASE UNCHANGED vars
  <2>1. UNCHANGED <<used, row, links, fresh, todo, collections, removals, torn>>
      BY <1>1 DEF vars, dbVars, solrVars, requestVars, noteVars
  <2>2. \A b : Left(b)' = Left(b)
      BY <2>1 DEF Left
  <2>3. QED BY <2>1, <2>2 DEF CollectionInv
<1>2. ASSUME NEW a \in Accounts, NEW F \in SUBSET (row \cap Fulls), CreateAccount(a, F)
      PROVE  CollectionInv'
    BY <1>2, CreateAccountOrphansNone
<1>3. ASSUME NEW a \in Accounts,
             Cleanup(a) \/ Fail(a) \/ RemoveSolrCollection(a)
      PROVE  CollectionInv'
    BY <1>3, CleanupOrphansNone, FailOrphansNone, RemoveSolrCollectionOrphansNone
<1>4. ASSUME NEW a \in Accounts, Step(a) PROVE CollectionInv'
    BY <1>4, CreateCollectionOrphansNone, QueueRemovalOrphansNone,
       RemoveSolrRowOrphansNone, DestroyAccountOrphansNone, OtherStepsOrphanNone
    DEF Step
<1>5. ASSUME NEW s \in SearchOnly,
             \/ \E F \in SUBSET (row \cap Fulls) : UpdateSearch(s, F)
             \/ CreateAlias(s)
             \/ DeleteAlias(s)
      PROVE  CollectionInv'
  <2>1. s \in Accounts
      BY DEF Accounts
  <2>2. QED BY <1>5, <2>1, UpdateSearchOrphansNone, OtherStepsOrphanNone
<1>6. QED BY <1>1, <1>2, <1>3, <1>4, <1>5 DEF Next

-----------------------------------------------------------------------------
(* Theorems *)

LEMMA NothingYet == Init => TenantsInv
<1> SUFFICES ASSUME Init PROVE TenantsInv
    OBVIOUS
<1>1. \A a \in Accounts : todo[a] = <<>> /\ Left(a) = {}
    BY DEF Init, Left, From
<1>2. TypeOK
    BY DEF Init, TypeOK
<1>3. RequestInv
    BY <1>1, NothingPlanned DEF Init, RequestInv, Idle, IsPlan
<1>4. EndpointInv /\ TenantInv /\ RemainsInv
    BY <1>1 DEF Init, EndpointInv, TenantInv, ServedIsWhole, NeedsInv, RemainsInv
<1>5. AliasInv /\ GoneLeavesNothing
    BY DEF Init, AliasInv, GoneLeavesNothing
<1>6. QED BY <1>2, <1>3, <1>4, <1>5 DEF TenantsInv

LEMMA TenantsKept == TenantsInv /\ [Next]_vars => TenantsInv'
<1> SUFFICES ASSUME TenantsInv, [Next]_vars PROVE TenantsInv'
    OBVIOUS
<1>1. CASE UNCHANGED vars
  <2>1. /\ UNCHANGED <<used, row, links, endpoints, full, collections, alias>>
        /\ UNCHANGED <<removals, containers, schemas, fresh, wanted, todo>>
        /\ UNCHANGED <<cleaning, torn, undropped>>
      BY <1>1 DEF vars, dbVars, solrVars, otherVars, requestVars, noteVars
  <2>2. \A b : Left(b)' = Left(b)
      BY <2>1 DEF Left
  <2>3. QED
      BY <2>1, <2>2
      DEF TenantsInv, TypeOK, RequestInv, Idle, EndpointInv, TenantInv, ServedIsWhole,
          NeedsInv, Needed, RemainsInv, AliasInv, GoneLeavesNothing
<1>2. ASSUME NEW a \in Accounts, NEW F \in SUBSET (row \cap Fulls),
             a \in SearchOnly \/ F = {}, CreateAccount(a, F)
      PROVE  TenantsInv'
    BY <1>2, CreateAccountKeeps
<1>3. ASSUME NEW a \in Accounts,
             Cleanup(a) \/ Fail(a) \/ RemoveSolrCollection(a)
      PROVE  TenantsInv'
    BY <1>3, CleanupKeeps, FailKeeps, RemoveSolrCollectionKeeps
<1>4. ASSUME NEW a \in Accounts, Step(a) PROVE TenantsInv'
    BY <1>4, CreateCollectionKeeps, CreateEndpointKeeps, SaveLinksKeeps, CreateTenantKeeps,
       QueueRemovalKeeps, RemoveSolrRowKeeps, EmptyFedoraKeeps, RemoveFcrepoRowKeeps,
       RemoveRedisRowKeeps, DropTenantKeeps, DestroyAccountKeeps
    DEF Step
<1>5. ASSUME NEW s \in SearchOnly,
             \/ \E F \in SUBSET (row \cap Fulls) : UpdateSearch(s, F)
             \/ CreateAlias(s)
             \/ DeleteAlias(s)
      PROVE  TenantsInv'
    BY <1>5, UpdateSearchKeeps, CreateAliasKeeps, DeleteAliasKeeps
<1>6. QED BY <1>1, <1>2, <1>3, <1>4, <1>5 DEF Next

LEMMA TenantsAlways == Spec => []TenantsInv
    BY NothingYet, TenantsKept, PTL DEF Spec

\* Tables, Solr, Fedora and requests keep their types, for any accounts.
THEOREM TenantsTyped == Spec => []TypeOK
<1>1. TenantsInv => TypeOK
    BY DEF TenantsInv
<1>2. QED BY <1>1, TenantsAlways, PTL

\* A schema exists only with all endpoints saved in the account's row, up to the
\* clean-up: the tenant is created last, after the ids are saved.
THEOREM WholeWhenServed == Spec => []ServedIsWhole
<1>1. TenantsInv => ServedIsWhole
    BY DEF TenantsInv, TenantInv
<1>2. QED BY <1>1, TenantsAlways, PTL

\* However often a clean-up dies and is asked for again, a destroyed account
\* leaves no endpoint, no container and no schema, but for a torn creation and a
\* drop that failed.
THEOREM NothingStays == Spec => []GoneLeavesNothing
<1>1. TenantsInv => GoneLeavesNothing
    BY DEF TenantsInv
<1>2. QED BY <1>1, TenantsAlways, PTL

\* An alias names all the full accounts that a cross-search tenant should search,
\* whatever accounts are destroyed, when no request is at work on it.
THEOREM AliasIsComplete == Spec => []SearchesAll
<1>1. TenantsInv => SearchesAll
  <2> SUFFICES ASSUME TenantsInv, NEW s \in row \cap SearchOnly, Idle(s),
                      s \notin cleaning \cup torn
               PROVE  full[s] \subseteq alias[s]
      BY DEF SearchesAll
  <2>1. Left(s) = {}
      BY DEF Idle, Left, From
  <2>2. QED BY <2>1 DEF TenantsInv, AliasInv
<1>2. QED BY <1>1, TenantsAlways, PTL

\* The Solr collection that a destroyed account left behind has its removal queued,
\* wherever clean-ups died, for any accounts.
THEOREM NoneIsOrphaned == Spec => []NoneOrphaned
<1>1. Init => CollectionInv
    BY DEF Init, CollectionInv
<1>2. CollectionInv => NoneOrphaned
    BY DEF CollectionInv, NoneOrphaned
<1>3. QED BY <1>1, <1>2, TenantsAlways, CollectionsFollowed, PTL DEF Spec

=============================================================================
