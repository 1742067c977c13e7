--------------------------- MODULE CdlPipelineProofs ---------------------------
(* Theorems of CdlPipeline, for every number of works and PDFs, every bound  *)
(* on retries and any number of errors: above all that the jobs implement    *)
(* CdlGroupLife, on which the theorems of CdlLending rest.                   *)
EXTENDS CdlPipeline, FiniteSetTheorems, WellFoundedInduction, TLAPS

LEMMA TypesStart == Init => TypeOK
  BY PipelineAssumption DEF Init, TypeOK, Jobs, Places

LEMMA SplittingTypes ==
  ASSUME TypeOK, NEW w \in Works, NEW f \in Pdfs,
         \/ SplitPdf(w, f) \/ CreatePages(w, f)
         \/ CreateRelationships(w, f) \/ DestroySplitPages(w, f)
  PROVE  TypeOK'
  <1>1. <<w, f>> \in Jobs
    BY DEF Jobs
  <1>2. CASE SplitPdf(w, f)
    BY <1>1, <1>2 DEF SplitPdf, TypeOK, jobVars, shareVars, doomVars
  <1>3. CASE CreatePages(w, f)
    BY <1>3 DEF CreatePages, TypeOK, jobVars, shareVars, doomVars
  <1>4. CASE CreateRelationships(w, f)
    <2>1. at' \in [Jobs -> Places] /\ attached' \in [Works -> SUBSET Pdfs]
          /\ pending' \in [Works -> SUBSET Pdfs] /\ relating' \subseteq Jobs
      BY <1>1, <1>4 DEF CreateRelationships, TypeOK, Places
    <2> QED BY <1>4, <2>1 DEF CreateRelationships, TypeOK, shareVars, doomVars
  <1>5. CASE DestroySplitPages(w, f)
    BY <1>5 DEF DestroySplitPages, TypeOK, jobVars
  <1> QED BY <1>2, <1>3, <1>4, <1>5

LEMMA WorkTypes ==
  ASSUME TypeOK, NEW w \in Works,
         DepositCdl(w) \/ Characterize(w) \/ DestroyCdl(w) \/ DestroyCdlGroup(w)
  PROVE  TypeOK'
  BY DEF DepositCdl, Characterize, DestroyCdl, DestroyCdlGroup, TypeOK, splitVars, jobVars,
         shareVars, doomVars

LEMMA JobTypes ==
  ASSUME TypeOK, NEW j \in Jobs, GroupJob(j) \/ JobError(j)
  PROVE  TypeOK'
  <1>1. j[1] \in Works
    BY DEF Jobs
  <1>2. CASE CheckPages(j)
    <2>1. at' \in [Jobs -> Places] /\ batch' \in [Jobs -> SUBSET Pdfs]
      BY <1>1, <1>2 DEF CheckPages, TypeOK, Places, Members
    <2>2. retries' \in [Jobs -> 0..(RETRY_MAX + 1)]
      BY <1>2, PipelineAssumption DEF CheckPages, TypeOK, MayRetry, NextArgument
    <2> QED BY <1>2, <2>1, <2>2 DEF CheckPages, TypeOK, splitVars, shareVars, doomVars
  <1>3. CASE CreateGroup(j)
    BY <1>1, <1>3 DEF CreateGroup, TypeOK, Places, splitVars, shareVars, doomVars
  <1>4. CASE SharePages(j)
    BY <1>1, <1>4 DEF SharePages, TypeOK, Places, splitVars, doomVars
  <1>5. CASE SaveWork(j)
    BY <1>1, <1>5 DEF SaveWork, TypeOK, Places, splitVars, doomVars
  <1>6. CASE JobError(j)
    BY <1>6, PipelineAssumption DEF JobError, TypeOK, Places, splitVars, shareVars, doomVars
  <1> QED BY <1>2, <1>3, <1>4, <1>5, <1>6 DEF GroupJob

LEMMA TypesStep ==
  ASSUME TypeOK, [Next]_vars
  PROVE  TypeOK'
  <1>1. CASE UNCHANGED vars
    BY <1>1 DEF vars, splitVars, jobVars, shareVars, doomVars, TypeOK
  <1> QED BY <1>1, SplittingTypes, WorkTypes, JobTypes DEF Next

\* Works, jobs and what they share keep their types, whatever runs at a time.
THEOREM PipelineTyped == Spec => []TypeOK
  BY TypesStart, TypesStep, PTL DEF Spec

-----------------------------------------------------------------------------
(* The life of the group *)

\* Where one group job is going, the works that jobs are building change by its
\* own work at most.
LEMMA OneBuilder ==
  ASSUME TypeOK, NEW j \in Jobs, NEW place \in Places, at' = [at EXCEPT ![j] = place]
  PROVE  /\ j[1] \in Works
         /\ at[j] = "create" => j[1] \in Building
         /\ place = "create" => Building' = Building \cup {j[1]}
         /\ place # "create" => Building' = Building \/ Building' = Building \ {j[1]}
         /\ place # "create" /\ at[j] # "create" => Building' = Building
  <1>1. PICK w \in Works, f \in Pdfs : j = <<w, f>>
    BY DEF Jobs
  <1>2. j[1] = w
    BY <1>1
  <1>3. \A v \in Works, g \in Pdfs :
           /\ <<v, g>> \in Jobs
           /\ at'[<<v, g>>] = IF v = w /\ g = f THEN place ELSE at[<<v, g>>]
    BY <1>1 DEF TypeOK, Jobs
  <1>4. \A v \in Works : v # w => (v \in Building' <=> v \in Building)
    BY <1>3 DEF Building
  <1>5. Building \subseteq Works /\ Building' \subseteq Works
    BY DEF Building
  <1>6. at[j] = "create" => w \in Building
    BY <1>1 DEF Building
  <1>7. place = "create" => w \in Building'
    BY <1>3 DEF Building
  <1>8. place # "create" /\ at[j] # "create" => (w \in Building' <=> w \in Building)
    BY <1>1, <1>3 DEF Building
  <1> QED BY <1>2, <1>4, <1>5, <1>6, <1>7, <1>8

LEMMA SameBuilders ==
  ASSUME UNCHANGED at
  PROVE  Building' = Building
  BY DEF Building

LEMMA LifeStart == Init => Life!LifeInit
  <1> SUFFICES ASSUME Init PROVE Life!LifeInit
    OBVIOUS
  <1>1. Building = {}
    BY DEF Init, Building, Jobs
  <1> QED BY <1>1 DEF Init, Life!LifeInit

\* Steps of the jobs that make the group: it begins to be built, is made, or
\* a job of its work ends; sharing shows nothing of the group's life.
LEMMA JobLives ==
  ASSUME TypeOK, NEW j \in Jobs, GroupJob(j) \/ JobError(j)
  PROVE  [Life!LifeNext]_(Life!lifeVars)
  <1> DEFINE w == j[1]
  <1>1. w \in Works
    BY DEF Jobs
  <1>2. CASE CheckPages(j)
    <2>1. CASE at' = [at EXCEPT ![j] = "create"] /\ Found(w)
      <3>1. Building' = Building \cup {w}
        BY <2>1, OneBuilder DEF Places
      <3>2. Life!BuildStart(w)
        BY <1>2, <2>1, <3>1 DEF CheckPages, Life!BuildStart, Found, doomVars
      <3> QED BY <1>1, <3>2 DEF Life!LifeNext
    <2>2. CASE UNCHANGED at \/ at' = [at EXCEPT ![j] = "none"]
      <3>1. at[j] # "create"
        BY <1>2 DEF CheckPages
      <3>2. Building' = Building
        BY <2>2, <3>1, OneBuilder, SameBuilders DEF Places
      <3> QED BY <1>2, <3>2 DEF CheckPages, Life!lifeVars, doomVars
    <2> QED BY <1>2, <2>1, <2>2 DEF CheckPages
  <1>3. CASE CreateGroup(j)
    <2>1. /\ at' = [at EXCEPT ![j] = "share"] /\ at[j] = "create"
          /\ UNCHANGED <<work, dooming>>
      BY <1>3 DEF CreateGroup, doomVars
    <2>2. w \in Building /\ (Building' = Building \/ Building' = Building \ {w})
      BY <2>1, OneBuilder DEF Places
    <2>3. CASE NoGroup(w)
      <3>1. Life!BuildGroup(w)
        BY <1>3, <2>1, <2>2, <2>3 DEF CreateGroup, NoGroup, Life!BuildGroup
      <3> QED BY <1>1, <3>1 DEF Life!LifeNext
    <2>4. CASE ~NoGroup(w)
      <3>1. UNCHANGED <<group, born>>
        BY <1>3, <2>4 DEF CreateGroup
      <3>2. CASE Building' = Building
        BY <2>1, <3>1, <3>2 DEF Life!lifeVars
      <3>3. CASE Building' = Building \ {w}
        <4>1. Life!BuildEnd(w)
          BY <2>1, <2>2, <3>1, <3>3 DEF Life!BuildEnd
        <4> QED BY <1>1, <4>1 DEF Life!LifeNext
      <3> QED BY <2>2, <3>2, <3>3
    <2> QED BY <2>3, <2>4
  <1>4. CASE SharePages(j) \/ SaveWork(j) \/ JobError(j)
    <2>1. /\ \E place \in Places : place # "create" /\ at' = [at EXCEPT ![j] = place]
          /\ UNCHANGED <<work, group, born, dooming>>
      BY <1>4 DEF SharePages, SaveWork, JobError, Places, doomVars
    <2>2. Building' = Building \/ Building' = Building \ {w}
      BY <2>1, OneBuilder
    <2>3. CASE Building' = Building
      BY <2>1, <2>3 DEF Life!lifeVars
    <2>4. CASE Building' # Building
      <3>1. w \in Building /\ Building' = Building \ {w}
        BY <2>2, <2>4
      <3>2. Life!BuildEnd(w)
        BY <2>1, <3>1 DEF Life!BuildEnd
      <3> QED BY <1>1, <3>2 DEF Life!LifeNext
    <2> QED BY <2>3, <2>4
  <1> QED BY <1>2, <1>3, <1>4 DEF GroupJob

LEMMA WorkLives ==
  ASSUME TypeOK, NEW w \in Works,
         DepositCdl(w) \/ Characterize(w) \/ DestroyCdl(w) \/ DestroyCdlGroup(w)
  PROVE  [Life!LifeNext]_(Life!lifeVars)
  <1>1. Building' = Building
    BY SameBuilders DEF DepositCdl, Characterize, DestroyCdl, DestroyCdlGroup, jobVars
  <1>2. CASE DepositCdl(w)
    BY <1>1, <1>2 DEF DepositCdl, Life!Deposit, Life!LifeNext, doomVars
  <1>3. CASE Characterize(w)
    BY <1>1, <1>3 DEF Characterize, Life!lifeVars, doomVars
  <1>4. CASE DestroyCdl(w)
    BY <1>1, <1>4 DEF DestroyCdl, Life!Withdraw, Life!LifeNext
  <1>5. CASE DestroyCdlGroup(w)
    BY <1>1, <1>5 DEF DestroyCdlGroup, Life!DestroyGroup, Life!LifeNext
  <1> QED BY <1>2, <1>3, <1>4, <1>5

\* Of splitting the group's life shows only that a job which is queued anew
\* builds no more.
LEMMA SplittingLives ==
  ASSUME TypeOK, NEW w \in Works, NEW f \in Pdfs,
         \/ SplitPdf(w, f) \/ CreatePages(w, f)
         \/ CreateRelationships(w, f) \/ DestroySplitPages(w, f)
  PROVE  [Life!LifeNext]_(Life!lifeVars)
  <1>1. <<w, f>> \in Jobs
    BY DEF Jobs
  <1>2. /\ UNCHANGED <<work, group, born, dooming>>
        /\ at' = at \/ at' = [at EXCEPT ![<<w, f>>] = "queued"]
    BY DEF SplitPdf, CreatePages, CreateRelationships, DestroySplitPages, jobVars, doomVars
  <1>3. Building' = Building \/ Building' = Building \ {w}
    BY <1>1, <1>2, OneBuilder, SameBuilders DEF Places
  <1>4. CASE Building' = Building
    BY <1>2, <1>4 DEF Life!lifeVars
  <1>5. CASE Building' # Building
    <2>1. w \in Building /\ Building' = Building \ {w}
      BY <1>3, <1>5
    <2>2. Life!BuildEnd(w)
      BY <1>2, <2>1 DEF Life!BuildEnd
    <2> QED BY <2>2 DEF Life!LifeNext
  <1> QED BY <1>4, <1>5

LEMMA LifeStep ==
  ASSUME TypeOK, [Next]_vars
  PROVE  [Life!LifeNext]_(Life!lifeVars)
  <1>1. CASE UNCHANGED vars
    BY <1>1, SameBuilders DEF vars, jobVars, doomVars, Life!lifeVars
  <1> QED BY <1>1, JobLives, WorkLives, SplittingLives DEF Next

\* The jobs implement the life of the group that the sign-in code relies on.
THEOREM PipelineImplementsLife == Spec => ImplementsLife
  <1>1. Spec => []TypeOK
    BY PipelineTyped
  <1> QED BY <1>1, LifeStart, LifeStep, PTL DEF Spec, ImplementsLife, Life!LifeSpec

-----------------------------------------------------------------------------
(* Sums over finite sets *)

\* The elements of a set one after the other, as MapThenFoldSet takes them.
Chosen(s) == CHOOSE x \in s : TRUE

\* g sums f up over the subsets of S.
SumsUp(f, S, g) ==
    g = [s \in SUBSET S |->
           IF s = {} THEN 0 ELSE f[Chosen(s)] + g[s \ {Chosen(s)}]]

LEMMA SumIsFold ==
    ASSUME NEW f, NEW S
    PROVE  SumFunctionOnSet(f, S) = (CHOOSE g : SumsUp(f, S, g))[S]
    BY Zenon DEF SumFunctionOnSet, FoldFunctionOnSet, MapThenFoldSet, SumsUp, Chosen

LEMMA Least ==
    ASSUME NEW Bad \in SUBSET Nat, Bad # {}
    PROVE  \E m \in Bad : \A n \in Nat : n < m => n \notin Bad
<1>1. IsWellFoundedOn(OpToRel(<, Nat), Nat)
    BY NatLessThanWellFounded
<1>2. PICK m \in Bad : \A n \in Bad : ~(<<n, m>> \in OpToRel(<, Nat))
    BY <1>1, WFMin
<1>3. QED BY <1>2 DEF OpToRel

LEMMA Removed ==
    ASSUME NEW S, IsFiniteSet(S), NEW s \in SUBSET S, NEW x \in s
    PROVE  /\ Cardinality(s) \in Nat \ {0} /\ Cardinality(s \ {x}) \in Nat
           /\ Cardinality(s \ {x}) = Cardinality(s) - 1
           /\ s \ {x} \in SUBSET S
<1>1. IsFiniteSet(s)
    BY FS_Subset
<1>2. Cardinality(s \ {x}) = Cardinality(s) - 1 /\ IsFiniteSet(s \ {x})
    BY <1>1, FS_RemoveElement
<1>3. Cardinality(s) \in Nat /\ Cardinality(s \ {x}) \in Nat /\ Cardinality(s) # 0
    BY <1>1, <1>2, FS_CardinalityType, FS_EmptySet
<1>4. QED BY <1>2, <1>3

LEMMA ChosenIn ==
    ASSUME NEW s, s # {} PROVE Chosen(s) \in s
    BY DEF Chosen

LEMMA SumExists ==
    ASSUME NEW S, IsFiniteSet(S), NEW f \in [S -> Nat]
    PROVE  \E g \in [SUBSET S -> Nat] : SumsUp(f, S, g)
<1> DEFINE SumOf(s, g) == IF s = {} THEN 0 ELSE f[Chosen(s)] + g[s \ {Chosen(s)}]
           UpTo(n) == \E g \in [SUBSET S -> Nat] :
                         \A s \in SUBSET S : Cardinality(s) <= n => g[s] = SumOf(s, g)
           Bad == {n \in Nat : ~UpTo(n)}
<1>1. Cardinality(S) \in Nat /\ \A s \in SUBSET S : Cardinality(s) \in Nat
                                                   /\ Cardinality(s) <= Cardinality(S)
    BY FS_CardinalityType, FS_Subset
<1>2. ASSUME Bad # {} PROVE FALSE
  <2>1. Bad \in SUBSET Nat
      OBVIOUS
  <2> HIDE DEF Bad
  <2>2. PICK m \in Bad : \A n \in Nat : n < m => n \notin Bad
      BY <1>2, <2>1, Least, Zenon
  <2> USE DEF Bad
  <2>3. m \in Nat /\ ~UpTo(m)
      BY <2>2
  <2>4. CASE m = 0
    <3> DEFINE g == [s \in SUBSET S |-> 0]
    <3>1. g \in [SUBSET S -> Nat]
        OBVIOUS
    <3>2. ASSUME NEW s \in SUBSET S, Cardinality(s) <= m PROVE g[s] = SumOf(s, g)
      <4>1. Cardinality(s) = 0 /\ IsFiniteSet(s)
          BY <1>1, <2>4, <3>2, FS_Subset
      <4>2. s = {}
          BY <4>1, FS_EmptySet
      <4>3. QED BY <4>2
    <3>3. QED BY <2>3, <3>1, <3>2
  <2>5. CASE m # 0
    <3>1. m - 1 \in Nat /\ m - 1 < m
        BY <2>3, <2>5
    <3>2. UpTo(m - 1)
        BY <2>2, <3>1
    <3>3. PICK g \in [SUBSET S -> Nat] :
             \A s \in SUBSET S : Cardinality(s) <= m - 1 => g[s] = SumOf(s, g)
        BY <3>2
    <3> DEFINE h == [s \in SUBSET S |->
                       IF Cardinality(s) <= m - 1 THEN g[s]
                       ELSE IF s = {} THEN 0 ELSE f[Chosen(s)] + g[s \ {Chosen(s)}]]
    <3>4. \A s \in SUBSET S : s # {} =>
             /\ Chosen(s) \in S /\ f[Chosen(s)] \in Nat
             /\ s \ {Chosen(s)} \in SUBSET S
             /\ Cardinality(s \ {Chosen(s)}) = Cardinality(s) - 1
             /\ g[s \ {Chosen(s)}] \in Nat
        BY Removed, ChosenIn
    <3>5. h \in [SUBSET S -> Nat]
        BY <3>4
    <3>6. ASSUME NEW s \in SUBSET S, Cardinality(s) <= m PROVE h[s] = SumOf(s, h)
      <4>1. CASE s = {}
          BY <3>3, <4>1
      <4>2. CASE s # {}
        <5>1. /\ s \ {Chosen(s)} \in SUBSET S
              /\ Cardinality(s \ {Chosen(s)}) <= m - 1
            BY <1>1, <2>3, <3>4, <3>6, <4>2
        <5>2. h[s \ {Chosen(s)}] = g[s \ {Chosen(s)}]
            BY <5>1
        <5>3. h[s] = f[Chosen(s)] + g[s \ {Chosen(s)}]
            BY <3>3, <4>2
        <5>4. QED BY <4>2, <5>2, <5>3
      <4>3. QED BY <4>1, <4>2
    <3> HIDE DEF h
    <3>7. UpTo(m)
        BY <3>5, <3>6
    <3>8. QED BY <2>3, <3>7
  <2>6. QED BY <2>4, <2>5
<1>3. UpTo(Cardinality(S))
    BY <1>1, <1>2
<1>4. PICK g \in [SUBSET S -> Nat] : \A s \in SUBSET S : g[s] = SumOf(s, g)
    BY <1>1, <1>3
<1>5. g = [s \in SUBSET S |-> SumOf(s, g)]
    BY <1>4
<1>6. QED BY <1>5 DEF SumsUp

\* The sums over all subsets of S are one function's, whatever set they are
\* taken over.
LEMMA SumsAgree ==
    ASSUME NEW S, IsFiniteSet(S), NEW f \in [S -> Nat],
           NEW g \in [SUBSET S -> Nat], SumsUp(f, S, g), NEW T \in SUBSET S
    PROVE  SumFunctionOnSet(f, T) = g[T]
<1> DEFINE k == CHOOSE k : SumsUp(f, T, k)
           r == [s \in SUBSET T |-> g[s]]
           Bad == {n \in Nat : \E s \in SUBSET T : Cardinality(s) = n /\ k[s] # g[s]}
<1>1. \A s \in SUBSET S : g[s] = IF s = {} THEN 0 ELSE f[Chosen(s)] + g[s \ {Chosen(s)}]
    BY DEF SumsUp
<1>2. \A s \in SUBSET T : r[s] = IF s = {} THEN 0 ELSE f[Chosen(s)] + r[s \ {Chosen(s)}]
    BY <1>1
<1>3. SumsUp(f, T, r)
    BY <1>2 DEF SumsUp
<1>4. SumsUp(f, T, k)
    BY <1>3, Zenon
<1> HIDE DEF k, r
<1>5. \A s \in SUBSET T : k[s] = IF s = {} THEN 0 ELSE f[Chosen(s)] + k[s \ {Chosen(s)}]
    BY <1>4, Zenon DEF SumsUp
<1>6. ASSUME Bad # {} PROVE FALSE
  <2>1. Bad \in SUBSET Nat
      OBVIOUS
  <2> HIDE DEF Bad
  <2>2. PICK m \in Bad : \A n \in Nat : n < m => n \notin Bad
      BY <1>6, <2>1, Least, Zenon
  <2> USE DEF Bad
  <2>3. PICK s \in SUBSET T : Cardinality(s) = m /\ k[s] # g[s]
      BY <2>2
  <2>4. s # {} /\ s \in SUBSET S
      BY <1>1, <1>5, <2>3
  <2> DEFINE u == s \ {Chosen(s)}
  <2>5. /\ u \in SUBSET T /\ Cardinality(u) \in Nat /\ Cardinality(u) < m
      BY <2>3, <2>4, Removed, ChosenIn
  <2>6. k[u] = g[u]
      BY <2>2, <2>5
  <2>7. QED BY <1>1, <1>5, <2>3, <2>4, <2>6
<1>7. Cardinality(T) \in Nat /\ T \in SUBSET T
    BY FS_Subset, FS_CardinalityType
<1>8. k[T] = g[T]
    BY <1>6, <1>7
<1>9. QED BY <1>8, SumIsFold DEF k

\* Any element may be taken first.
LEMMA AnyFirst ==
    ASSUME NEW S, IsFiniteSet(S), NEW f \in [S -> Nat],
           NEW g \in [SUBSET S -> Nat], SumsUp(f, S, g),
           NEW V \in SUBSET S, NEW v \in V
    PROVE  g[V] = f[v] + g[V \ {v}]
<1> DEFINE Bad == {n \in Nat : \E T \in SUBSET S : \E x \in T :
                      Cardinality(T) = n /\ g[T] # f[x] + g[T \ {x}]}
<1>1. \A s \in SUBSET S : s # {} => g[s] = f[Chosen(s)] + g[s \ {Chosen(s)}]
    BY DEF SumsUp
<1>2. ASSUME Bad # {} PROVE FALSE
  <2>1. Bad \in SUBSET Nat
      OBVIOUS
  <2> HIDE DEF Bad
  <2>2. PICK m \in Bad : \A n \in Nat : n < m => n \notin Bad
      BY <1>2, <2>1, Least, Zenon
  <2> USE DEF Bad
  <2>3. PICK T \in SUBSET S : \E x \in T : Cardinality(T) = m /\ g[T] # f[x] + g[T \ {x}]
      BY <2>2
  <2>4. PICK x \in T : Cardinality(T) = m /\ g[T] # f[x] + g[T \ {x}]
      BY <2>3
  <2> DEFINE y == Chosen(T)
  <2>5. y \in T /\ g[T] = f[y] + g[T \ {y}]
      BY <1>1, ChosenIn
  <2> HIDE DEF y
  <2>6. x # y
      BY <2>4, <2>5
  <2>7. /\ T \ {y} \in SUBSET S /\ Cardinality(T \ {y}) < m /\ Cardinality(T \ {y}) \in Nat
        /\ T \ {x} \in SUBSET S /\ Cardinality(T \ {x}) < m /\ Cardinality(T \ {x}) \in Nat
      BY <2>4, <2>5, Removed
  <2>8. \A U \in SUBSET S : Cardinality(U) \in Nat /\ Cardinality(U) < m
                             => \A z \in U : g[U] = f[z] + g[U \ {z}]
    <3> SUFFICES ASSUME NEW U \in SUBSET S, Cardinality(U) \in Nat, Cardinality(U) < m,
                        NEW z \in U
                 PROVE  g[U] = f[z] + g[U \ {z}]
        OBVIOUS
    <3>1. Cardinality(U) \notin Bad
        BY <2>2
    <3>2. QED BY <3>1, Zenon
  <2>9. x \in T \ {y} /\ y \in T \ {x}
      BY <2>4, <2>5, <2>6
  <2> DEFINE R == (T \ {y}) \ {x}
  <2>10. g[T \ {y}] = f[x] + g[R]
      BY <2>7, <2>8, <2>9
  <2>11. R = (T \ {x}) \ {y} /\ R \in SUBSET S
      OBVIOUS
  <2>12. g[T \ {x}] = f[y] + g[R]
    <3>1. g[T \ {x}] = f[y] + g[(T \ {x}) \ {y}]
        BY <2>7, <2>8, <2>9
    <3>2. QED BY <2>11, <3>1
  <2>13. f[x] \in Nat /\ f[y] \in Nat /\ g[R] \in Nat
      BY <2>5, <2>11
  <2> HIDE DEF R
  <2>14. QED BY <2>4, <2>5, <2>10, <2>12, <2>13
<1>3. \A T \in SUBSET S : Cardinality(T) \in Nat
    BY FS_Subset, FS_CardinalityType
<1>4. QED BY <1>2, <1>3

\* A sum over more is no smaller, and no smaller than a part of it.
LEMMA SumGrows ==
    ASSUME NEW S, IsFiniteSet(S), NEW f \in [S -> Nat], NEW T \in SUBSET S
    PROVE  /\ SumFunctionOnSet(f, T) \in Nat
           /\ \A U \in SUBSET T : SumFunctionOnSet(f, U) <= SumFunctionOnSet(f, T)
           /\ \A x \in T : f[x] <= SumFunctionOnSet(f, T)
<1>1. PICK g \in [SUBSET S -> Nat] : SumsUp(f, S, g)
    BY SumExists
<1>2. \A U \in SUBSET S : SumFunctionOnSet(f, U) = g[U] /\ g[U] \in Nat
    BY <1>1, SumsAgree
<1>3. \A U \in SUBSET S : \A x \in U : g[U] = f[x] + g[U \ {x}]
  <2> SUFFICES ASSUME NEW U \in SUBSET S, NEW x \in U
               PROVE  g[U] = f[x] + g[U \ {x}]
      OBVIOUS
  <2>1. IsFiniteSet(S) /\ f \in [S -> Nat] /\ g \in [SUBSET S -> Nat]
      OBVIOUS
  <2>2. QED BY <1>1, <2>1, AnyFirst
<1> DEFINE Bad == {n \in Nat : \E V \in SUBSET S : \E U \in SUBSET V :
                      Cardinality(V) = n /\ ~(g[U] <= g[V])}
<1>4. ASSUME Bad # {} PROVE FALSE
  <2>1. Bad \in SUBSET Nat
      OBVIOUS
  <2> HIDE DEF Bad
  <2>2. PICK m \in Bad : \A n \in Nat : n < m => n \notin Bad
      BY <1>4, <2>1, Least, Zenon
  <2> USE DEF Bad
  <2>3. PICK V \in SUBSET S : \E U \in SUBSET V : Cardinality(V) = m /\ ~(g[U] <= g[V])
      BY <2>2
  <2>4. PICK U \in SUBSET V : Cardinality(V) = m /\ ~(g[U] <= g[V])
      BY <2>3
  <2>5. U # V
      BY <1>2, <2>4
  <2>6. PICK x \in V : x \notin U
      BY <2>5
  <2>7. /\ V \ {x} \in SUBSET S /\ Cardinality(V \ {x}) < m /\ Cardinality(V \ {x}) \in Nat
      BY <2>4, <2>6, Removed
  <2>8. U \in SUBSET (V \ {x})
      BY <2>6
  <2>9. g[U] <= g[V \ {x}]
      BY <2>2, <2>7, <2>8
  <2>10. g[V] = f[x] + g[V \ {x}] /\ f[x] \in Nat
      BY <1>3
  <2>11. g[U] \in Nat /\ g[V \ {x}] \in Nat
      BY <2>7
  <2>12. QED BY <2>4, <2>9, <2>10, <2>11
<1>5. \A V \in SUBSET S : Cardinality(V) \in Nat
    BY FS_Subset, FS_CardinalityType
<1>6. \A U \in SUBSET T : g[U] <= g[T]
    BY <1>4, <1>5
<1>7. \A x \in T : f[x] <= g[T]
  <2> TAKE x \in T
  <2>1. g[T] = f[x] + g[T \ {x}] /\ f[x] \in Nat /\ g[T \ {x}] \in Nat
      BY <1>3
  <2>2. QED BY <2>1
<1>8. QED BY <1>2, <1>6, <1>7
-----------------------------------------------------------------------------
(* Open works are whole *)

Enough(S) == SumFunctionOnSet(Pages, S) >= Pages[FirstPdf]

\* Only a work that is gone has its group and its pages waiting to go.
WithdrawnInv ==
  \A w \in Works : w \in dooming \/ doomedPages[w] # {} => work[w] = "gone"

\* While its work is not gone, a group job has pages to count; once it has
\* counted them, it has as many as the first PDF; then a group to share them
\* with; and at last they are shared.
JobInv(j) ==
  work[j[1]] # "gone" =>
    /\ j \in relating => j[2] \in pending[j[1]] \cup attached[j[1]]
    /\ at[j] # "none" => attached[j[1]] # {}
    /\ at[j] \in {"create", "share", "save"} => Enough(batch[j])
    /\ at[j] \in {"share", "save"} => group[j[1]] # 0
    /\ at[j] = "save" => batch[j] \subseteq pagesShared[j[1]]

JobsInv == \A j \in Jobs : JobInv(j)

OpenInv ==
  \A w \in workShared :
    work[w] # "gone" => group[w] # 0 /\ Enough(pagesShared[w])

WholeInv == TypeOK /\ WithdrawnInv /\ JobsInv /\ OpenInv

LEMMA EnoughStays ==
  ASSUME NEW S \in SUBSET Pdfs, NEW T \in SUBSET S, Enough(T)
  PROVE  Enough(S)
  <1>1. IsFiniteSet(Pdfs) /\ Pages \in [Pdfs -> Nat] /\ Pages[FirstPdf] \in Nat
    BY PipelineAssumption
  <1>2. /\ SumFunctionOnSet(Pages, S) \in Nat /\ SumFunctionOnSet(Pages, T) \in Nat
        /\ SumFunctionOnSet(Pages, T) <= SumFunctionOnSet(Pages, S)
    BY <1>1, SumGrows
  <1> QED BY <1>1, <1>2 DEF Enough

\* A count that fits is the first PDF's: not 0, because something is attached.
LEMMA CompleteIsEnough ==
  ASSUME TypeOK, NEW w \in Works, attached[w] # {}, Complete(w)
  PROVE  Enough(attached[w])
  <1>1. IsFiniteSet(Pdfs) /\ Pages \in [Pdfs -> Nat] /\ Pages[FirstPdf] \in Nat
    BY PipelineAssumption
  <1>2. PICK f \in attached[w] : f \in Pdfs
    BY DEF TypeOK
  <1>3. attached[w] \in SUBSET Pdfs
    BY DEF TypeOK
  <1>4. /\ SumFunctionOnSet(Pages, attached[w]) \in Nat
        /\ Pages[f] <= SumFunctionOnSet(Pages, attached[w])
    BY <1>1, <1>2, <1>3, SumGrows
  <1>5. Pages[f] \in Nat \ {0}
    BY <1>2, PipelineAssumption
  <1>6. SumFunctionOnSet(Pages, attached[w]) = Pages[FirstPdf]
    BY <1>4, <1>5 DEF Complete, PageCount, ChildWorks
  <1> QED BY <1>1, <1>6 DEF Enough

LEMMA WholeStart == Init => WholeInv
  BY TypesStart DEF Init, WholeInv, WithdrawnInv, JobsInv, JobInv, OpenInv, Jobs

\* What happens before a group job sees it: a relationship to come stays until
\* it is attached, what is attached stays while the work is not gone.
LEMMA SplittingWhole ==
  ASSUME WholeInv, NEW w \in Works, NEW f \in Pdfs,
         \/ SplitPdf(w, f) \/ CreatePages(w, f)
         \/ CreateRelationships(w, f) \/ DestroySplitPages(w, f)
  PROVE  WithdrawnInv' /\ JobsInv' /\ OpenInv'
  <1> USE DEF WholeInv
  <1>1. /\ <<w, f>> \in Jobs /\ <<w, f>>[1] = w /\ <<w, f>>[2] = f
        /\ \A j \in Jobs : j[1] \in Works /\ j[2] \in Pdfs
    BY DEF Jobs
  <1>2. CASE SplitPdf(w, f)
    <2>1. /\ UNCHANGED <<work, group, attached, at, batch, pagesShared, workShared,
                         dooming, doomedPages>>
          /\ pending' = [pending EXCEPT ![w] = @ \cup {f}]
          /\ relating' = relating \cup {<<w, f>>}
      BY <1>2 DEF SplitPdf, jobVars, shareVars, doomVars
    <2>2. ASSUME NEW j \in Jobs PROVE JobInv(j)'
      <3>1. JobInv(j) /\ j[1] \in Works
        BY <1>1 DEF JobsInv
      <3>2. pending[j[1]] \subseteq pending'[j[1]] /\ f \in pending'[w]
        BY <2>1, <3>1 DEF TypeOK
      <3>3. j \in relating' => j \in relating \/ j = <<w, f>>
        BY <2>1
      <3> QED BY <1>1, <2>1, <3>1, <3>2, <3>3 DEF JobInv, Enough
    <2> QED BY <2>1, <2>2 DEF WithdrawnInv, JobsInv, OpenInv, Enough
  <1>3. CASE CreatePages(w, f)
    BY <1>3 DEF CreatePages, jobVars, shareVars, doomVars, WithdrawnInv, JobsInv, JobInv,
                OpenInv, Enough
  <1>4. CASE CreateRelationships(w, f)
    <2>1. /\ UNCHANGED <<work, group, batch, pagesShared, workShared, dooming, doomedPages>>
          /\ <<w, f>> \in relating /\ relating' = relating \ {<<w, f>>}
      BY <1>4 DEF CreateRelationships, shareVars, doomVars
    <2>2. CASE work[w] = "live"
      <3>1. /\ attached' = [attached EXCEPT ![w] = @ \cup pending[w]]
            /\ pending' = [pending EXCEPT ![w] = {}]
            /\ at' = [at EXCEPT ![<<w, f>>] = "queued"]
        BY <1>4, <2>2 DEF CreateRelationships
      <3>2. f \in attached'[w]
        <4>1. JobInv(<<w, f>>)
          BY <1>1 DEF JobsInv
        <4>2. f \in pending[w] \cup attached[w]
          BY <1>1, <2>1, <2>2, <4>1 DEF JobInv
        <4> QED BY <3>1, <4>2 DEF TypeOK
      <3>3. ASSUME NEW j \in Jobs PROVE JobInv(j)'
        <4>1. JobInv(j) /\ j[1] \in Works
          BY <1>1 DEF JobsInv
        <4>2. /\ attached[j[1]] \subseteq attached'[j[1]]
              /\ pending[j[1]] \cup attached[j[1]] \subseteq pending'[j[1]] \cup attached'[j[1]]
          BY <3>1, <4>1 DEF TypeOK
        <4>3. at'[j] = IF j = <<w, f>> THEN "queued" ELSE at[j]
          BY <3>1 DEF TypeOK
        <4>4. CASE j = <<w, f>>
          BY <1>1, <2>1, <3>2, <4>3, <4>4 DEF JobInv
        <4>5. CASE j # <<w, f>>
          BY <2>1, <4>1, <4>2, <4>3, <4>5 DEF JobInv, Enough
        <4> QED BY <4>4, <4>5
      <3> QED BY <2>1, <3>3 DEF WithdrawnInv, JobsInv, OpenInv, Enough
    <2>3. CASE work[w] # "live"
      <3>1. UNCHANGED <<attached, pending, at>>
        BY <1>4, <2>3 DEF CreateRelationships
      <3> QED BY <2>1, <3>1 DEF WithdrawnInv, JobsInv, JobInv, OpenInv, Enough
    <2> QED BY <2>2, <2>3
  <1>5. CASE DestroySplitPages(w, f)
    <2>1. /\ UNCHANGED <<work, group, pending, relating, at, batch, workShared, dooming>>
          /\ work[w] = "gone"
          /\ doomedPages' = [doomedPages EXCEPT ![w] = @ \ {f}]
          /\ attached' = [attached EXCEPT ![w] = @ \ {f}]
          /\ pagesShared' = [pagesShared EXCEPT ![w] = @ \ {f}]
      BY <1>5 DEF DestroySplitPages, WithdrawnInv, jobVars
    <2>2. \A v \in Works : work[v] # "gone" =>
             UNCHANGED <<doomedPages[v], attached[v], pagesShared[v]>>
      BY <2>1 DEF TypeOK
    <2>3. WithdrawnInv'
      BY <2>1, <2>2 DEF WithdrawnInv
    <2>4. JobsInv'
      BY <1>1, <2>1, <2>2 DEF JobsInv, JobInv, Enough
    <2>5. OpenInv'
      BY <2>1, <2>2 DEF OpenInv, Enough, TypeOK
    <2> QED BY <2>3, <2>4, <2>5
  <1> QED BY <1>2, <1>3, <1>4, <1>5

LEMMA WorkWhole ==
  ASSUME WholeInv, NEW w \in Works,
         DepositCdl(w) \/ Characterize(w) \/ DestroyCdl(w) \/ DestroyCdlGroup(w)
  PROVE  WithdrawnInv' /\ JobsInv' /\ OpenInv'
  <1> USE DEF WholeInv
  <1>1. /\ \A j \in Jobs : j[1] \in Works
        /\ workShared \subseteq Works
    BY DEF Jobs, TypeOK
  <1>2. CASE DepositCdl(w) \/ Characterize(w)
    <2>1. /\ UNCHANGED <<group, pending, relating, attached, at, batch, pagesShared,
                         workShared, dooming, doomedPages>>
          /\ \A v \in Works : work[v] = "gone" <=> work'[v] = "gone"
      BY <1>2 DEF DepositCdl, Characterize, TypeOK, splitVars, jobVars, shareVars, doomVars
    <2> QED BY <1>1, <2>1 DEF WithdrawnInv, JobsInv, JobInv, OpenInv, Enough
  <1>3. CASE DestroyCdl(w)
    <2>1. /\ UNCHANGED <<group, pending, relating, attached, at, batch, pagesShared, workShared>>
          /\ work'[w] = "gone" /\ \A v \in Works : v # w => UNCHANGED work[v]
          /\ dooming' = dooming \cup {w}
          /\ \A v \in Works : v # w => UNCHANGED doomedPages[v]
      BY <1>3 DEF DestroyCdl, TypeOK, splitVars, jobVars, shareVars
    <2>2. WithdrawnInv'
      BY <2>1 DEF WithdrawnInv
    <2>3. JobsInv'
      BY <1>1, <2>1 DEF JobsInv, JobInv, Enough
    <2>4. OpenInv'
      BY <1>1, <2>1 DEF OpenInv, Enough
    <2> QED BY <2>2, <2>3, <2>4
  <1>4. CASE DestroyCdlGroup(w)
    <2>1. /\ UNCHANGED <<work, pending, relating, attached, at, batch, pagesShared, workShared,
                         doomedPages>>
          /\ work[w] = "gone" /\ dooming' = dooming \ {w}
          /\ \A v \in Works : v # w => UNCHANGED group[v]
      BY <1>4 DEF DestroyCdlGroup, WithdrawnInv, TypeOK, splitVars, jobVars, shareVars
    <2>2. WithdrawnInv'
      BY <2>1 DEF WithdrawnInv
    <2>3. JobsInv'
      BY <1>1, <2>1 DEF JobsInv, JobInv, Enough
    <2>4. OpenInv'
      BY <1>1, <2>1 DEF OpenInv, Enough
    <2> QED BY <2>2, <2>3, <2>4
  <1> QED BY <1>2, <1>3, <1>4

LEMMA JobWhole ==
  ASSUME WholeInv, NEW j \in Jobs, GroupJob(j) \/ JobError(j)
  PROVE  WithdrawnInv' /\ JobsInv' /\ OpenInv'
  <1> USE DEF WholeInv
  <1> DEFINE w == j[1]
  <1>1. /\ w \in Works /\ \A i \in Jobs : i[1] \in Works
        /\ workShared \subseteq Works
    BY DEF Jobs, TypeOK
  <1>2. JobInv(j)
    BY DEF JobsInv
  <1>3. /\ UNCHANGED <<work, pending, relating, attached, dooming, doomedPages>>
        /\ \A i \in Jobs \ {j} : UNCHANGED <<at[i], batch[i]>>
    BY DEF GroupJob, CheckPages, CreateGroup, SharePages, SaveWork, JobError, TypeOK,
           splitVars, doomVars
  <1>4. WithdrawnInv'
    BY <1>3 DEF WithdrawnInv
  <1>5. /\ \A v \in Works : group[v] # 0 => group'[v] # 0
        /\ \A v \in Works : pagesShared[v] \subseteq pagesShared'[v]
    <2>1. CASE CreateGroup(j)
      BY <1>1, <2>1 DEF CreateGroup, TypeOK, shareVars, NoGroup
    <2>2. CASE SharePages(j)
      BY <1>1, <2>2 DEF SharePages, TypeOK
    <2>3. CASE CheckPages(j) \/ SaveWork(j) \/ JobError(j)
      BY <2>3 DEF CheckPages, SaveWork, JobError, shareVars
    <2> QED BY <2>1, <2>2, <2>3 DEF GroupJob
  <1>6. JobInv(j)'
    <2>1. CASE CheckPages(j)
      <3>1. at[j] = "queued" /\ UNCHANGED <<group, pagesShared>>
        BY <2>1 DEF CheckPages, shareVars
      <3>2. CASE Ready(j) /\ at' = [at EXCEPT ![j] = "create"]
                          /\ batch' = [batch EXCEPT ![j] = Members(w)]
        <4>1. at'[j] = "create" /\ batch'[j] = attached[w]
          BY <3>2 DEF TypeOK, Members
        <4>2. work[w] # "gone" => attached[w] # {} /\ Enough(attached[w])
          BY <1>1, <1>2, <3>1, <3>2, CompleteIsEnough DEF JobInv, Ready
        <4> QED BY <1>2, <1>3, <3>1, <4>1, <4>2 DEF JobInv, Enough
      <3>3. CASE UNCHANGED <<at, batch>>
        BY <1>2, <1>3, <3>1, <3>3 DEF JobInv, Enough
      <3>4. CASE at' = [at EXCEPT ![j] = "none"] /\ UNCHANGED batch
        <4>1. at'[j] = "none"
          BY <3>4 DEF TypeOK
        <4> QED BY <1>2, <1>3, <3>1, <4>1 DEF JobInv
      <3> QED BY <2>1, <3>2, <3>3, <3>4 DEF CheckPages
    <2>2. CASE CreateGroup(j)
      <3>1. /\ at[j] = "create" /\ at'[j] = "share"
            /\ UNCHANGED <<batch, pagesShared>>
            /\ group'[w] # 0
        BY <1>1, <2>2 DEF CreateGroup, TypeOK, shareVars, NoGroup
      <3> QED BY <1>2, <1>3, <3>1 DEF JobInv, Enough
    <2>3. CASE SharePages(j)
      <3>1. /\ at[j] = "share" /\ UNCHANGED <<batch, group>>
            /\ \/ at'[j] = "save" /\ batch[j] \subseteq pagesShared'[w]
               \/ at'[j] = "queued"
        BY <1>1, <2>3 DEF SharePages, TypeOK
      <3> QED BY <1>2, <1>3, <3>1 DEF JobInv, Enough
    <2>4. CASE SaveWork(j) \/ JobError(j)
      <3>1. at[j] # "none" /\ at'[j] \in {"none", "queued"}
        BY <2>4 DEF SaveWork, JobError, TypeOK
      <3> QED BY <1>2, <1>3, <3>1 DEF JobInv
    <2> QED BY <2>1, <2>2, <2>3, <2>4 DEF GroupJob
  <1>7. ASSUME NEW i \in Jobs \ {j} PROVE JobInv(i)'
    <2>1. JobInv(i)
      BY DEF JobsInv
    <2>2. UNCHANGED <<at[i], batch[i]>>
      BY <1>3
    <2> QED BY <1>1, <1>3, <1>5, <2>1, <2>2 DEF JobInv, Enough
  <1>8. JobsInv'
    BY <1>6, <1>7 DEF JobsInv
  <1>9. OpenInv'
    <2> SUFFICES ASSUME NEW v \in workShared', work'[v] # "gone"
                 PROVE  group'[v] # 0 /\ Enough(pagesShared'[v])
      BY DEF OpenInv, Enough
    <2>1. v \in workShared \/ (v = w /\ SaveWork(j))
      BY DEF GroupJob, CheckPages, CreateGroup, SharePages, SaveWork, JobError, shareVars
    <2>2. pagesShared'[v] \in SUBSET Pdfs /\ v \in Works
      BY <1>1, <2>1, JobTypes DEF TypeOK
    <2>3. CASE v \in workShared
      <3>1. group[v] # 0 /\ Enough(pagesShared[v])
        BY <1>3, <2>3 DEF OpenInv
      <3> QED BY <1>5, <2>2, <3>1, EnoughStays
    <2>4. CASE v = w /\ SaveWork(j)
      <3>1. /\ at[j] = "save" /\ UNCHANGED <<group, pagesShared>>
        BY <2>4 DEF SaveWork
      <3>2. group[w] # 0 /\ Enough(batch[j]) /\ batch[j] \subseteq pagesShared[w]
        BY <1>2, <1>3, <2>4, <3>1 DEF JobInv
      <3> QED BY <2>2, <2>4, <3>1, <3>2, EnoughStays
    <2> QED BY <2>1, <2>3, <2>4
  <1> QED BY <1>4, <1>8, <1>9

LEMMA WholeStep ==
  ASSUME WholeInv, [Next]_vars
  PROVE  WholeInv'
  <1>1. TypeOK'
    BY TypesStep DEF WholeInv
  <1>2. CASE UNCHANGED vars
    BY <1>1, <1>2 DEF vars, splitVars, jobVars, shareVars, doomVars, WholeInv, WithdrawnInv,
                      JobsInv, JobInv, OpenInv, Enough
  <1>3. CASE Next
    BY <1>1, <1>3, SplittingWhole, WorkWhole, JobWhole DEF Next, WholeInv
  <1> QED BY <1>2, <1>3

\* A live work that its group can read has a group, and as many pages open to
\* it as its first PDF has, for any PDFs, page counts, retries and errors.
THEOREM OpenWorksAreWhole == Spec => []OpenedWhole
  <1>1. Spec => []WholeInv
    BY WholeStart, WholeStep, PTL DEF Spec
  <1>2. WholeInv => OpenedWhole
    BY DEF WholeInv, OpenInv, OpenedWhole, Enough
  <1> QED BY <1>1, <1>2, PTL

-----------------------------------------------------------------------------
(* No work is stranded *)

\* A live work with pages attached is open to its group, or a chain of group jobs
\* goes on for it, or a chain of its jobs has used up its retries: chains are not
\* broken by errors, second PDFs or pages that come late.
NoneStranded ==
  \A w \in Works :
    work[w] = "live" /\ attached[w] # {} /\ w \notin workShared =>
      \E f \in Pdfs : at[<<w, f>>] # "none" \/ retries[<<w, f>>] > RETRY_MAX

\* A step that goes on with a job, or ends it for one of these reasons, strands
\* nothing if it attaches nothing.
LEMMA JobStrands ==
  ASSUME TypeOK, NoneStranded, NEW j \in Jobs, GroupJob(j) \/ JobError(j)
  PROVE  NoneStranded'
  <1>1. /\ UNCHANGED <<work, attached>> /\ workShared \subseteq workShared'
        /\ \A i \in Jobs \ {j} : at'[i] = at[i] /\ retries'[i] = retries[i]
    BY DEF GroupJob, CheckPages, CreateGroup, SharePages, SaveWork, JobError, TypeOK,
           shareVars, jobVars
  <1>2. \/ at'[j] # "none"
        \/ work[j[1]] # "live" \/ j[1] \in workShared'
        \/ retries'[j] > RETRY_MAX
    <2>1. CASE CheckPages(j)
      <3>1. CASE ~Found(j[1])
        BY <3>1 DEF Found
      <3>2. CASE at' = [at EXCEPT ![j] = "none"] /\ ~MayRetry(j) /\ UNCHANGED retries
        <4>1. retries[j] \in Nat /\ RETRY_MAX \in Nat
          BY PipelineAssumption DEF TypeOK
        <4> QED BY <3>2, <4>1 DEF MayRetry
      <3>3. CASE at' = [at EXCEPT ![j] = "create"] \/ UNCHANGED at
        BY <2>1, <3>3 DEF CheckPages, TypeOK
      <3> QED BY <2>1, <3>1, <3>2, <3>3 DEF CheckPages
    <2>2. CASE CreateGroup(j) \/ SharePages(j) \/ JobError(j)
      BY <2>2 DEF CreateGroup, SharePages, JobError, TypeOK
    <2>3. CASE SaveWork(j)
      BY <2>3 DEF SaveWork, TypeOK
    <2> QED BY <2>1, <2>2, <2>3 DEF GroupJob
  <1>3. SUFFICES ASSUME NEW w \in Works, work[w] = "live", attached[w] # {}, w \notin workShared'
                 PROVE  \E f \in Pdfs : at'[<<w, f>>] # "none" \/ retries'[<<w, f>>] > RETRY_MAX
    BY <1>1 DEF NoneStranded
  <1>4. PICK f \in Pdfs : at[<<w, f>>] # "none" \/ retries[<<w, f>>] > RETRY_MAX
    BY <1>1, <1>3 DEF NoneStranded
  <1>5. <<w, f>> \in Jobs /\ <<w, f>>[1] = w
    BY DEF Jobs
  <1>6. CASE <<w, f>> = j
    BY <1>2, <1>3, <1>5, <1>6
  <1>7. CASE <<w, f>> # j
    BY <1>1, <1>4, <1>5, <1>7
  <1> QED BY <1>6, <1>7

\* Whoever attaches pages queues a job.
LEMMA SplittingStrands ==
  ASSUME WholeInv, NoneStranded, NEW w \in Works, NEW f \in Pdfs,
         \/ SplitPdf(w, f) \/ CreatePages(w, f)
         \/ CreateRelationships(w, f) \/ DestroySplitPages(w, f)
  PROVE  NoneStranded'
  <1>1. /\ UNCHANGED <<work, workShared, retries>> /\ TypeOK /\ <<w, f>> \in Jobs
        /\ \A v \in Works : v # w => attached'[v] = attached[v]
    BY DEF SplitPdf, CreatePages, CreateRelationships, DestroySplitPages, WholeInv, TypeOK,
           shareVars, jobVars, Jobs
  <1>2. CASE UNCHANGED <<attached, at>>
    BY <1>1, <1>2 DEF NoneStranded
  <1>3. CASE at' = [at EXCEPT ![<<w, f>>] = "queued"]
    <2>1. /\ at'[<<w, f>>] = "queued"
          /\ \A i \in Jobs : at[i] # "none" => at'[i] # "none"
      BY <1>1, <1>3 DEF TypeOK
    <2>2. SUFFICES ASSUME NEW v \in Works, work[v] = "live", attached'[v] # {}, v \notin workShared
                   PROVE  \E g \in Pdfs : at'[<<v, g>>] # "none" \/ retries[<<v, g>>] > RETRY_MAX
      BY <1>1 DEF NoneStranded
    <2>3. CASE v = w
      BY <2>1, <2>3
    <2>4. CASE v # w
      <3>1. PICK g \in Pdfs : at[<<v, g>>] # "none" \/ retries[<<v, g>>] > RETRY_MAX
        BY <1>1, <2>2, <2>4 DEF NoneStranded
      <3>2. <<v, g>> \in Jobs
        BY DEF Jobs
      <3> QED BY <2>1, <3>1, <3>2
    <2> QED BY <2>3, <2>4
  <1>4. CASE DestroySplitPages(w, f)
    <2>1. work[w] = "gone" /\ UNCHANGED at
      BY <1>4 DEF DestroySplitPages, WholeInv, WithdrawnInv, jobVars
    <2> QED BY <1>1, <2>1 DEF NoneStranded
  <1> QED BY <1>2, <1>3, <1>4 DEF SplitPdf, CreatePages, CreateRelationships, jobVars

\* A work that is deposited has nothing attached yet.
FreshInv == \A w \in Works : work[w] = "absent" => attached[w] = {}

LEMMA WorkStrands ==
  ASSUME WholeInv, FreshInv, NoneStranded, NEW w \in Works,
         DepositCdl(w) \/ Characterize(w) \/ DestroyCdl(w) \/ DestroyCdlGroup(w)
  PROVE  NoneStranded'
  <1>1. /\ UNCHANGED <<attached, workShared, at, retries>>
        /\ \A v \in Works : work'[v] = "live" => work[v] = "live" \/ attached[v] = {}
    BY DEF DepositCdl, Characterize, DestroyCdl, DestroyCdlGroup, WholeInv, TypeOK, FreshInv,
           jobVars, shareVars
  <1> QED BY <1>1 DEF NoneStranded

LEMMA FreshStep ==
  ASSUME TypeOK, FreshInv, [Next]_vars
  PROVE  FreshInv'
  <1>1. ASSUME NEW w \in Works, NEW f \in Pdfs,
               \/ SplitPdf(w, f) \/ CreatePages(w, f)
               \/ CreateRelationships(w, f) \/ DestroySplitPages(w, f)
        PROVE  FreshInv'
    BY <1>1 DEF SplitPdf, CreatePages, CreateRelationships, DestroySplitPages, FreshInv, TypeOK
  <1>2. ASSUME NEW w \in Works,
               DepositCdl(w) \/ Characterize(w) \/ DestroyCdl(w) \/ DestroyCdlGroup(w)
        PROVE  FreshInv'
    BY <1>2 DEF DepositCdl, Characterize, DestroyCdl, DestroyCdlGroup, FreshInv, TypeOK
  <1>3. ASSUME NEW j \in Jobs, GroupJob(j) \/ JobError(j)
        PROVE  FreshInv'
    BY <1>3 DEF GroupJob, CheckPages, CreateGroup, SharePages, SaveWork, JobError, FreshInv
  <1>4. CASE UNCHANGED vars
    BY <1>4 DEF vars, FreshInv
  <1> QED BY <1>1, <1>2, <1>3, <1>4 DEF Next

\* A live work with pages attached is open, or a chain of group jobs goes on for
\* it, or one has used up its retries, for any PDFs, bounds and errors.
THEOREM NoWorkIsStranded == Spec => []NoneStranded
  <1> DEFINE StrandInv == WholeInv /\ FreshInv /\ NoneStranded
  <1>1. Init => StrandInv
    BY WholeStart DEF Init, FreshInv, NoneStranded
  <1>2. StrandInv /\ [Next]_vars => StrandInv'
    <2> SUFFICES ASSUME StrandInv, [Next]_vars PROVE StrandInv'
      OBVIOUS
    <2>1. WholeInv' /\ FreshInv' /\ TypeOK
      BY WholeStep, FreshStep DEF WholeInv
    <2>2. CASE UNCHANGED vars
      BY <2>1, <2>2 DEF vars, jobVars, shareVars, NoneStranded
    <2>3. CASE Next
      BY <2>1, <2>3, SplittingStrands, WorkStrands, JobStrands DEF Next
    <2> QED BY <2>2, <2>3
  <1>3. StrandInv => NoneStranded
    OBVIOUS
  <1> QED BY <1>1, <1>2, <1>3, PTL DEF Spec

-----------------------------------------------------------------------------
(* The group of a destroyed work does not come back *)

\* While no group job of a destroyed work is between its check of the work and
\* its creation of the group, none gets there; the group goes with the work's
\* DestroyCdlGroupJob, and once gone it is not made anew.
StaysAway(w) ==
  work[w] = "gone" /\ w \notin Building =>
    /\ work'[w] = "gone" /\ w \notin Building'
    /\ w \in dooming \ dooming' \/ group[w] = 0 => group'[w] = 0

GroupStaysAway == [][\A w \in Works : StaysAway(w)]_vars

\* A group job finds no work that is gone, and creates only what it was about to.
LEMMA JobStaysAway ==
  ASSUME TypeOK, NEW j \in Jobs, GroupJob(j) \/ JobError(j), NEW w \in Works
  PROVE  StaysAway(w)
  <1> SUFFICES ASSUME work[w] = "gone", w \notin Building
               PROVE  /\ w \notin Building'
                      /\ group[w] = 0 => group'[w] = 0
    BY DEF StaysAway, GroupJob, CheckPages, CreateGroup, SharePages, SaveWork, JobError,
       doomVars
  <1>1. CASE CheckPages(j)
    <2>1. CASE j[1] = w
      <3>1. at' = [at EXCEPT ![j] = "none"] \/ UNCHANGED at
        BY <1>1, <2>1 DEF CheckPages, Found
      <3>2. CASE at' = [at EXCEPT ![j] = "none"]
        <4>1. "none" \in Places
          BY DEF Places
        <4> QED BY <1>1, <3>2, <4>1, OneBuilder DEF CheckPages
      <3> QED BY <1>1, <3>1, <3>2, SameBuilders DEF CheckPages
    <2>2. CASE j[1] # w
      <3>1. \A f \in Pdfs : at'[<<w, f>>] = at[<<w, f>>]
        BY <1>1, <2>2 DEF CheckPages, TypeOK, Jobs
      <3> QED BY <1>1, <3>1 DEF CheckPages, Building
    <2> QED BY <2>1, <2>2
  <1>2. CASE CreateGroup(j)
    <2>1. "share" \in Places
      BY DEF Places
    <2>2. at' = [at EXCEPT ![j] = "share"] /\ at[j] = "create"
      BY <1>2 DEF CreateGroup
    <2>3. j[1] # w /\ w \notin Building'
      BY <2>1, <2>2, OneBuilder
    <2>4. group'[w] = group[w]
      BY <1>2, <2>3 DEF CreateGroup, TypeOK
    <2> QED BY <2>3, <2>4
  <1>3. CASE SharePages(j) \/ SaveWork(j) \/ JobError(j)
    <2>1. PICK place \in Places \ {"create"} : at' = [at EXCEPT ![j] = place]
      BY <1>3 DEF SharePages, SaveWork, JobError, Places
    <2>2. w \notin Building'
      BY <2>1, OneBuilder
    <2>3. UNCHANGED group
      BY <1>3 DEF SharePages, SaveWork, JobError
    <2> QED BY <2>2, <2>3
  <1> QED BY <1>1, <1>2, <1>3 DEF GroupJob

\* A chain of jobs starts in the queue; a work is gone for good.
LEMMA OthersStayAway ==
  ASSUME TypeOK, NEW v \in Works, NEW w \in Works,
         \/ DepositCdl(v) \/ Characterize(v) \/ DestroyCdl(v) \/ DestroyCdlGroup(v)
         \/ \E f \in Pdfs : \/ SplitPdf(v, f) \/ CreatePages(v, f)
                            \/ CreateRelationships(v, f) \/ DestroySplitPages(v, f)
  PROVE  StaysAway(w)
  <1> SUFFICES ASSUME work[w] = "gone", w \notin Building
               PROVE  /\ work'[w] = "gone" /\ w \notin Building'
                      /\ w \in dooming \ dooming' \/ group[w] = 0 => group'[w] = 0
    BY DEF StaysAway
  <1>1. CASE DepositCdl(v) \/ Characterize(v) \/ DestroyCdl(v) \/ DestroyCdlGroup(v)
    <2>1. UNCHANGED at
      BY <1>1 DEF DepositCdl, Characterize, DestroyCdl, DestroyCdlGroup, jobVars
    <2>2. /\ work'[w] = "gone"
          /\ w \in dooming \ dooming' \/ group[w] = 0 => group'[w] = 0
      BY <1>1 DEF DepositCdl, Characterize, DestroyCdl, DestroyCdlGroup, doomVars, TypeOK
    <2> QED BY <2>1, <2>2, SameBuilders
  <1>2. ASSUME NEW f \in Pdfs,
               \/ SplitPdf(v, f) \/ CreatePages(v, f)
               \/ CreateRelationships(v, f) \/ DestroySplitPages(v, f)
        PROVE  w \notin Building'
    <2>1. UNCHANGED at \/ at' = [at EXCEPT ![<<v, f>>] = "queued"]
      BY <1>2 DEF SplitPdf, CreatePages, CreateRelationships, DestroySplitPages, jobVars
    <2>2. "queued" \in Places /\ <<v, f>> \in Jobs
      BY DEF Places, Jobs
    <2> QED BY <2>1, <2>2, OneBuilder, SameBuilders
  <1>3. ASSUME NEW f \in Pdfs,
               \/ SplitPdf(v, f) \/ CreatePages(v, f)
               \/ CreateRelationships(v, f) \/ DestroySplitPages(v, f)
        PROVE  UNCHANGED <<work, group, dooming>>
    BY <1>3 DEF SplitPdf, CreatePages, CreateRelationships, DestroySplitPages, doomVars
  <1> QED BY <1>1, <1>2, <1>3

\* The group of a destroyed work, once gone, stays away, unless a job had checked
\* the work before it was destroyed and had still to create the group.
THEOREM GoneGroupStaysAway == Spec => GroupStaysAway
  <1>1. TypeOK /\ [Next]_vars => [\A w \in Works : StaysAway(w)]_vars
    BY JobStaysAway, OthersStayAway DEF Next
  <1> QED BY <1>1, PipelineTyped, PTL DEF Spec, GroupStaysAway

-----------------------------------------------------------------------------
(* Chains are bounded *)

\* While its work is not gone, a chain of group jobs is started once, and what it
\* loaded is still attached.
ChainInv(j) ==
  work[j[1]] # "gone" =>
    /\ j \in relating => at[j] = "none"
    /\ j \in relating \/ at[j] # "none" =>
         work[j[1]] = "live" /\ j[2] \in pending[j[1]] \cup kids[j[1]]
    /\ at[j] \in {"create", "share"} => batch[j] \subseteq attached[j[1]]

ChainsInv == WholeInv /\ \A j \in Jobs : ChainInv(j)

\* How far a job is from its end, in the order in which it gets through its places
\* while its work is there, and once the work is gone.
Rank(place) ==
  CASE place = "none" -> 0 [] place = "save" -> 1 [] place = "share" -> 2
    [] place = "create" -> 3 [] place = "queued" -> 4
RankIfGone(place) ==
  CASE place = "none" -> 0 [] place = "queued" -> 1 [] place = "save" -> 2
    [] place = "share" -> 3 [] place = "create" -> 4

\* What is left of a chain: retries and errors to come, the withdrawal, the place.
Left(j) ==
  5 * (RETRY_MAX + 1 - retries[j]) + 5 * (MaxErrors - errors)
    + (IF work[j[1]] = "gone" THEN RankIfGone(at[j]) ELSE 5 + Rank(at[j]))

\* No step makes a chain of group jobs longer that goes on, and each step of its
\* own makes it shorter: whatever other jobs, errors and withdrawals do to it, its
\* own steps are at most as many as Left says, and with fairness it ends.
Shortens(j) ==
  at[j] # "none" =>
    /\ Left(j)' <= Left(j)
    /\ GroupJob(j) \/ JobError(j) => Left(j)' < Left(j)

ChainsShorten == [][\A j \in Jobs : Shortens(j)]_vars

\* The places' ranks, and what they are made of, for the arithmetic.
LEMMA LeftTyped ==
  ASSUME TypeOK, NEW j \in Jobs
  PROVE  /\ RETRY_MAX + 1 - retries[j] \in Nat /\ MaxErrors - errors \in Nat
         /\ Rank(at[j]) \in 0..4 /\ RankIfGone(at[j]) \in 0..4
         /\ Left(j) \in Nat
  <1>1. /\ RETRY_MAX \in Nat /\ MaxErrors \in Nat
        /\ retries[j] \in 0..(RETRY_MAX + 1) /\ errors \in 0..MaxErrors
        /\ at[j] \in {"none", "queued", "create", "share", "save"}
    BY PipelineAssumption DEF TypeOK, Places
  <1>2. RETRY_MAX + 1 - retries[j] \in Nat /\ MaxErrors - errors \in Nat
    BY <1>1
  <1>3. Rank(at[j]) \in 0..4 /\ RankIfGone(at[j]) \in 0..4
    BY <1>1 DEF Rank, RankIfGone
  <1> HIDE DEF Rank, RankIfGone
  <1> QED BY <1>2, <1>3 DEF Left

LEMMA ChainsStart == Init => ChainsInv
  BY WholeStart DEF Init, ChainsInv, ChainInv

\* A relationship to come becomes a page work, and a page work stays while the
\* work is not gone: the splitter does not record it again.
LEMMA SplittingChains ==
  ASSUME ChainsInv, NEW w \in Works, NEW f \in Pdfs,
         \/ SplitPdf(w, f) \/ CreatePages(w, f)
         \/ CreateRelationships(w, f) \/ DestroySplitPages(w, f),
         NEW j \in Jobs
  PROVE  ChainInv(j)' /\ (at[j] # "none" => UNCHANGED at[j])
  <1>1. /\ <<w, f>> \in Jobs /\ <<w, f>>[1] = w /\ <<w, f>>[2] = f
        /\ j[1] \in Works /\ j[2] \in Pdfs /\ j = <<j[1], j[2]>>
    BY DEF Jobs
  <1>2. TypeOK /\ WithdrawnInv /\ ChainInv(j) /\ ChainInv(<<w, f>>)
    BY <1>1 DEF ChainsInv, WholeInv
  <1>3. CASE SplitPdf(w, f)
    <2>1. /\ UNCHANGED <<work, attached, at, batch, kids>>
          /\ work[w] = "live" /\ f \notin pending[w] \cup kids[w]
          /\ pending' = [pending EXCEPT ![w] = @ \cup {f}]
          /\ relating' = relating \cup {<<w, f>>}
      BY <1>3 DEF SplitPdf, jobVars
    <2>2. pending[j[1]] \subseteq pending'[j[1]] /\ f \in pending'[w]
      BY <1>1, <1>2, <2>1 DEF TypeOK
    <2>3. at[<<w, f>>] = "none"
      BY <1>1, <1>2, <2>1 DEF ChainInv
    <2>4. CASE j = <<w, f>>
      BY <1>1, <1>2, <2>1, <2>2, <2>3, <2>4 DEF ChainInv
    <2>5. CASE j # <<w, f>>
      <3>1. j \in relating' <=> j \in relating
        BY <2>1, <2>5
      <3> QED BY <1>2, <2>1, <2>2, <3>1 DEF ChainInv
    <2> QED BY <2>4, <2>5
  <1>4. CASE CreatePages(w, f)
    <2>1. /\ UNCHANGED <<work, attached, at, batch, pending, relating>>
          /\ kids[j[1]] \subseteq kids'[j[1]]
      BY <1>1, <1>2, <1>4 DEF CreatePages, TypeOK, jobVars
    <2> QED BY <1>2, <2>1 DEF ChainInv
  <1>5. CASE CreateRelationships(w, f)
    <2>1. /\ UNCHANGED <<work, batch, kids>>
          /\ <<w, f>> \in relating /\ relating' = relating \ {<<w, f>>}
      BY <1>5 DEF CreateRelationships
    <2>2. CASE work[w] = "live"
      <3>1. /\ attached' = [attached EXCEPT ![w] = @ \cup pending[w]]
            /\ pending' = [pending EXCEPT ![w] = {}] /\ pending[w] \subseteq kids[w]
            /\ at' = [at EXCEPT ![<<w, f>>] = "queued"]
        BY <1>5, <2>2 DEF CreateRelationships
      <3>2. /\ attached[j[1]] \subseteq attached'[j[1]]
            /\ pending[j[1]] \cup kids[j[1]] \subseteq pending'[j[1]] \cup kids[j[1]]
        BY <1>1, <1>2, <3>1 DEF TypeOK
      <3>3. at'[j] = IF j = <<w, f>> THEN "queued" ELSE at[j]
        BY <1>2, <3>1 DEF TypeOK
      <3>4. at[<<w, f>>] = "none" /\ f \in pending[w] \cup kids[w]
        BY <1>1, <1>2, <2>1, <2>2 DEF ChainInv
      <3>5. CASE j = <<w, f>>
        BY <1>1, <2>1, <2>2, <3>2, <3>3, <3>4, <3>5 DEF ChainInv
      <3>6. CASE j # <<w, f>>
        BY <1>2, <2>1, <3>2, <3>3, <3>6 DEF ChainInv
      <3> QED BY <3>5, <3>6
    <2>3. CASE work[w] # "live"
      <3>1. UNCHANGED <<attached, pending, at>>
        BY <1>5, <2>3 DEF CreateRelationships
      <3> QED BY <1>2, <2>1, <3>1 DEF ChainInv
    <2> QED BY <2>2, <2>3
  <1>6. CASE DestroySplitPages(w, f)
    <2>1. /\ UNCHANGED <<work, pending, relating, at, batch>>
          /\ work[w] = "gone"
          /\ attached' = [attached EXCEPT ![w] = @ \ {f}]
          /\ kids' = [kids EXCEPT ![w] = @ \ {f}]
      BY <1>2, <1>6 DEF DestroySplitPages, WithdrawnInv, jobVars
    <2>2. j[1] # w => UNCHANGED <<attached[j[1]], kids[j[1]]>>
      BY <1>1, <1>2, <2>1 DEF TypeOK
    <2> QED BY <1>2, <2>1, <2>2 DEF ChainInv
  <1> QED BY <1>3, <1>4, <1>5, <1>6

LEMMA WorkChains ==
  ASSUME ChainsInv, NEW w \in Works,
         DepositCdl(w) \/ Characterize(w) \/ DestroyCdl(w) \/ DestroyCdlGroup(w),
         NEW j \in Jobs
  PROVE  ChainInv(j)'
  <1>1. TypeOK /\ ChainInv(j) /\ j[1] \in Works
    BY DEF ChainsInv, WholeInv, Jobs
  <1>2. /\ UNCHANGED <<pending, relating, attached, at, batch, kids>>
        /\ work[j[1]] = "gone" => work'[j[1]] = "gone"
        /\ work[j[1]] = "live" => work'[j[1]] \in {"live", "gone"}
    BY <1>1 DEF DepositCdl, Characterize, DestroyCdl, DestroyCdlGroup, TypeOK,
                splitVars, jobVars
  <1> QED BY <1>1, <1>2 DEF ChainInv

LEMMA JobChains ==
  ASSUME ChainsInv, NEW i \in Jobs, GroupJob(i) \/ JobError(i), NEW j \in Jobs
  PROVE  ChainInv(j)'
  <1>1. TypeOK /\ ChainInv(j) /\ j[1] \in Works
    BY DEF ChainsInv, WholeInv, Jobs
  <1>2. /\ UNCHANGED <<work, pending, relating, attached, kids>>
        /\ j # i => UNCHANGED <<at[j], batch[j]>>
    BY <1>1 DEF GroupJob, CheckPages, CreateGroup, SharePages, SaveWork, JobError, TypeOK,
                splitVars
  <1>3. /\ at[i] # "none"
        /\ at'[i] = "create" => batch'[i] = attached[i[1]] \/ UNCHANGED batch[i]
        /\ at'[i] = "share" => at[i] = "create"
        /\ at'[i] \in {"create", "share"} => batch'[i] = attached[i[1]]
                                             \/ (at[i] = "create" /\ UNCHANGED batch[i])
    <2>1. CASE CheckPages(i)
      BY <1>1, <2>1 DEF CheckPages, Members, TypeOK
    <2>2. CASE CreateGroup(i)
      BY <1>1, <2>2 DEF CreateGroup, TypeOK
    <2>3. CASE SharePages(i) \/ SaveWork(i) \/ JobError(i)
      BY <1>1, <2>3 DEF SharePages, SaveWork, JobError, TypeOK
    <2> QED BY <2>1, <2>2, <2>3 DEF GroupJob
  <1> QED BY <1>1, <1>2, <1>3 DEF ChainInv

LEMMA ChainsStep ==
  ASSUME ChainsInv, [Next]_vars
  PROVE  ChainsInv'
  <1>1. WholeInv'
    BY WholeStep DEF ChainsInv
  <1>2. CASE UNCHANGED vars
    BY <1>1, <1>2 DEF vars, splitVars, jobVars, ChainsInv, ChainInv
  <1>3. CASE Next
    BY <1>1, <1>3, SplittingChains, WorkChains, JobChains DEF Next, ChainsInv
  <1> QED BY <1>2, <1>3

\* A job's own step brings it nearer to its end, counts a retry or an error, or,
\* if its work is gone, sends it back to where it finds that out.
LEMMA OwnShortens ==
  ASSUME ChainsInv, NEW j \in Jobs, GroupJob(j) \/ JobError(j)
  PROVE  Left(j)' < Left(j) /\ Left(j)' <= Left(j)
  <1>0. /\ Rank("none") = 0 /\ Rank("save") = 1 /\ Rank("share") = 2
        /\ Rank("create") = 3 /\ Rank("queued") = 4
        /\ RankIfGone("none") = 0 /\ RankIfGone("queued") = 1 /\ RankIfGone("save") = 2
        /\ RankIfGone("share") = 3 /\ RankIfGone("create") = 4
    BY DEF Rank, RankIfGone
  <1> HIDE DEF Rank, RankIfGone
  <1>1. TypeOK /\ ChainInv(j) /\ j[1] \in Works
    BY DEF ChainsInv, WholeInv, Jobs
  <1>2. /\ UNCHANGED work /\ retries[j] \in Nat /\ errors \in Nat
        /\ RETRY_MAX \in Nat /\ MaxErrors \in Nat
    BY <1>1, PipelineAssumption DEF GroupJob, CheckPages, CreateGroup, SharePages, SaveWork,
       JobError, TypeOK
  <1>3. \/ /\ UNCHANGED <<retries[j], errors>>
           /\ IF work[j[1]] = "gone" THEN RankIfGone(at'[j]) < RankIfGone(at[j])
                                     ELSE Rank(at'[j]) < Rank(at[j])
        \/ /\ retries'[j] = retries[j] + 1 /\ UNCHANGED <<at[j], errors>>
        \/ /\ errors' = errors + 1 /\ UNCHANGED retries[j]
           /\ at[j] \in {"create", "share", "save"} /\ at'[j] = "queued"
    <2>1. CASE CheckPages(j)
      <3>1. /\ at[j] = "queued" /\ UNCHANGED errors
            /\ \/ work[j[1]] = "live" /\ at'[j] = "create" /\ UNCHANGED retries
               \/ retries'[j] = retries[j] + 1 /\ UNCHANGED at
               \/ at'[j] = "none" /\ UNCHANGED retries
        BY <1>1, <2>1 DEF CheckPages, Found, NextArgument, TypeOK
      <3> QED BY <1>0, <3>1
    <2>2. CASE CreateGroup(j)
      <3>1. at[j] = "create" /\ at'[j] = "share" /\ UNCHANGED <<retries, errors>>
        BY <1>1, <2>2 DEF CreateGroup, TypeOK
      <3> QED BY <1>0, <3>1
    <2>3. CASE SharePages(j)
      <3>1. /\ at[j] = "share" /\ UNCHANGED <<retries, errors>>
            /\ at'[j] = "save" \/ (at'[j] = "queued" /\ work[j[1]] = "gone")
        BY <1>1, <2>3 DEF SharePages, TypeOK, ChainInv
      <3> QED BY <1>0, <3>1
    <2>4. CASE SaveWork(j)
      <3>1. /\ at[j] = "save" /\ UNCHANGED <<retries, errors>>
            /\ at'[j] = "none" \/ (at'[j] = "queued" /\ work[j[1]] = "gone")
        BY <1>1, <2>4 DEF SaveWork, TypeOK, ChainInv
      <3> QED BY <1>0, <3>1
    <2>5. CASE JobError(j)
      BY <1>1, <2>5 DEF JobError, TypeOK
    <2> QED BY <2>1, <2>2, <2>3, <2>4, <2>5 DEF GroupJob
  <1>4. /\ at[j] \in {"none", "queued", "create", "share", "save"}
        /\ at'[j] \in {"none", "queued", "create", "share", "save"}
    BY <1>1, JobTypes DEF TypeOK, Places
  <1>5. /\ Rank(at[j]) \in 0..4 /\ RankIfGone(at[j]) \in 0..4
        /\ Rank(at'[j]) \in 0..4 /\ RankIfGone(at'[j]) \in 0..4
    BY <1>0, <1>4
  <1>6. at[j] \in {"create", "share", "save"} =>
          Rank(at[j]) > 0 /\ RankIfGone(at[j]) > 1
    BY <1>0
  <1> QED BY <1>0, <1>2, <1>3, <1>5, <1>6 DEF Left

\* Other jobs count their errors; a withdrawal is counted, too.
LEMMA OthersShorten ==
  ASSUME ChainsInv, NEW j \in Jobs, at[j] # "none",
         UNCHANGED <<at[j], retries[j]>>, errors' \in {errors, errors + 1}, TypeOK',
         work[j[1]] = "gone" => work'[j[1]] = "gone"
  PROVE  Left(j)' <= Left(j)
  <1>1. TypeOK
    BY DEF ChainsInv, WholeInv
  <1>2. /\ Rank(at[j]) \in 0..4 /\ RankIfGone(at[j]) \in 0..4
        /\ retries[j] \in Nat /\ errors \in Nat /\ RETRY_MAX \in Nat /\ MaxErrors \in Nat
    BY <1>1, LeftTyped, PipelineAssumption DEF TypeOK
  <1> HIDE DEF Rank, RankIfGone
  <1> QED BY <1>2 DEF Left

LEMMA StepShortens ==
  ASSUME ChainsInv, Next, NEW j \in Jobs
  PROVE  Shortens(j)
  <1> SUFFICES ASSUME at[j] # "none", ~(GroupJob(j) \/ JobError(j))
               PROVE  Left(j)' <= Left(j)
    BY OwnShortens DEF Shortens
  <1>1. TypeOK /\ TypeOK' /\ j[1] \in Works
    BY TypesStep DEF ChainsInv, WholeInv, Jobs
  <1>2. ASSUME NEW i \in Jobs, GroupJob(i) \/ JobError(i)
        PROVE  Left(j)' <= Left(j)
    <2>1. i # j
      BY <1>2
    <2>2. /\ UNCHANGED <<at[j], retries[j], work>> /\ errors' \in {errors, errors + 1}
      BY <1>1, <1>2, <2>1 DEF GroupJob, CheckPages, CreateGroup, SharePages, SaveWork,
         JobError, TypeOK
    <2> QED BY <1>1, <2>2, OthersShorten
  <1>3. ASSUME NEW w \in Works, NEW f \in Pdfs,
               \/ SplitPdf(w, f) \/ CreatePages(w, f)
               \/ CreateRelationships(w, f) \/ DestroySplitPages(w, f)
        PROVE  Left(j)' <= Left(j)
    <2>1. UNCHANGED at[j]
      BY <1>3, SplittingChains
    <2>2. UNCHANGED <<work, retries, errors>>
      BY <1>3 DEF SplitPdf, CreatePages, CreateRelationships, DestroySplitPages, jobVars
    <2> QED BY <1>1, <2>1, <2>2, OthersShorten
  <1>4. ASSUME NEW w \in Works,
               DepositCdl(w) \/ Characterize(w) \/ DestroyCdl(w) \/ DestroyCdlGroup(w)
        PROVE  Left(j)' <= Left(j)
    <2>1. /\ UNCHANGED <<at, retries, errors>>
          /\ work[j[1]] = "gone" => work'[j[1]] = "gone"
      BY <1>1, <1>4 DEF DepositCdl, Characterize, DestroyCdl, DestroyCdlGroup, TypeOK, jobVars
    <2> QED BY <1>1, <2>1, OthersShorten
  <1> QED BY <1>2, <1>3, <1>4 DEF Next

\* A chain of group jobs that goes on is never made longer, and each step of its
\* own shortens it, for any bound on retries, any PDFs and any order of jobs.
THEOREM ChainsAreBounded == Spec => [](\A j \in Jobs : Left(j) \in Nat) /\ ChainsShorten
  <1>1. Spec => []ChainsInv
    BY ChainsStart, ChainsStep, PTL DEF Spec
  <1>2. ChainsInv => \A j \in Jobs : Left(j) \in Nat
    BY LeftTyped DEF ChainsInv, WholeInv
  <1>3. ChainsInv /\ [Next]_vars => [\A j \in Jobs : Shortens(j)]_vars
    BY StepShortens
  <1> QED BY <1>1, <1>2, <1>3, PTL DEF Spec, ChainsShorten

=============================================================================
