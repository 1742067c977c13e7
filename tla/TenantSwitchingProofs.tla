------------------------ MODULE TenantSwitchingProofs ------------------------
(***************************************************************************)
(* Theorems about TenantSwitching, for any tenants, threads and tasks.     *)
(***************************************************************************)
EXTENDS TenantSwitching, SequenceTheorems, FiniteSetTheorems,
        WellFoundedInduction, TLAPS

\* What a thread sees while nobody else sets what the process shares.
Views == [schema : Places, solr : Places, fedora : Places, redis : Places,
          stack : Seq(Clauses)]

Connected(c, x) == [c EXCEPT !.solr = x, !.fedora = x, !.redis = x]
Visited(c, x) == IF x \in Tenants THEN Connected(c, x) ELSE c
Inside(c, x, kind, y) ==
    [c EXCEPT !.schema = x, !.stack = Append(@, [kind |-> kind, at |-> y])]
Outside(c, x) == [c EXCEPT !.schema = x, !.stack = Front(@)]

\* All at home for x.
AtHome(c, x) == c.schema = x /\ c.solr = x /\ c.fedora = x /\ c.redis = x

\* What a step needs, in a view c, ...
Fits(step, c) ==
    LET x == step.at
    IN  /\ step.op = "work" /\ x \in Tenants => AtHome(c, x)
        /\ step.op = "erase" /\ x \in Tenants => c.fedora = x
        /\ step.op = "del" => c.redis = x
        /\ step.op = "perform_now" => x \in Tenants /\ c.schema = x
        /\ step.op \in {"account", "leave"} => c.stack # <<>>

\* ... and the view that it leads to, with all the steps that it stands for.
Effect(step, c) ==
    LET x == step.at
        e == Last(c.stack)
    IN  CASE step.op = "solr" -> [c EXCEPT !.solr = x]
          [] step.op = "fedora" -> [c EXCEPT !.fedora = x]
          [] step.op = "redis" -> [c EXCEPT !.redis = x]
          [] step.op = "enter" -> Visited(Inside(c, x, "switch", c.schema), x)
          [] step.op = "account" ->
                Connected(Inside(c, c.schema, "reset", "public"), x)
          [] step.op = "leave" ->
                IF e.kind = "switch"
                THEN Visited(Outside(c, e.at), e.at)
                ELSE Connected(Outside(c, c.schema), "public")
          [] step.op \in {"deliver", "perform_now"} -> Visited(c, c.schema)
          [] OTHER -> c

\* The steps of s lead from view c to view d: view[i] is the one before s[i].
Through(s, c, d, view) ==
    /\ view \in [1..(Len(s) + 1) -> Views]
    /\ view[1] = c /\ view[Len(s) + 1] = d
    /\ \A i \in 1..Len(s) :
          Fits(s[i], view[i]) /\ view[i + 1] = Effect(s[i], view[i])

Runs(s, c, d) == s \in Seq(Steps) /\ \E view : Through(s, c, d, view)

\* The steps of s come back to where they started, but for connections.
Returns(s, c) ==
    \E d \in Views : Runs(s, c, d) /\ d.schema = c.schema /\ d.stack = c.stack

Sees(t, c) ==
    /\ c.schema = schema[t] /\ c.solr = solr[t] /\ c.fedora = fedora[t]
    /\ c.stack = ensures[t]
    /\ setter["redis"] = t => shared["redis"] = c.redis

Home == [kind |-> "switch", at |-> "public"]

\* The first clause of a thread goes back to the public schema.
Grounded(stack, place) ==
    IF stack = <<>> THEN place = "public" ELSE stack[1] = Home

\* A run that comes to an end: in the public schema, no clause left.
Ends(s, c) ==
    \E d \in Views : Runs(s, c, d) /\ d.schema = "public" /\ d.stack = <<>>

ReadyInv ==
    \A t \in Threads : \E c \in Views : Sees(t, c) /\ Ends(todo[t], c)
GroundedInv == \A t \in Threads : Grounded(ensures[t], schema[t])
BlacklightInv ==
    \A t \in Threads : setter["blacklight"] = t => shared["blacklight"] = solr[t]
JobsInv == \A j \in jobs : j.for \in Tenants => j.tenant = j.for

SwitchInv == TypeOK /\ ReadyInv /\ GroundedInv /\ BlacklightInv /\ JobsInv

-----------------------------------------------------------------------------
(* Runs *)

LEMMA StepTyped ==
    ASSUME NEW op \in {"solr", "fedora", "redis", "enter", "account", "work",
                       "deliver", "perform_now", "erase", "keys", "del", "leave"},
           NEW x \in Places
    PROVE  Step(op, x) \in Steps /\ Step(op, x).op = op /\ Step(op, x).at = x
    BY DEF Step, Steps

LEMMA ClauseTaken ==
    ASSUME NEW stack \in Seq(Clauses), stack # <<>>
    PROVE  /\ Last(stack) \in Clauses /\ Last(stack) = stack[Len(stack)]
           /\ Front(stack) \in Seq(Clauses)
           /\ Len(stack) \in Nat \ {0} /\ Len(Front(stack)) = Len(stack) - 1
           /\ \A i \in 1..(Len(stack) - 1) : Front(stack)[i] = stack[i]
<1>1. Len(stack) \in Nat \ {0}
    BY EmptySeq
<1>2. \A i \in 1..Len(stack) : stack[i] \in Clauses
    BY ElementOfSeq
<1>3. Front(stack) = SubSeq(stack, 1, Len(stack) - 1)
    BY DEF Front
<1> DEFINE n == Len(stack) - 1
<1>4. n \in Nat /\ \A i \in 1..n : stack[i] \in Clauses
    BY <1>1, <1>2
<1> HIDE DEF n
<1>5. /\ SubSeq(stack, 1, n) \in Seq(Clauses)
      /\ Len(SubSeq(stack, 1, n)) = IF 1 <= n THEN n - 1 + 1 ELSE 0
      /\ \A i \in 1..(n - 1 + 1) : SubSeq(stack, 1, n)[i] = stack[1 + i - 1]
    BY <1>4, SubSeqProperties
<1>6. Len(SubSeq(stack, 1, n)) = n /\ \A i \in 1..n : SubSeq(stack, 1, n)[i] = stack[i]
    BY <1>4, <1>5
<1>7. QED BY <1>1, <1>2, <1>3, <1>5, <1>6 DEF Last, n

LEMMA ClausePut ==
    ASSUME NEW stack \in Seq(Clauses), NEW e \in Clauses
    PROVE  /\ Append(stack, e) \in Seq(Clauses) /\ Append(stack, e) # <<>>
           /\ Last(Append(stack, e)) = e /\ Front(Append(stack, e)) = stack
<1> DEFINE s == Append(stack, e)
<1>1. /\ s \in Seq(Clauses) /\ s # <<>> /\ Len(s) = Len(stack) + 1
      /\ \A i \in 1..Len(stack) : s[i] = stack[i]
      /\ s[Len(stack) + 1] = e
    BY AppendProperties
<1>2. Len(stack) \in Nat
    BY LenProperties
<1> HIDE DEF s
<1>3. /\ Last(s) = e /\ Front(s) \in Seq(Clauses) /\ Len(Front(s)) = Len(stack)
      /\ \A i \in 1..Len(stack) : Front(s)[i] = s[i]
  <2>1. Len(s) - 1 = Len(stack)
      BY <1>1, <1>2
  <2>2. QED BY <1>1, <2>1, ClauseTaken
<1>4. Front(s) = stack
    BY <1>1, <1>2, <1>3, SeqEqual
<1>5. QED BY <1>1, <1>3, <1>4 DEF s

LEMMA ConnectedTyped ==
    ASSUME NEW c \in Views, NEW x \in Places
    PROVE  /\ Connected(c, x) \in Views /\ Visited(c, x) \in Views
           /\ Connected(c, x).schema = c.schema /\ Connected(c, x).stack = c.stack
           /\ Visited(c, x).schema = c.schema /\ Visited(c, x).stack = c.stack
           /\ c.schema = x => AtHome(Connected(c, x), x)
           /\ Connected(c, x).fedora = x /\ Connected(c, x).redis = x
           /\ x \in Tenants => Visited(c, x) = Connected(c, x)
           /\ AtHome(c, x) => Connected(c, x) = c
    BY DEF Views, Connected, Visited, AtHome

LEMMA InsideTyped ==
    ASSUME NEW c \in Views, NEW x \in Places, NEW kind \in {"switch", "reset"},
           NEW y \in Places
    PROVE  /\ Inside(c, x, kind, y) \in Views
           /\ Inside(c, x, kind, y).schema = x
           /\ Inside(c, x, kind, y).stack = Append(c.stack, [kind |-> kind, at |-> y])
           /\ Inside(c, x, kind, y).solr = c.solr
           /\ Inside(c, x, kind, y).fedora = c.fedora
           /\ Inside(c, x, kind, y).redis = c.redis
<1>1. c.stack \in Seq(Clauses) /\ [kind |-> kind, at |-> y] \in Clauses
    BY DEF Views, Clauses
<1>2. Append(c.stack, [kind |-> kind, at |-> y]) \in Seq(Clauses)
    BY <1>1, ClausePut
<1>3. QED BY <1>2 DEF Inside, Views

LEMMA OutsideTyped ==
    ASSUME NEW c \in Views, NEW x \in Places, c.stack # <<>>
    PROVE  /\ Outside(c, x) \in Views
           /\ Outside(c, x).schema = x /\ Outside(c, x).stack = Front(c.stack)
           /\ Outside(c, x).solr = c.solr /\ Outside(c, x).fedora = c.fedora
           /\ Outside(c, x).redis = c.redis
           /\ Last(c.stack) \in Clauses
           /\ Last(c.stack).at \in Places /\ Last(c.stack).kind \in {"switch", "reset"}
<1>1. c.stack \in Seq(Clauses)
    BY DEF Views
<1>2. Front(c.stack) \in Seq(Clauses) /\ Last(c.stack) \in Clauses
    BY <1>1, ClauseTaken
<1>3. QED BY <1>2 DEF Outside, Views, Clauses

\* Two views are equal if they agree in each field.
LEMMA SameView ==
    ASSUME NEW c \in Views, NEW d \in Views,
           c.schema = d.schema, c.solr = d.solr, c.fedora = d.fedora,
           c.redis = d.redis, c.stack = d.stack
    PROVE  c = d
    BY DEF Views

LEMMA PublicIsPlace == "public" \in Places /\ Tenants \subseteq Places
    BY DEF Places

LEMMA EffectTyped ==
    ASSUME NEW step \in Steps, NEW c \in Views, Fits(step, c)
    PROVE  Effect(step, c) \in Views
<1>1. step.at \in Places /\ c.schema \in Places
    BY DEF Steps, Views
<1> DEFINE x == step.at
<1>2. CASE step.op \in {"solr", "fedora", "redis"}
    BY <1>1, <1>2 DEF Effect, Views
<1>3. CASE step.op = "enter"
  <2>1. Effect(step, c) = Visited(Inside(c, x, "switch", c.schema), x)
      BY <1>3 DEF Effect
  <2>2. Inside(c, x, "switch", c.schema) \in Views
      BY <1>1, InsideTyped
  <2>3. QED BY <1>1, <2>1, <2>2, ConnectedTyped
<1>4. CASE step.op = "account"
  <2>1. Effect(step, c) = Connected(Inside(c, c.schema, "reset", "public"), x)
      BY <1>4 DEF Effect
  <2>2. Inside(c, c.schema, "reset", "public") \in Views
      BY <1>1, InsideTyped, PublicIsPlace
  <2>3. QED BY <1>1, <2>1, <2>2, ConnectedTyped
<1>5. CASE step.op = "leave"
  <2>1. c.stack # <<>>
      BY <1>5 DEF Fits
  <2> DEFINE e == Last(c.stack)
  <2>2. Effect(step, c) = IF e.kind = "switch"
                          THEN Visited(Outside(c, e.at), e.at)
                          ELSE Connected(Outside(c, c.schema), "public")
      BY <1>5 DEF Effect
  <2>3. e.at \in Places
      BY <2>1, OutsideTyped, PublicIsPlace
  <2> HIDE DEF e
  <2>4. Outside(c, e.at) \in Views /\ Outside(c, c.schema) \in Views
      BY <1>1, <2>1, <2>3, OutsideTyped
  <2>5. QED BY <2>2, <2>3, <2>4, ConnectedTyped, PublicIsPlace
<1>6. CASE step.op \in {"deliver", "perform_now"}
  <2>1. Effect(step, c) = Visited(c, c.schema)
      BY <1>6 DEF Effect
  <2>2. QED BY <1>1, <2>1, ConnectedTyped
<1>7. CASE step.op \in {"work", "erase", "keys", "del"}
    BY <1>7 DEF Effect
<1>8. QED BY <1>2, <1>3, <1>4, <1>5, <1>6, <1>7 DEF Steps

LEMMA RunsNothing ==
    ASSUME NEW c \in Views
    PROVE  /\ Runs(<<>>, c, c)
           /\ \A d : Runs(<<>>, c, d) => d = c
<1>1. <<>> \in Seq(Steps) /\ Len(<<>>) = 0
    BY EmptySeq
<1>2. Through(<<>>, c, c, [i \in 1..1 |-> c])
    BY <1>1 DEF Through
<1>3. ASSUME NEW d, Runs(<<>>, c, d) PROVE d = c
  <2>1. PICK view : Through(<<>>, c, d, view)
      BY <1>3 DEF Runs
  <2>2. QED BY <1>1, <2>1 DEF Through
<1>4. QED BY <1>1, <1>2, <1>3 DEF Runs

LEMMA RunsTyped ==
    ASSUME NEW s, NEW c, NEW d, Runs(s, c, d)
    PROVE  c \in Views /\ d \in Views /\ s \in Seq(Steps)
<1>1. s \in Seq(Steps) /\ Len(s) \in Nat
    BY LenProperties DEF Runs
<1>2. PICK view : Through(s, c, d, view)
    BY DEF Runs
<1>3. 1 \in 1..(Len(s) + 1) /\ Len(s) + 1 \in 1..(Len(s) + 1)
    BY <1>1
<1>4. QED BY <1>1, <1>2, <1>3 DEF Through

LEMMA RunsOne ==
    ASSUME NEW step \in Steps, NEW c \in Views, Fits(step, c)
    PROVE  Runs(<<step>>, c, Effect(step, c))
<1> DEFINE d == Effect(step, c)
           view == [i \in 1..2 |-> IF i = 1 THEN c ELSE d]
<1>1. d \in Views
    BY EffectTyped
<1>2. <<step>> \in Seq(Steps) /\ Len(<<step>>) = 1 /\ <<step>>[1] = step
    OBVIOUS
<1>3. d = Effect(step, c)
    OBVIOUS
<1> HIDE DEF d
<1>4. Through(<<step>>, c, d, view)
    BY <1>1, <1>2, <1>3 DEF Through
<1>5. QED BY <1>2, <1>3, <1>4 DEF Runs

LEMMA RunsOn ==
    ASSUME NEW s, NEW u, NEW c, NEW d, NEW e,
           Runs(s, c, d), Runs(u, d, e)
    PROVE  Runs(s \o u, c, e)
<1>1. PICK v : Through(s, c, d, v)
    BY DEF Runs
<1>2. PICK w : Through(u, d, e, w)
    BY DEF Runs
<1> DEFINE r == s \o u
           n == Len(s)
           m == Len(u)
           view == [i \in 1..(n + m + 1) |-> IF i <= n THEN v[i] ELSE w[i - n]]
<1>3. /\ s \in Seq(Steps) /\ u \in Seq(Steps) /\ n \in Nat /\ m \in Nat
      /\ r \in Seq(Steps) /\ Len(r) = n + m
      /\ \A i \in 1..(n + m) : r[i] = IF i <= n THEN s[i] ELSE u[i - n]
    BY ConcatProperties, LenProperties DEF Runs
<1>4. /\ v \in [1..(n + 1) -> Views] /\ v[1] = c /\ v[n + 1] = d
      /\ \A i \in 1..n : Fits(s[i], v[i]) /\ v[i + 1] = Effect(s[i], v[i])
    BY <1>1 DEF Through
<1>5. /\ w \in [1..(m + 1) -> Views] /\ w[1] = d /\ w[m + 1] = e
      /\ \A i \in 1..m : Fits(u[i], w[i]) /\ w[i + 1] = Effect(u[i], w[i])
    BY <1>2 DEF Through
<1> HIDE DEF r, n, m
<1>6. view \in [1..(n + m + 1) -> Views]
    BY <1>3, <1>4, <1>5
<1>7. view[1] = c /\ view[n + m + 1] = e
    BY <1>3, <1>4, <1>5
<1>8. ASSUME NEW i \in 1..(n + m)
      PROVE  Fits(r[i], view[i]) /\ view[i + 1] = Effect(r[i], view[i])
  <2>1. CASE i <= n
    <3>1. i \in 1..n /\ r[i] = s[i] /\ view[i] = v[i]
        BY <1>3, <2>1
    <3>2. view[i + 1] = v[i + 1]
        BY <1>3, <1>4, <1>5, <2>1
    <3>3. QED BY <1>4, <3>1, <3>2
  <2>2. CASE ~(i <= n)
    <3>1. i - n \in 1..m /\ r[i] = u[i - n] /\ view[i] = w[i - n]
        BY <1>3, <2>2
    <3>2. view[i + 1] = w[(i - n) + 1]
        BY <1>3, <2>2
    <3>3. QED BY <1>5, <3>1, <3>2
  <2>3. QED BY <2>1, <2>2
<1>9. Through(r, c, e, view)
    BY <1>3, <1>6, <1>7, <1>8 DEF Through
<1>10. QED BY <1>3, <1>9 DEF Runs, r

\* The first step of a run, and the rest.
LEMMA RunsTail ==
    ASSUME NEW s, NEW c, NEW d, Runs(s, c, d), s # <<>>
    PROVE  /\ Head(s) \in Steps /\ Fits(Head(s), c)
           /\ Tail(s) \in Seq(Steps)
           /\ Runs(Tail(s), Effect(Head(s), c), d)
<1>1. PICK v : Through(s, c, d, v)
    BY DEF Runs
<1> DEFINE n == Len(s)
           r == Tail(s)
           w == [i \in 1..n |-> v[i + 1]]
<1>2. /\ s \in Seq(Steps) /\ n \in Nat \ {0} /\ Head(s) \in Steps /\ Head(s) = s[1]
      /\ r \in Seq(Steps) /\ Len(r) = n - 1
      /\ \A i \in 1..(n - 1) : r[i] = s[i + 1]
    BY EmptySeq, HeadTailProperties DEF Runs
<1>3. /\ v \in [1..(n + 1) -> Views] /\ v[1] = c /\ v[n + 1] = d
      /\ \A i \in 1..n : Fits(s[i], v[i]) /\ v[i + 1] = Effect(s[i], v[i])
    BY <1>1 DEF Through
<1> HIDE DEF n, r
<1>4. w \in [1..n -> Views] /\ w[1] = v[2] /\ w[n] = d
    BY <1>2, <1>3
<1>5. v[2] = Effect(Head(s), c) /\ Fits(Head(s), c)
    BY <1>2, <1>3
<1>6. ASSUME NEW i \in 1..(n - 1)
      PROVE  Fits(r[i], w[i]) /\ w[i + 1] = Effect(r[i], w[i])
  <2>1. i + 1 \in 1..n /\ w[i] = v[i + 1] /\ w[i + 1] = v[(i + 1) + 1] /\ r[i] = s[i + 1]
      BY <1>2
  <2>2. QED BY <1>3, <2>1
<1>7. Len(r) + 1 = n
    BY <1>2
<1>8. Through(r, Effect(Head(s), c), d, w)
    BY <1>2, <1>4, <1>5, <1>6, <1>7 DEF Through
<1>9. QED BY <1>2, <1>5, <1>8 DEF Runs, r

-----------------------------------------------------------------------------
(* Programs *)

LEMMA Pair ==
    ASSUME NEW S, NEW x \in S, NEW y \in S PROVE <<x, y>> = <<x>> \o <<y>>
<1> DEFINE s == <<x>> \o <<y>>
           t == <<x, y>>
<1>1. <<x>> \in Seq(S) /\ Len(<<x>>) = 1 /\ <<y>> \in Seq(S) /\ Len(<<y>>) = 1
    OBVIOUS
<1>2. t \in Seq(S) /\ Len(t) = 2 /\ t[1] = x /\ t[2] = y
    OBVIOUS
<1>3. s \in Seq(S) /\ Len(s) = 2 /\ s[1] = x /\ s[2] = y
    BY <1>1, ConcatProperties
<1> HIDE DEF s, t
<1>4. s = t
    BY <1>2, <1>3, SeqEqual
<1>5. QED BY <1>4 DEF s, t

LEMMA Triple ==
    ASSUME NEW x, NEW y, NEW z PROVE <<x, y, z>> = <<x>> \o <<y, z>>
    OBVIOUS

LEMMA RunsTwo ==
    ASSUME NEW a \in Steps, NEW b \in Steps, NEW c \in Views, NEW d,
           Fits(a, c), Effect(a, c) = d, Fits(b, d)
    PROVE  Runs(<<a, b>>, c, Effect(b, d))
<1>1. Runs(<<a>>, c, d) /\ Runs(<<b>>, d, Effect(b, d))
    BY RunsOne, EffectTyped
<1>2. <<a, b>> = <<a>> \o <<b>>
    BY Pair
<1>3. QED BY <1>1, <1>2, RunsOn

LEMMA RunsThree ==
    ASSUME NEW a \in Steps, NEW b \in Steps, NEW e \in Steps,
           NEW c \in Views, NEW d, NEW f,
           Fits(a, c), Effect(a, c) = d,
           Fits(b, d), Effect(b, d) = f, Fits(e, f)
    PROVE  Runs(<<a, b, e>>, c, Effect(e, f))
<1>1. Runs(<<a>>, c, d) /\ d \in Views
    BY RunsOne, EffectTyped
<1>2. Runs(<<b, e>>, d, Effect(e, f))
    BY <1>1, RunsTwo
<1>3. <<a, b, e>> = <<a>> \o <<b, e>>
    BY Triple
<1>4. QED BY <1>1, <1>2, <1>3, RunsOn

LEMMA ConnectionsRun ==
    ASSUME NEW c \in Views, NEW x \in Places
    PROVE  Runs(Connections(x), c, Connected(c, x))
<1> DEFINE a == Step("solr", x)
           b == Step("fedora", x)
           e == Step("redis", x)
           d == [c EXCEPT !.solr = x]
           f == [d EXCEPT !.fedora = x]
<1>1. /\ a \in Steps /\ a.op = "solr" /\ a.at = x
      /\ b \in Steps /\ b.op = "fedora" /\ b.at = x
      /\ e \in Steps /\ e.op = "redis" /\ e.at = x
    BY StepTyped
<1>2. Connections(x) = <<a, b, e>>
    BY DEF Connections
<1>3. d \in Views /\ f \in Views /\ [f EXCEPT !.redis = x] = Connected(c, x)
    BY DEF Views, Connected
<1> HIDE DEF a, b, e
<1>4. /\ Fits(a, c) /\ Effect(a, c) = d
      /\ Fits(b, d) /\ Effect(b, d) = f
      /\ Fits(e, f) /\ Effect(e, f) = [f EXCEPT !.redis = x]
    BY <1>1 DEF Fits, Effect
<1> HIDE DEF d, f
<1>5. Runs(<<a, b, e>>, c, Effect(e, f))
    BY <1>1, <1>3, <1>4, RunsThree
<1>6. QED BY <1>2, <1>3, <1>4, <1>5

LEMMA AfterSwitchRun ==
    ASSUME NEW c \in Views, NEW x \in Places
    PROVE  Runs(AfterSwitch(x), c, Visited(c, x))
    BY ConnectionsRun, RunsNothing DEF AfterSwitch, Visited

\* Work in place changes no view.
LEMMA WorkRuns ==
    ASSUME NEW c \in Views, NEW x \in Places, x \in Tenants => AtHome(c, x)
    PROVE  Runs(Work(x), c, c)
<1> DEFINE w == Step("work", x)
<1>1. w \in Steps /\ w.op = "work" /\ w.at = x
    BY StepTyped
<1>2. Work(x) = <<w>>
    BY DEF Work
<1> HIDE DEF w
<1>3. Fits(w, c) /\ Effect(w, c) = c
    BY <1>1 DEF Fits, Effect
<1>4. QED BY <1>1, <1>2, <1>3, RunsOne

Entered(c, x) == Visited(Inside(c, x, "switch", c.schema), x)
OnOther(c, x) == Connected(Inside(c, c.schema, "reset", "public"), x)

LEMMA EnteredTyped ==
    ASSUME NEW c \in Views, NEW x \in Places
    PROVE  /\ Entered(c, x) \in Views /\ Entered(c, x).schema = x
           /\ Entered(c, x).stack = Append(c.stack, [kind |-> "switch", at |-> c.schema])
           /\ x \in Tenants => AtHome(Entered(c, x), x)
           /\ Entered(c, x).stack # <<>>
           /\ Step("enter", x) \in Steps /\ Fits(Step("enter", x), c)
           /\ Effect(Step("enter", x), c) = Entered(c, x)
<1> DEFINE i == Inside(c, x, "switch", c.schema)
<1>1. c.schema \in Places /\ c.stack \in Seq(Clauses)
    BY DEF Views
<1>2. /\ i \in Views /\ i.schema = x
      /\ i.stack = Append(c.stack, [kind |-> "switch", at |-> c.schema])
    BY <1>1, InsideTyped
<1>3. Append(c.stack, [kind |-> "switch", at |-> c.schema]) # <<>>
    BY <1>1, ClausePut DEF Clauses
<1>4. Entered(c, x) = Visited(i, x)
    BY DEF Entered
<1>5. Step("enter", x) \in Steps /\ Step("enter", x).op = "enter" /\ Step("enter", x).at = x
    BY StepTyped
<1>6. Fits(Step("enter", x), c) /\ Effect(Step("enter", x), c) = Entered(c, x)
    BY <1>5 DEF Fits, Effect, Entered
<1> HIDE DEF i
<1>7. QED BY <1>2, <1>3, <1>4, <1>5, <1>6, ConnectedTyped

LEMMA OnOtherTyped ==
    ASSUME NEW c \in Views, NEW x \in Places, c.stack # <<>>
    PROVE  /\ OnOther(c, x) \in Views /\ OnOther(c, x).schema = c.schema
           /\ OnOther(c, x).stack = Append(c.stack, [kind |-> "reset", at |-> "public"])
           /\ c.schema = x => AtHome(OnOther(c, x), x)
           /\ Step("account", x) \in Steps /\ Fits(Step("account", x), c)
           /\ Effect(Step("account", x), c) = OnOther(c, x)
<1> DEFINE i == Inside(c, c.schema, "reset", "public")
<1>1. c.schema \in Places
    BY DEF Views
<1>2. /\ i \in Views /\ i.schema = c.schema
      /\ i.stack = Append(c.stack, [kind |-> "reset", at |-> "public"])
    BY <1>1, InsideTyped, PublicIsPlace
<1>3. OnOther(c, x) = Connected(i, x)
    BY DEF OnOther
<1>4. Step("account", x) \in Steps /\ Step("account", x).op = "account" /\ Step("account", x).at = x
    BY StepTyped
<1>5. Fits(Step("account", x), c) /\ Effect(Step("account", x), c) = OnOther(c, x)
    BY <1>4 DEF Fits, Effect, OnOther
<1> HIDE DEF i
<1>6. QED BY <1>2, <1>3, <1>4, <1>5, ConnectedTyped

\* The leave step goes back from what a clause was put on to.
LEMMA LeaveBack ==
    ASSUME NEW c \in Views, NEW d \in Views, NEW kind \in {"switch", "reset"},
           NEW y \in Places,
           d.stack = Append(c.stack, [kind |-> kind, at |-> y]),
           c.schema = IF kind = "switch" THEN y ELSE d.schema
    PROVE  \E e \in Views :
              /\ Runs(<<Step("leave", "public")>>, d, e)
              /\ e.schema = c.schema /\ e.stack = c.stack
<1> DEFINE s == Step("leave", "public")
           clause == [kind |-> kind, at |-> y]
           e == Effect(s, d)
<1>1. s \in Steps /\ s.op = "leave"
    BY StepTyped, PublicIsPlace
<1>2. c.stack \in Seq(Clauses) /\ clause \in Clauses /\ d.schema \in Places
    BY DEF Views, Clauses
<1>3. clause.kind = kind /\ clause.at = y
    OBVIOUS
<1> HIDE DEF s, clause
<1>4. d.stack # <<>> /\ Last(d.stack) = clause /\ Front(d.stack) = c.stack
    BY <1>2, ClausePut DEF clause
<1>5. Fits(s, d)
    BY <1>1, <1>4 DEF Fits
<1>6. e = IF kind = "switch"
          THEN Visited(Outside(d, y), y)
          ELSE Connected(Outside(d, d.schema), "public")
    BY <1>1, <1>3, <1>4 DEF Effect
<1>7. Runs(<<s>>, d, e) /\ e \in Views
    BY <1>1, <1>5, RunsOne, EffectTyped
<1> HIDE DEF e
<1>8. /\ Outside(d, y) \in Views /\ Outside(d, y).schema = y
      /\ Outside(d, y).stack = c.stack
      /\ Outside(d, d.schema) \in Views /\ Outside(d, d.schema).schema = d.schema
      /\ Outside(d, d.schema).stack = c.stack
    BY <1>2, <1>4, OutsideTyped
<1>9. e.schema = c.schema /\ e.stack = c.stack
    BY <1>6, <1>8, ConnectedTyped, PublicIsPlace
<1>10. QED BY <1>7, <1>9 DEF s

LEMMA WithinReturns ==
    ASSUME NEW c \in Views, NEW x \in Places, NEW body, Returns(body, Entered(c, x))
    PROVE  Returns(Within(x, body), c)
<1>1. PICK d \in Views : /\ Runs(body, Entered(c, x), d)
                         /\ d.stack = Entered(c, x).stack
    BY DEF Returns
<1>2. Runs(<<Step("enter", x)>>, c, Entered(c, x))
    BY EnteredTyped, RunsOne
<1>3. Runs(<<Step("enter", x)>> \o body, c, d)
    BY <1>1, <1>2, RunsOn
<1>4. d.stack = Append(c.stack, [kind |-> "switch", at |-> c.schema]) /\ c.schema \in Places
    BY <1>1, EnteredTyped DEF Views
<1>5. PICK e \in Views : /\ Runs(<<Step("leave", "public")>>, d, e)
                         /\ e.schema = c.schema /\ e.stack = c.stack
    BY <1>4, LeaveBack
<1>6. Runs((<<Step("enter", x)>> \o body) \o <<Step("leave", "public")>>, c, e)
    BY <1>3, <1>5, RunsOn
<1>7. QED BY <1>5, <1>6 DEF Returns, Within

LEMMA OnAccountReturns ==
    ASSUME NEW c \in Views, NEW x \in Places, c.stack # <<>>, NEW body,
           Returns(body, OnOther(c, x))
    PROVE  Returns(OnAccount(x, body), c)
<1>1. PICK d \in Views : /\ Runs(body, OnOther(c, x), d)
                         /\ d.schema = OnOther(c, x).schema
                         /\ d.stack = OnOther(c, x).stack
    BY DEF Returns
<1>2. Runs(<<Step("account", x)>>, c, OnOther(c, x))
    BY OnOtherTyped, RunsOne
<1>3. Runs(<<Step("account", x)>> \o body, c, d)
    BY <1>1, <1>2, RunsOn
<1>4. d.stack = Append(c.stack, [kind |-> "reset", at |-> "public"]) /\ d.schema = c.schema
    BY <1>1, OnOtherTyped
<1>5. PICK e \in Views : /\ Runs(<<Step("leave", "public")>>, d, e)
                         /\ e.schema = c.schema /\ e.stack = c.stack
    BY <1>4, LeaveBack, PublicIsPlace
<1>6. Runs((<<Step("account", x)>> \o body) \o <<Step("leave", "public")>>, c, e)
    BY <1>3, <1>5, RunsOn
<1>7. QED BY <1>5, <1>6 DEF Returns, OnAccount

LEMMA ReturnsOn ==
    ASSUME NEW c \in Views, NEW d \in Views, NEW s, NEW u,
           Runs(s, c, d), d.schema = c.schema, d.stack = c.stack,
           Returns(u, d)
    PROVE  Returns(s \o u, c)
    BY RunsOn DEF Returns

LEMMA WorkReturns ==
    ASSUME NEW c \in Views, NEW x \in Places, x \in Tenants => AtHome(c, x)
    PROVE  Returns(Work(x), c)
    BY WorkRuns DEF Returns

-----------------------------------------------------------------------------
(* The directory of tenants *)

LEMMA SetToSeqTyped ==
    ASSUME NEW S, IsFiniteSet(S)
    PROVE  SetToSeq(S) \in Seq(S)
<1>1. Cardinality(S) \in Nat /\ ExistsBijection(1..Cardinality(S), S)
    BY FS_CardinalityType
<1>2. PICK g \in [1..Cardinality(S) -> S] : IsInjective(g)
    BY <1>1 DEF ExistsBijection, Bijection, Injection
<1>3. SetToSeq(S) \in [1..Cardinality(S) -> S]
    BY <1>2 DEF SetToSeq
<1>4. QED BY <1>1, <1>3

LEMMA VisitSteps ==
    ASSUME NEW y \in Tenants
    PROVE  LET v == Within(y, Work(y))
           IN  /\ v[1] = Step("enter", y) /\ v[2] = Step("work", y)
               /\ v[3] = Step("leave", "public")
<1> DEFINE a == Step("enter", y)
           b == Step("work", y)
           e == Step("leave", "public")
           u == <<a>> \o <<b>>
           v == u \o <<e>>
<1>1. a \in Steps /\ b \in Steps /\ e \in Steps
    BY StepTyped, PublicIsPlace
<1>2. v = Within(y, Work(y))
    BY DEF Within, Work
<1> HIDE DEF a, b, e
<1>3. /\ <<a>> \in Seq(Steps) /\ Len(<<a>>) = 1 /\ <<b>> \in Seq(Steps) /\ Len(<<b>>) = 1
      /\ <<e>> \in Seq(Steps) /\ Len(<<e>>) = 1
    BY <1>1
<1>4. u \in Seq(Steps) /\ Len(u) = 2 /\ u[1] = a /\ u[2] = b
    BY <1>3, ConcatProperties
<1> HIDE DEF u
<1>5. v[1] = a /\ v[2] = b /\ v[3] = e
    BY <1>3, <1>4, ConcatProperties
<1>6. QED BY <1>2, <1>5 DEF a, b, e

\* The three steps of a visit to y, from a view c of the public schema.
LEMMA VisitRuns ==
    ASSUME NEW c \in Views, c.schema = "public", NEW y \in Tenants
    PROVE  /\ Entered(c, y) \in Views /\ Connected(c, y) \in Views
           /\ Fits(Step("enter", y), c) /\ Effect(Step("enter", y), c) = Entered(c, y)
           /\ Fits(Step("work", y), Entered(c, y))
           /\ Effect(Step("work", y), Entered(c, y)) = Entered(c, y)
           /\ Fits(Step("leave", "public"), Entered(c, y))
           /\ Effect(Step("leave", "public"), Entered(c, y)) = Connected(c, y)
<1> DEFINE d == Entered(c, y)
           w == Step("work", y)
           s == Step("leave", "public")
           out == Outside(d, "public")
<1>1. y \in Places /\ "public" \in Places /\ "public" \notin Tenants
    BY PublicIsPlace, SwitchingAssumption
<1>2. /\ w.op = "work" /\ w.at = y /\ s.op = "leave"
    BY <1>1, StepTyped
<1>3. /\ d \in Views /\ d.stack = Append(c.stack, Home) /\ AtHome(d, y)
      /\ Fits(Step("enter", y), c) /\ Effect(Step("enter", y), c) = d
    BY <1>1, EnteredTyped DEF Home
<1>4. c.stack \in Seq(Clauses) /\ Home \in Clauses /\ Home.kind = "switch" /\ Home.at = "public"
    BY <1>1 DEF Views, Clauses, Home
<1> HIDE DEF w, s, d
<1>5. Fits(w, d) /\ Effect(w, d) = d
    BY <1>2, <1>3 DEF Fits, Effect
<1>6. d.stack # <<>> /\ Last(d.stack) = Home /\ Front(d.stack) = c.stack
    BY <1>3, <1>4, ClausePut
<1>7. Fits(s, d) /\ Effect(s, d) = Visited(out, "public")
    BY <1>2, <1>4, <1>6 DEF Fits, Effect
<1>8. Visited(out, "public") = out
    BY <1>1 DEF Visited
<1>9. out = Connected(c, y)
  <2>1. /\ out \in Views /\ out.schema = "public" /\ out.stack = c.stack
        /\ out.solr = y /\ out.fedora = y /\ out.redis = y
      BY <1>1, <1>3, <1>6, OutsideTyped DEF AtHome
  <2>2. /\ Connected(c, y) \in Views /\ Connected(c, y).schema = "public"
        /\ Connected(c, y).stack = c.stack /\ Connected(c, y).solr = y
        /\ Connected(c, y).fedora = y /\ Connected(c, y).redis = y
      BY <1>1 DEF Connected, Views
  <2> HIDE DEF out
  <2>3. QED BY <2>1, <2>2, SameView
<1>10. Connected(c, y) \in Views
    BY <1>1, ConnectedTyped
<1>11. QED BY <1>3, <1>5, <1>7, <1>8, <1>9, <1>10 DEF w, s, d

LEMMA ConnectedAgain ==
    ASSUME NEW c \in Views, NEW x \in Places, NEW y \in Places
    PROVE  Connected(Connected(c, x), y) = Connected(c, y)
    BY DEF Connected, Views

\* One visit after the other.
LEMMA VisitsReturn ==
    ASSUME NEW c \in Views, c.schema = "public", NEW order \in Seq(Tenants)
    PROVE  Returns([i \in 1..(3 * Len(order)) |->
                      Within(order[(i + 2) \div 3], Work(order[(i + 2) \div 3]))
                         [((i - 1) % 3) + 1]], c)
<1> DEFINE n == Len(order)
           visit(y) == Within(y, Work(y))
           s == [i \in 1..(3 * n) |-> visit(order[(i + 2) \div 3])[((i - 1) % 3) + 1]]
           home(k) == IF k = 0 THEN c ELSE Connected(c, order[k])
           view == [i \in 1..(3 * n + 1) |->
                      IF (i - 1) % 3 = 0
                      THEN home((i - 1) \div 3)
                      ELSE Entered(home((i - 1) \div 3), order[(i + 2) \div 3])]
<1>1. n \in Nat /\ \A k \in 1..n : order[k] \in Tenants /\ order[k] \in Places
    BY ElementOfSeq, LenProperties, PublicIsPlace
<1>2. ASSUME NEW k \in 0..n
      PROVE  home(k) \in Views /\ home(k).schema = "public" /\ home(k).stack = c.stack
    BY <1>1, <1>2, ConnectedTyped
<1>3. ASSUME NEW k \in 0..(n - 1)
      PROVE  /\ Entered(home(k), order[k + 1]) \in Views
             /\ Connected(home(k), order[k + 1]) = home(k + 1)
             /\ LET y == order[k + 1]
                    h == home(k)
                IN  /\ visit(y)[1] \in Steps /\ Fits(visit(y)[1], h)
                    /\ Effect(visit(y)[1], h) = Entered(h, y)
                    /\ visit(y)[2] \in Steps /\ Fits(visit(y)[2], Entered(h, y))
                    /\ Effect(visit(y)[2], Entered(h, y)) = Entered(h, y)
                    /\ visit(y)[3] \in Steps /\ Fits(visit(y)[3], Entered(h, y))
                    /\ Effect(visit(y)[3], Entered(h, y)) = home(k + 1)
  <2> DEFINE y == order[k + 1]
             h == home(k)
  <2>1. k \in 0..n /\ k + 1 \in 1..n /\ k + 1 # 0 /\ (k # 0 => k \in 1..n)
      BY <1>1
  <2>2. y \in Tenants /\ y \in Places /\ h \in Views /\ h.schema = "public"
      BY <1>1, <1>2, <2>1
  <2>3. Connected(h, y) = home(k + 1)
      BY <1>1, <2>1, <2>2, ConnectedAgain
  <2>4. /\ visit(y)[1] = Step("enter", y) /\ visit(y)[2] = Step("work", y)
        /\ visit(y)[3] = Step("leave", "public")
      BY <2>2, VisitSteps
  <2>5. /\ Step("enter", y) \in Steps /\ Step("work", y) \in Steps
        /\ Step("leave", "public") \in Steps
      BY <2>2, StepTyped, PublicIsPlace
  <2> HIDE DEF y, h, visit, home
  <2>6. /\ Entered(h, y) \in Views
        /\ Fits(Step("enter", y), h) /\ Effect(Step("enter", y), h) = Entered(h, y)
        /\ Fits(Step("work", y), Entered(h, y))
        /\ Effect(Step("work", y), Entered(h, y)) = Entered(h, y)
        /\ Fits(Step("leave", "public"), Entered(h, y))
        /\ Effect(Step("leave", "public"), Entered(h, y)) = Connected(h, y)
      BY <2>2, VisitRuns
  <2>7. QED BY <2>3, <2>4, <2>5, <2>6 DEF y, h
<1> HIDE DEF home, visit, n
<1>4. ASSUME NEW i \in 1..(3 * n)
      PROVE  s[i] \in Steps /\ Fits(s[i], view[i]) /\ view[i + 1] = Effect(s[i], view[i])
  <2> DEFINE k == (i - 1) \div 3
  <2>1. /\ k \in 0..(n - 1) /\ (i + 2) \div 3 = k + 1
        /\ i - 1 = 3 * k \/ i - 1 = 3 * k + 1 \/ i - 1 = 3 * k + 2
      BY <1>1
  <2> HIDE DEF k
  <2> DEFINE y == order[k + 1]
             h == home(k)
  <2>2. /\ visit(y)[1] \in Steps /\ Fits(visit(y)[1], h)
        /\ Effect(visit(y)[1], h) = Entered(h, y)
        /\ visit(y)[2] \in Steps /\ Fits(visit(y)[2], Entered(h, y))
        /\ Effect(visit(y)[2], Entered(h, y)) = Entered(h, y)
        /\ visit(y)[3] \in Steps /\ Fits(visit(y)[3], Entered(h, y))
        /\ Effect(visit(y)[3], Entered(h, y)) = home(k + 1)
      BY <1>3, <2>1
  <2>3. CASE i - 1 = 3 * k
    <3>1. /\ (i - 1) % 3 = 0 /\ (i - 1) \div 3 = k
          /\ ((i + 1) - 1) % 3 # 0 /\ ((i + 1) - 1) \div 3 = k /\ ((i + 1) + 2) \div 3 = k + 1
          /\ i \in 1..(3 * n + 1) /\ i + 1 \in 1..(3 * n + 1)
        BY <1>1, <2>1, <2>3
    <3>2. s[i] = visit(y)[1] /\ view[i] = h /\ view[i + 1] = Entered(h, y)
        BY <2>1, <3>1
    <3>3. QED BY <2>2, <3>2
  <2>4. CASE i - 1 = 3 * k + 1
    <3>1. /\ (i - 1) % 3 = 1 /\ (i - 1) \div 3 = k
          /\ ((i + 1) - 1) % 3 # 0 /\ ((i + 1) - 1) \div 3 = k /\ ((i + 1) + 2) \div 3 = k + 1
          /\ i \in 1..(3 * n + 1) /\ i + 1 \in 1..(3 * n + 1)
        BY <1>1, <2>1, <2>4
    <3>2. s[i] = visit(y)[2] /\ view[i] = Entered(h, y) /\ view[i + 1] = Entered(h, y)
        BY <2>1, <3>1
    <3>3. QED BY <2>2, <3>2
  <2>5. CASE i - 1 = 3 * k + 2
    <3>1. /\ (i - 1) % 3 = 2 /\ (i - 1) \div 3 = k
          /\ ((i + 1) - 1) % 3 = 0 /\ ((i + 1) - 1) \div 3 = k + 1
          /\ i \in 1..(3 * n + 1) /\ i + 1 \in 1..(3 * n + 1)
        BY <1>1, <2>1, <2>5
    <3>2. s[i] = visit(y)[3] /\ view[i] = Entered(h, y) /\ view[i + 1] = home(k + 1)
        BY <2>1, <3>1
    <3>3. QED BY <2>2, <3>2
  <2>6. QED BY <2>1, <2>3, <2>4, <2>5
<1>5. ASSUME NEW i \in 1..(3 * n + 1) PROVE view[i] \in Views
  <2> DEFINE k == (i - 1) \div 3
  <2>1. k \in 0..n
      BY <1>1
  <2>2. CASE (i - 1) % 3 = 0
      BY <1>2, <2>1, <2>2
  <2>3. CASE (i - 1) % 3 # 0
    <3>1. k \in 0..(n - 1) /\ (i + 2) \div 3 = k + 1
        BY <1>1, <2>3
    <3> HIDE DEF k
    <3>2. Entered(home(k), order[k + 1]) \in Views
        BY <1>3, <3>1
    <3>3. QED BY <2>3, <3>1, <3>2 DEF k
  <2>4. QED BY <2>2, <2>3
<1>6. s \in Seq(Steps) /\ Len(s) = 3 * n
  <2>1. \A i \in 1..(3 * n) : s[i] \in Steps
      BY <1>4
  <2>2. 3 * n \in Nat /\ s \in [1..(3 * n) -> Steps]
      BY <1>1, <2>1
  <2> HIDE DEF s
  <2>3. QED BY <2>2
<1>7. view[1] = c /\ view[3 * n + 1] = home(n)
    BY <1>1 DEF home
<1>8. home(n) \in Views /\ home(n).schema = "public" /\ home(n).stack = c.stack
    BY <1>1, <1>2
<1>9. view \in [1..(3 * n + 1) -> Views]
    BY <1>5
<1>10. Through(s, c, home(n), view)
  <2> HIDE DEF s, view
  <2>1. QED BY <1>4, <1>6, <1>7, <1>9 DEF Through
<1>11. Returns(s, c)
  <2> HIDE DEF s, view
  <2>1. QED BY <1>6, <1>8, <1>10 DEF Returns, Runs
<1>12. QED BY <1>11 DEF n, visit

LEMMA DirectoryReturns ==
    ASSUME NEW c \in Views, c.schema = "public", NEW x \in Tenants
    PROVE  Returns(Directory(x), c)
<1> DEFINE order == <<x>> \o SetToSeq(Tenants \ {x})
<1>1. IsFiniteSet(Tenants \ {x})
    BY SwitchingAssumption, FS_Subset
<1>2. SetToSeq(Tenants \ {x}) \in Seq(Tenants \ {x})
    BY <1>1, SetToSeqTyped
<1>3. SetToSeq(Tenants \ {x}) \in Seq(Tenants) /\ <<x>> \in Seq(Tenants)
    BY <1>2, SeqMonotonic
<1>4. order \in Seq(Tenants)
    BY <1>3, ConcatProperties
<1> HIDE DEF order
<1>5. Returns([i \in 1..(3 * Len(order)) |->
                 Within(order[(i + 2) \div 3], Work(order[(i + 2) \div 3]))
                    [((i - 1) % 3) + 1]], c)
    BY <1>4, VisitsReturn
<1>6. QED BY <1>5 DEF Directory, order

-----------------------------------------------------------------------------
(* Tasks *)

LEMMA RequestReturns ==
    ASSUME NEW c \in Views, NEW x \in Tenants, NEW body, Returns(body, Entered(c, x))
    PROVE  Returns(Request(x, body), c)
<1> DEFINE d == Entered(c, x)
<1>1. x \in Places /\ d \in Views /\ AtHome(d, x)
    BY EnteredTyped, PublicIsPlace
<1>2. Runs(Connections(x), d, d)
    BY <1>1, ConnectionsRun, ConnectedTyped
<1>3. Returns(Connections(x) \o body, d)
    BY <1>1, <1>2, ReturnsOn
<1>4. QED BY <1>1, <1>3, WithinReturns DEF Request

LEMMA AdminReturns ==
    ASSUME NEW c \in Views, NEW body, Returns(body, Connected(c, "public"))
    PROVE  Returns(AdminRequest(body), c)
<1> DEFINE d == Connected(c, "public")
<1>1. Runs(Connections("public"), c, d)
    BY ConnectionsRun, PublicIsPlace
<1>2. d \in Views /\ d.schema = c.schema /\ d.stack = c.stack
    BY ConnectedTyped, PublicIsPlace
<1> HIDE DEF d
<1>3. Returns(Connections("public") \o body, c)
    BY <1>1, <1>2, ReturnsOn DEF d
<1>4. QED BY <1>3 DEF AdminRequest

\* A mail or a job performed in place finds the tenant at home and leaves it so.
LEMMA AgainRuns ==
    ASSUME NEW c \in Views, NEW x \in Tenants, c.schema = x,
           NEW op \in {"deliver", "perform_now"}
    PROVE  Runs(<<Step(op, x)>>, c, Connected(c, x))
<1> DEFINE s == Step(op, x)
<1>1. x \in Places /\ s \in Steps /\ s.op = op /\ s.at = x
    BY StepTyped, PublicIsPlace
<1> HIDE DEF s
<1>2. Fits(s, c) /\ Effect(s, c) = Visited(c, x)
    BY <1>1 DEF Fits, Effect
<1>3. Visited(c, x) = Connected(c, x)
    BY DEF Visited
<1>4. Runs(<<s>>, c, Connected(c, x))
    BY <1>1, <1>2, <1>3, RunsOne
<1>5. QED BY <1>4 DEF s

LEMMA RemovalReturns ==
    ASSUME NEW c \in Views, NEW x \in Tenants
    PROVE  Returns(<<Step("fedora", x), Step("erase", x)>> \o RemoveKeys(x), c)
<1> DEFINE a == Step("fedora", x)
           b == Step("erase", x)
           e == Step("redis", x)
           f == Step("keys", x)
           g == Step("del", x)
           d == [c EXCEPT !.fedora = x]
           h == [d EXCEPT !.redis = x]
<1>1. /\ a \in Steps /\ a.op = "fedora" /\ a.at = x
      /\ b \in Steps /\ b.op = "erase" /\ b.at = x
      /\ e \in Steps /\ e.op = "redis" /\ e.at = x
      /\ f \in Steps /\ f.op = "keys" /\ f.at = x
      /\ g \in Steps /\ g.op = "del" /\ g.at = x
    BY StepTyped, PublicIsPlace
<1>2. /\ d \in Views /\ d.schema = c.schema /\ d.stack = c.stack /\ d.fedora = x
      /\ h \in Views /\ h.schema = c.schema /\ h.stack = c.stack /\ h.redis = x
    BY PublicIsPlace DEF Views
<1>3. RemoveKeys(x) = <<e, f, g>>
    BY DEF RemoveKeys
<1> HIDE DEF a, b, e, f, g
<1>4. Effect(a, c) = d /\ Effect(e, d) = h
    BY <1>1 DEF Effect
<1> HIDE DEF d, h
<1>5. /\ Fits(a, c) /\ Fits(b, d) /\ Effect(b, d) = d
      /\ Fits(e, d) /\ Fits(f, h) /\ Effect(f, h) = h
      /\ Fits(g, h) /\ Effect(g, h) = h
    BY <1>1, <1>2 DEF Fits, Effect
<1>6. Runs(<<a, b>>, c, d)
    BY <1>1, <1>4, <1>5, RunsTwo
<1>7. Runs(<<e, f, g>>, d, h)
    BY <1>1, <1>2, <1>4, <1>5, RunsThree
<1>8. Runs(<<a, b>> \o <<e, f, g>>, c, h)
    BY <1>6, <1>7, RunsOn
<1>9. QED BY <1>2, <1>3, <1>8 DEF Returns, a, b

LEMMA ProgramReturns ==
    ASSUME NEW c \in Views, c.schema = "public", c.stack = <<>>,
           NEW kind \in AllKinds, NEW x \in Tenants
    PROVE  Returns(Program(kind, x), c)
<1> DEFINE d == Entered(c, x)
           p == Connected(c, "public")
<1>1. /\ x \in Places /\ "public" \in Places /\ "public" \notin Tenants
      /\ d \in Views /\ AtHome(d, x) /\ d.schema = x /\ d.stack # <<>>
      /\ p \in Views /\ p.schema = "public" /\ p.stack = <<>>
    BY SwitchingAssumption, PublicIsPlace, EnteredTyped, ConnectedTyped
<1> HIDE DEF d, p
<1>2. Returns(Work(x), d)
    BY <1>1, WorkReturns
<1>3. Connected(d, x) = d
    BY <1>1, ConnectedTyped
<1>4. CASE kind = "request"
  <2>1. Program(kind, x) = Request(x, Work(x))
      BY <1>4 DEF Program
  <2>2. QED BY <1>2, <2>1, RequestReturns DEF d
<1>5. CASE kind \in {"nested", "mail"}
  <2>1. PICK op \in {"deliver", "perform_now"} :
            Program(kind, x) = Request(x, <<Step(op, x)>> \o Work(x))
      BY <1>5 DEF Program
  <2>2. Runs(<<Step(op, x)>>, d, d)
      BY <1>1, <1>3, AgainRuns
  <2>3. Returns(<<Step(op, x)>> \o Work(x), d)
      BY <1>1, <1>2, <2>2, ReturnsOn
  <2>4. QED BY <2>1, <2>3, RequestReturns DEF d
<1>6. CASE kind = "admin"
  <2>1. Program(kind, x) = AdminRequest(Within(x, Work(x)) \o Work("public"))
      BY <1>6 DEF Program
  <2>2. Entered(p, x) \in Views /\ AtHome(Entered(p, x), x)
      BY <1>1, EnteredTyped
  <2>3. Returns(Within(x, Work(x)), p)
      BY <1>1, <2>2, WorkReturns, WithinReturns
  <2>4. PICK e \in Views : /\ Runs(Within(x, Work(x)), p, e)
                           /\ e.schema = p.schema /\ e.stack = p.stack
      BY <2>3 DEF Returns
  <2>5. Returns(Work("public"), e)
      BY <1>1, WorkReturns
  <2>6. Returns(Within(x, Work(x)) \o Work("public"), p)
      BY <1>1, <2>4, <2>5, ReturnsOn
  <2>7. QED BY <2>1, <2>6, AdminReturns DEF p
<1>7. CASE kind = "splash"
  <2>1. Program(kind, x) = AdminRequest(Directory(x))
      BY <1>7 DEF Program
  <2>2. QED BY <1>1, <2>1, DirectoryReturns, AdminReturns DEF p
<1>8. CASE kind = "create"
  <2>1. Program(kind, x) = AdminRequest(Within(x, OnAccount(x, Work(x))))
      BY <1>8 DEF Program
  <2> DEFINE e == Entered(p, x)
  <2>2. e \in Views /\ e.schema = x /\ e.stack # <<>>
      BY <1>1, EnteredTyped
  <2>3. OnOther(e, x) \in Views /\ AtHome(OnOther(e, x), x)
      BY <1>1, <2>2, OnOtherTyped
  <2>4. Returns(OnAccount(x, Work(x)), e)
      BY <1>1, <2>2, <2>3, WorkReturns, OnAccountReturns
  <2>5. QED BY <1>1, <2>1, <2>4, WithinReturns, AdminReturns DEF p
<1>9. CASE kind = "cleanup"
  <2> DEFINE s == <<Step("fedora", x), Step("erase", x)>>
  <2>1. Program(kind, x) = AdminRequest((Work("public") \o s) \o RemoveKeys(x))
      BY <1>9 DEF Program
  <2>2. /\ Work("public") \in Seq(Steps) /\ s \in Seq(Steps)
        /\ RemoveKeys(x) \in Seq(Steps)
      BY <1>1, StepTyped DEF Work, RemoveKeys
  <2>3. Returns(s \o RemoveKeys(x), p)
      BY <1>1, RemovalReturns
  <2> HIDE DEF s
  <2>4. (Work("public") \o s) \o RemoveKeys(x) = Work("public") \o (s \o RemoveKeys(x))
      BY <2>2, ConcatAssociative
  <2>5. Runs(Work("public"), p, p)
      BY <1>1, WorkRuns
  <2>6. Returns(Work("public") \o (s \o RemoveKeys(x)), p)
      BY <1>1, <2>3, <2>5, ReturnsOn
  <2>7. QED BY <2>1, <2>4, <2>6, AdminReturns DEF p
<1>10. CASE kind = "expiry"
  <2>1. Program(kind, x) = Within(x, <<Step("perform_now", x)>>)
      BY <1>10 DEF Program
  <2>2. Runs(<<Step("perform_now", x)>>, d, d)
      BY <1>1, <1>3, AgainRuns
  <2>3. Returns(<<Step("perform_now", x)>>, d)
      BY <1>1, <2>2 DEF Returns
  <2>4. QED BY <1>1, <2>1, <2>3, WithinReturns DEF d
<1>11. QED BY <1>4, <1>5, <1>6, <1>7, <1>8, <1>9, <1>10 DEF AllKinds

LEMMA JobReturns ==
    ASSUME NEW c \in Views, NEW j \in Jobs, j.for \in Tenants => j.tenant = j.for
    PROVE  Returns(JobProgram(j), c)
<1>1. j.tenant \in Places /\ j.for \in Places
    BY DEF Jobs
<1>2. /\ Entered(c, j.tenant) \in Views
      /\ j.for \in Tenants => AtHome(Entered(c, j.tenant), j.for)
    BY <1>1, EnteredTyped
<1>3. QED BY <1>1, <1>2, WorkReturns, WithinReturns DEF JobProgram

-----------------------------------------------------------------------------
(* Errors *)

\* Leaving a clause leaves the first of them where it is.
LEMMA GroundedFront ==
    ASSUME NEW stack \in Seq(Clauses), stack # <<>>, stack[1] = Home, NEW place,
           Last(stack).kind = "switch" => place = Last(stack).at
    PROVE  Grounded(Front(stack), place)
<1> DEFINE n == Len(stack)
           f == Front(stack)
<1>1. /\ n \in Nat \ {0} /\ Last(stack) = stack[n]
      /\ f \in Seq(Clauses) /\ Len(f) = n - 1
      /\ \A i \in 1..(n - 1) : f[i] = stack[i]
    BY ClauseTaken
<1>2. Home.kind = "switch" /\ Home.at = "public"
    BY DEF Home
<1> HIDE DEF n, f
<1>3. CASE n = 1
  <2>1. f = <<>> /\ place = "public"
      BY <1>1, <1>2, <1>3, EmptySeq
  <2>2. QED BY <2>1 DEF Grounded, f
<1>4. CASE n # 1
  <2>1. f[1] = Home /\ f # <<>>
      BY <1>1, <1>4, EmptySeq
  <2>2. QED BY <2>1 DEF Grounded, f
<1>5. QED BY <1>3, <1>4

\* The clauses that an error unwinds, one after the other, end in the public
\* schema: by induction on their number.
LEMMA UnwoundEnds ==
    ASSUME NEW c \in Views, Grounded(c.stack, c.schema)
    PROVE  Ends(Unwound(c.stack), c)
<1> DEFINE All(n) == \A v \in Views :
                        Len(v.stack) = n /\ Grounded(v.stack, v.schema)
                           => Ends(Unwound(v.stack), v)
           Bad == {n \in Nat : ~All(n)}
<1>1. Bad = {}
  <2> SUFFICES ASSUME Bad # {} PROVE FALSE
      OBVIOUS
  <2>1. PICK n \in Bad : \A m \in Bad : ~(<<m, n>> \in OpToRel(<, Nat))
    <3>1. Bad \subseteq Nat
        OBVIOUS
    <3> HIDE DEF Bad
    <3>2. QED BY <3>1, NatLessThanWellFounded, WFMin
  <2>2. n \in Nat /\ \A m \in Nat : m < n => All(m)
      BY <2>1 DEF OpToRel
  <2>3. PICK v \in Views : Len(v.stack) = n /\ Grounded(v.stack, v.schema) /\ ~Ends(Unwound(v.stack), v)
      BY <2>1
  <2> HIDE DEF Bad
  <2>4. v.stack \in Seq(Clauses) /\ v.schema \in Places
      BY DEF Views
  <2>5. CASE v.stack = <<>>
    <3>1. Unwound(v.stack) = <<>>
        BY <2>5 DEF Unwound
    <3>2. QED BY <2>3, <2>5, <3>1, RunsNothing DEF Ends, Grounded
  <2>6. CASE v.stack # <<>>
    <3> DEFINE s == Step("leave", "public")
               e == Last(v.stack)
               u == Effect(s, v)
               r == Unwound(v.stack)
               q == Unwound(Front(v.stack))
    <3>1. s \in Steps /\ s.op = "leave"
        BY StepTyped, PublicIsPlace
    <3>2. /\ n \in Nat \ {0} /\ e \in Clauses /\ e = v.stack[n]
          /\ Front(v.stack) \in Seq(Clauses) /\ Len(Front(v.stack)) = n - 1
          /\ \A i \in 1..(n - 1) : Front(v.stack)[i] = v.stack[i]
          /\ e.at \in Places
        BY <2>3, <2>4, <2>6, ClauseTaken DEF Clauses
    <3>3. r \in Seq(Steps) /\ Len(r) = n /\ \A i \in 1..n : r[i] = s
        BY <2>3, <3>1, <3>2 DEF Unwound
    <3>4. q \in Seq(Steps) /\ Len(q) = n - 1 /\ \A i \in 1..(n - 1) : q[i] = s
        BY <3>1, <3>2 DEF Unwound
    <3> HIDE DEF s, e
    <3>5. Fits(s, v)
        BY <2>6, <3>1 DEF Fits
    <3>6. u = IF e.kind = "switch"
              THEN Visited(Outside(v, e.at), e.at)
              ELSE Connected(Outside(v, v.schema), "public")
        BY <3>1 DEF Effect, e
    <3>7. Runs(<<s>>, v, u) /\ u \in Views
        BY <3>1, <3>5, RunsOne, EffectTyped
    <3> HIDE DEF u, r, q
    <3>8. /\ Outside(v, e.at) \in Views /\ Outside(v, e.at).schema = e.at
          /\ Outside(v, e.at).stack = Front(v.stack)
          /\ Outside(v, v.schema) \in Views /\ Outside(v, v.schema).schema = v.schema
          /\ Outside(v, v.schema).stack = Front(v.stack)
        BY <2>4, <2>6, <3>2, OutsideTyped
    <3>9. u.stack = Front(v.stack) /\ (e.kind = "switch" => u.schema = e.at)
        BY <3>2, <3>6, <3>8, ConnectedTyped, PublicIsPlace
    <3>10. Grounded(u.stack, u.schema)
      <4>1. v.stack[1] = Home
          BY <2>3, <2>6 DEF Grounded
      <4>2. QED BY <2>4, <2>6, <3>9, <4>1, GroundedFront DEF e
    <3>11. Ends(q, u)
      <4>1. n - 1 \in Nat /\ n - 1 < n
          BY <3>2
      <4>2. All(n - 1)
          BY <2>2, <4>1
      <4>3. Len(u.stack) = n - 1
          BY <3>2, <3>9
      <4>4. QED BY <3>7, <3>9, <3>10, <4>2, <4>3 DEF q
    <3>12. PICK d \in Views : Runs(q, u, d) /\ d.schema = "public" /\ d.stack = <<>>
        BY <3>11 DEF Ends
    <3>13. r = <<s>> \o q
      <4>1. <<s>> \in Seq(Steps) /\ Len(<<s>>) = 1 /\ <<s>>[1] = s
          BY <3>1
      <4>2. /\ <<s>> \o q \in Seq(Steps) /\ Len(<<s>> \o q) = n
            /\ \A i \in 1..n : (<<s>> \o q)[i] = s
          BY <3>2, <3>4, <4>1, ConcatProperties
      <4>3. QED BY <3>3, <4>2, SeqEqual
    <3>14. Runs(r, v, d)
        BY <3>7, <3>12, <3>13, RunsOn
    <3>15. QED BY <2>3, <3>12, <3>14 DEF Ends, r
  <2>7. QED BY <2>5, <2>6
<1>2. Len(c.stack) \in Nat
    BY LenProperties DEF Views
<1>3. All(Len(c.stack))
    BY <1>1, <1>2
<1>4. QED BY <1>3

-----------------------------------------------------------------------------
(* Steps of a thread *)

\* What the next step of a thread needs, and the run that goes on behind it.
LEMMA Taken ==
    ASSUME TypeOK, ReadyInv, NEW t \in Threads, ~Idle(t)
    PROVE  /\ Head(todo[t]) \in Steps /\ Tail(todo[t]) \in Seq(Steps)
           /\ Place(t) \in Places
           /\ \E c \in Views :
                 /\ Sees(t, c) /\ Fits(Head(todo[t]), c)
                 /\ Effect(Head(todo[t]), c) \in Views
                 /\ Ends(Tail(todo[t]), Effect(Head(todo[t]), c))
<1> DEFINE s == todo[t]
<1>1. s \in Seq(Steps) /\ s # <<>>
    BY DEF TypeOK, Idle
<1>2. PICK c \in Views, d \in Views :
         Sees(t, c) /\ Runs(s, c, d) /\ d.schema = "public" /\ d.stack = <<>>
    BY DEF ReadyInv, Ends
<1> HIDE DEF s
<1>3. /\ Head(s) \in Steps /\ Tail(s) \in Seq(Steps) /\ Fits(Head(s), c)
      /\ Runs(Tail(s), Effect(Head(s), c), d)
    BY <1>1, <1>2, RunsTail
<1>4. Effect(Head(s), c) \in Views
    BY <1>3, EffectTyped
<1>5. Head(s).at \in Places
    BY <1>3 DEF Steps
<1>6. QED BY <1>2, <1>3, <1>4, <1>5 DEF s, Place, Ends

LEMMA EndsOn ==
    ASSUME NEW s, NEW u, NEW c, NEW d, Runs(s, c, d), Ends(u, d)
    PROVE  Ends(s \o u, c)
    BY RunsOn DEF Ends

\* Nothing that t does moves another thread.
OnlyMoves(t) ==
    /\ \A u \in Threads \ {t} :
          /\ schema'[u] = schema[u] /\ solr'[u] = solr[u] /\ fedora'[u] = fedora[u]
          /\ ensures'[u] = ensures[u] /\ todo'[u] = todo[u]
    /\ \A u \in Threads \ {t}, f \in Shared :
          setter'[f] = u => setter[f] = u /\ shared'[f] = shared[f]

LEMMA ReadyKept ==
    ASSUME ReadyInv, NEW t \in Threads, OnlyMoves(t),
           \E c \in Views : Sees(t, c)' /\ Ends(todo'[t], c)
    PROVE  ReadyInv'
<1> SUFFICES ASSUME NEW u \in Threads
             PROVE  \E c \in Views : Sees(u, c)' /\ Ends(todo'[u], c)
    BY DEF ReadyInv
<1>1. CASE u = t
    BY <1>1
<1>2. CASE u # t
  <2>1. PICK c \in Views : Sees(u, c) /\ Ends(todo[u], c)
      BY DEF ReadyInv
  <2>2. Sees(u, c)'
      BY <1>2, <2>1 DEF Sees, OnlyMoves, Shared
  <2>3. todo'[u] = todo[u]
      BY <1>2 DEF OnlyMoves
  <2>4. QED BY <2>1, <2>2, <2>3
<1>3. QED BY <1>1, <1>2

LEMMA GroundedKept ==
    ASSUME GroundedInv, NEW t \in Threads, OnlyMoves(t), Grounded(ensures'[t], schema'[t])
    PROVE  GroundedInv'
    BY DEF GroundedInv, OnlyMoves

LEMMA BlacklightKept ==
    ASSUME BlacklightInv, NEW t \in Threads, OnlyMoves(t),
           setter'["blacklight"] = t => shared'["blacklight"] = solr'[t]
    PROVE  BlacklightInv'
    BY DEF BlacklightInv, OnlyMoves, Shared

LEMMA ConnectKeeps ==
    ASSUME SwitchInv, NEW t \in Threads, Connect(t)
    PROVE  SwitchInv'
<1> USE DEF SwitchInv
<1> DEFINE op == Head(todo[t]).op
           x == Place(t)
           s == Head(todo[t])
<1>1. /\ ~Idle(t) /\ op \in {"solr", "fedora", "redis"}
      /\ solr' = IF op = "solr" THEN [solr EXCEPT ![t] = x] ELSE solr
      /\ fedora' = IF op = "fedora" THEN [fedora EXCEPT ![t] = x] ELSE fedora
      /\ shared' = [f \in Shared |-> IF f \in Fields(op) THEN x ELSE shared[f]]
      /\ setter' = [f \in Shared |-> IF f \in Fields(op) THEN t ELSE setter[f]]
      /\ todo' = [todo EXCEPT ![t] = Tail(todo[t])]
      /\ schema' = schema /\ ensures' = ensures /\ listed' = listed /\ keys' = keys
      /\ jobs' = jobs /\ tasks' = tasks /\ raises' = raises
    BY DEF Connect, At, Go, Become
<1>2. /\ s \in Steps /\ Tail(todo[t]) \in Seq(Steps) /\ x \in Places
    BY <1>1, Taken
<1>3. PICK c \in Views : /\ Sees(t, c) /\ Effect(s, c) \in Views
                         /\ Ends(Tail(todo[t]), Effect(s, c))
    BY <1>1, Taken
<1>4. s.op = op /\ s.at = x
    BY DEF Place
<1> HIDE DEF op, x, s
<1>5. TypeOK'
    BY <1>1, <1>2 DEF TypeOK
<1>6. /\ todo'[t] = Tail(todo[t])
      /\ solr'[t] = IF op = "solr" THEN x ELSE solr[t]
      /\ fedora'[t] = IF op = "fedora" THEN x ELSE fedora[t]
      /\ \A u \in Threads \ {t} : solr'[u] = solr[u] /\ fedora'[u] = fedora[u] /\ todo'[u] = todo[u]
      /\ \A f \in Shared :
            /\ shared'[f] = IF f \in Fields(op) THEN x ELSE shared[f]
            /\ setter'[f] = IF f \in Fields(op) THEN t ELSE setter[f]
    BY <1>1 DEF TypeOK
<1>7. OnlyMoves(t)
    BY <1>1, <1>6 DEF OnlyMoves
<1>8. "redis" \in Fields(op) <=> op = "redis"
    BY <1>1 DEF Fields, Shared
<1>9. "blacklight" \in Fields(op) <=> op = "solr"
    BY <1>1 DEF Fields, Shared
<1>10. ReadyInv'
  <2>1. PICK d \in Views : d = Effect(s, c)
      BY <1>3
  <2>2. /\ d.schema = c.schema /\ d.stack = c.stack
        /\ d.solr = IF op = "solr" THEN x ELSE c.solr
        /\ d.fedora = IF op = "fedora" THEN x ELSE c.fedora
        /\ d.redis = IF op = "redis" THEN x ELSE c.redis
      BY <1>1, <1>4, <2>1 DEF Effect, Views
  <2>3. Sees(t, d)'
      BY <1>1, <1>3, <1>6, <1>8, <2>2 DEF Sees, Shared
  <2>4. QED BY <1>3, <1>6, <1>7, <2>1, <2>3, ReadyKept
<1>11. GroundedInv'
    BY <1>1 DEF GroundedInv
<1>12. BlacklightInv'
  <2>1. setter'["blacklight"] = t => shared'["blacklight"] = solr'[t]
      BY <1>6, <1>9 DEF BlacklightInv, Shared
  <2>2. QED BY <1>7, <2>1, BlacklightKept
<1>13. QED BY <1>1, <1>5, <1>10, <1>11, <1>12 DEF JobsInv

LEMMA StackTyped ==
    ASSUME TypeOK, NEW t \in Threads
    PROVE  ensures[t] \in Seq(Clauses) /\ schema[t] \in Places
    BY DEF TypeOK

\* What the steps behind a switch need of the rest of the state.
LEMMA SwitchKeeps ==
    ASSUME SwitchInv, NEW t \in Threads, NEW stack \in Seq(Clauses), NEW x \in Places,
           NEW program \in Seq(Steps), NEW c \in Views,
           schema' = [schema EXCEPT ![t] = x],
           ensures' = [ensures EXCEPT ![t] = stack],
           todo' = [todo EXCEPT ![t] = program],
           UNCHANGED <<solr, fedora, shared, setter, listed, keys, jobs, tasks, raises>>,
           c.schema = x, c.stack = stack, c.solr = solr[t], c.fedora = fedora[t],
           setter["redis"] = t => shared["redis"] = c.redis,
           Ends(program, c), Grounded(stack, x)
    PROVE  SwitchInv'
<1> USE DEF SwitchInv
<1>1. TypeOK'
    BY DEF TypeOK
<1>2. /\ schema'[t] = x /\ ensures'[t] = stack /\ todo'[t] = program
      /\ \A u \in Threads \ {t} :
            schema'[u] = schema[u] /\ ensures'[u] = ensures[u] /\ todo'[u] = todo[u]
    BY DEF TypeOK
<1>3. OnlyMoves(t)
    BY <1>2 DEF OnlyMoves
<1>4. Sees(t, c)'
    BY <1>2 DEF Sees
<1>5. ReadyInv'
    BY <1>2, <1>3, <1>4, ReadyKept
<1>6. GroundedInv'
    BY <1>2, <1>3, GroundedKept
<1>7. BlacklightInv'
    BY DEF BlacklightInv
<1>8. QED BY <1>1, <1>5, <1>6, <1>7 DEF JobsInv

LEMMA EnterKeeps ==
    ASSUME SwitchInv, NEW t \in Threads, At(t, {"enter"}), Enter(t)
    PROVE  SwitchInv'
<1> USE DEF SwitchInv
<1> DEFINE s == Head(todo[t])
           x == Place(t)
           clause == [kind |-> "switch", at |-> schema[t]]
           stack == Append(ensures[t], clause)
           program == AfterSwitch(x) \o Tail(todo[t])
<1>1. ~Idle(t) /\ s.op = "enter" /\ s.at = x
    BY DEF At, Place
<1>2. s \in Steps /\ Tail(todo[t]) \in Seq(Steps) /\ x \in Places
    BY <1>1, Taken
<1>3. PICK c \in Views : /\ Sees(t, c) /\ Effect(s, c) \in Views
                         /\ Ends(Tail(todo[t]), Effect(s, c))
    BY <1>1, Taken
<1>4. AfterSwitch(x) \in Seq(Steps)
    BY <1>2, <1>3, AfterSwitchRun DEF Runs
<1>5. program = (AfterSwitch(x) \o <<>>) \o Tail(todo[t])
    BY <1>4, ConcatEmptySeq
<1>6. /\ schema' = [schema EXCEPT ![t] = x]
      /\ ensures' = [ensures EXCEPT ![t] = stack]
      /\ todo' = [todo EXCEPT ![t] = program]
      /\ UNCHANGED <<solr, fedora, shared, setter, listed, keys, jobs, tasks, raises>>
    BY <1>5 DEF Enter, Become
<1>7. c.schema = schema[t] /\ c.stack = ensures[t]
    BY <1>3 DEF Sees
<1>8. stack \in Seq(Clauses) /\ stack # <<>> /\ program \in Seq(Steps)
    BY <1>2, <1>4, StackTyped, ClausePut, ConcatProperties DEF Clauses
<1>9. Grounded(stack, x)
  <2>1. CASE ensures[t] = <<>>
    <3>1. schema[t] = "public" /\ Len(ensures[t]) = 0
        BY <2>1, EmptySeq DEF GroundedInv, Grounded
    <3>2. stack[1] = clause
        BY <3>1, StackTyped, AppendProperties DEF Clauses
    <3>3. QED BY <1>8, <3>1, <3>2 DEF Grounded, Home
  <2>2. CASE ensures[t] # <<>>
    <3>1. ensures[t][1] = Home /\ 1 \in 1..Len(ensures[t])
        BY <2>2, StackTyped, EmptySeq DEF GroundedInv, Grounded
    <3>2. stack[1] = Home
        BY <3>1, StackTyped, AppendProperties DEF Clauses
    <3>3. QED BY <1>8, <3>2 DEF Grounded
  <2>3. QED BY <2>1, <2>2
<1> HIDE DEF s, x, clause, stack, program
<1> DEFINE d == Inside(c, x, "switch", c.schema)
<1>10. /\ d \in Views /\ d.schema = x /\ d.stack = stack /\ d.solr = c.solr
       /\ d.fedora = c.fedora /\ d.redis = c.redis
    BY <1>2, <1>7, InsideTyped, StackTyped DEF stack, clause
<1>11. Effect(s, c) = Visited(d, x)
    BY <1>1 DEF Effect
<1> HIDE DEF d
<1>12. Ends(program, d)
    BY <1>2, <1>3, <1>10, <1>11, AfterSwitchRun, EndsOn DEF program
<1>13. d.solr = solr[t] /\ d.fedora = fedora[t]
       /\ (setter["redis"] = t => shared["redis"] = d.redis)
    BY <1>3, <1>10 DEF Sees
<1>14. QED BY <1>2, <1>6, <1>8, <1>9, <1>10, <1>12, <1>13, SwitchKeeps

LEMMA SwitchAccountKeeps ==
    ASSUME SwitchInv, NEW t \in Threads, SwitchAccount(t)
    PROVE  SwitchInv'
<1> USE DEF SwitchInv
<1> DEFINE s == Head(todo[t])
           x == Place(t)
           clause == [kind |-> "reset", at |-> "public"]
           stack == Append(ensures[t], clause)
           program == Connections(x) \o Tail(todo[t])
<1>1. ~Idle(t) /\ s.op = "account" /\ s.at = x
    BY DEF SwitchAccount, At, Place
<1>2. s \in Steps /\ Tail(todo[t]) \in Seq(Steps) /\ x \in Places
    BY <1>1, Taken
<1>3. PICK c \in Views : /\ Sees(t, c) /\ Fits(s, c) /\ Effect(s, c) \in Views
                         /\ Ends(Tail(todo[t]), Effect(s, c))
    BY <1>1, Taken
<1>4. /\ schema' = [schema EXCEPT ![t] = schema[t]]
      /\ ensures' = [ensures EXCEPT ![t] = stack]
      /\ todo' = [todo EXCEPT ![t] = program]
      /\ UNCHANGED <<solr, fedora, shared, setter, listed, keys, jobs, tasks, raises>>
    BY DEF SwitchAccount, Become, TypeOK
<1>5. c.schema = schema[t] /\ c.stack = ensures[t] /\ ensures[t] # <<>>
    BY <1>1, <1>3 DEF Sees, Fits
<1>6. Connections(x) \in Seq(Steps)
    BY <1>2, <1>3, ConnectionsRun DEF Runs
<1>7. clause \in Clauses
    BY PublicIsPlace DEF Clauses
<1>8. stack \in Seq(Clauses) /\ stack # <<>> /\ program \in Seq(Steps)
    BY <1>2, <1>6, <1>7, StackTyped, ClausePut, ConcatProperties
<1>9. Grounded(stack, schema[t])
  <2>1. ensures[t][1] = Home /\ 1 \in 1..Len(ensures[t])
      BY <1>5, StackTyped, EmptySeq DEF GroundedInv, Grounded
  <2>2. stack[1] = Home
      BY <1>7, <2>1, StackTyped, AppendProperties
  <2>3. QED BY <1>8, <2>2 DEF Grounded
<1> HIDE DEF s, x, clause, stack, program
<1> DEFINE d == Inside(c, c.schema, "reset", "public")
<1>10. /\ d \in Views /\ d.schema = schema[t] /\ d.stack = stack /\ d.solr = c.solr
       /\ d.fedora = c.fedora /\ d.redis = c.redis
    BY <1>5, InsideTyped, StackTyped, PublicIsPlace DEF stack, clause
<1>11. Effect(s, c) = Connected(d, x)
    BY <1>1 DEF Effect
<1> HIDE DEF d
<1>12. Ends(program, d)
    BY <1>2, <1>3, <1>10, <1>11, ConnectionsRun, EndsOn DEF program
<1>13. d.solr = solr[t] /\ d.fedora = fedora[t]
       /\ (setter["redis"] = t => shared["redis"] = d.redis)
    BY <1>3, <1>10 DEF Sees
<1>14. QED BY <1>4, <1>8, <1>9, <1>10, <1>12, <1>13, StackTyped, SwitchKeeps

LEMMA PerformNowKeeps ==
    ASSUME SwitchInv, NEW t \in Threads, At(t, {"perform_now"}), Enter(t)
    PROVE  SwitchInv'
<1> USE DEF SwitchInv
<1> DEFINE s == Head(todo[t])
           x == schema[t]
           w == Step("work", x)
           l == Step("leave", "public")
           clause == [kind |-> "switch", at |-> x]
           stack == Append(ensures[t], clause)
           body == <<w, l>>
           program == (AfterSwitch(x) \o body) \o Tail(todo[t])
<1>1. ~Idle(t) /\ s.op = "perform_now" /\ ~At(t, {"enter"})
    BY DEF At
<1>2. s \in Steps /\ Tail(todo[t]) \in Seq(Steps) /\ s.at \in Places
    BY <1>1, Taken DEF Place
<1>3. PICK c \in Views : /\ Sees(t, c) /\ Fits(s, c) /\ Effect(s, c) \in Views
                         /\ Ends(Tail(todo[t]), Effect(s, c))
    BY <1>1, Taken
<1>4. c.schema = x /\ c.stack = ensures[t] /\ s.at = x /\ x \in Tenants /\ x \in Places
    BY <1>1, <1>2, <1>3 DEF Sees, Fits
<1>5. /\ w \in Steps /\ w.op = "work" /\ w.at = x /\ l \in Steps /\ l.op = "leave"
    BY <1>4, StepTyped, PublicIsPlace
<1>6. /\ schema' = [schema EXCEPT ![t] = x]
      /\ ensures' = [ensures EXCEPT ![t] = stack]
      /\ todo' = [todo EXCEPT ![t] = program]
      /\ UNCHANGED <<solr, fedora, shared, setter, listed, keys, jobs, tasks, raises>>
    BY <1>1, <1>4 DEF Enter, Become, Place
<1>7. AfterSwitch(x) \in Seq(Steps) /\ body \in Seq(Steps)
    BY <1>3, <1>4, <1>5, AfterSwitchRun DEF Runs
<1>8. stack \in Seq(Clauses) /\ stack # <<>> /\ program \in Seq(Steps)
    BY <1>2, <1>4, <1>7, StackTyped, ClausePut, ConcatProperties DEF Clauses
<1>9. Grounded(stack, x)
  <2>1. ensures[t] # <<>>
      BY <1>4, SwitchingAssumption DEF GroundedInv, Grounded
  <2>2. ensures[t][1] = Home /\ 1 \in 1..Len(ensures[t])
      BY <2>1, StackTyped, EmptySeq DEF GroundedInv, Grounded
  <2>3. stack[1] = Home
      BY <1>4, <2>2, StackTyped, AppendProperties DEF Clauses
  <2>4. QED BY <1>8, <2>3 DEF Grounded
<1> HIDE DEF s, x, clause, stack, program, w, l
<1> DEFINE d == Inside(c, x, "switch", x)
           h == Connected(d, x)
           e == Connected(c, x)
<1>10. /\ d \in Views /\ d.schema = x /\ d.stack = stack /\ d.solr = c.solr
       /\ d.fedora = c.fedora /\ d.redis = c.redis
    BY <1>4, InsideTyped DEF stack, clause
<1> HIDE DEF d
<1>11. h \in Views /\ AtHome(h, x) /\ h.stack = stack
    BY <1>4, <1>10, ConnectedTyped
<1>12. Runs(AfterSwitch(x), d, h)
    BY <1>4, <1>10, AfterSwitchRun DEF Visited
<1> HIDE DEF h
<1>13. Runs(body, h, e)
  <2>1. Fits(w, h) /\ Effect(w, h) = h
      BY <1>5, <1>11 DEF Fits, Effect
  <2>2. Fits(l, h) /\ Last(h.stack) = clause /\ Front(h.stack) = c.stack
    <3>1. clause \in Clauses /\ ensures[t] \in Seq(Clauses)
        BY <1>4, StackTyped DEF clause, Clauses
    <3>2. Last(stack) = clause /\ Front(stack) = ensures[t]
        BY <3>1, ClausePut DEF stack
    <3>3. QED BY <1>4, <1>5, <1>8, <1>11, <3>2 DEF Fits
  <2>3. Effect(l, h) = Connected(Outside(h, x), x)
      BY <1>4, <1>5, <2>2 DEF Effect, clause, Visited
  <2>4. /\ Outside(h, x) \in Views /\ Outside(h, x).schema = x
        /\ Outside(h, x).stack = c.stack
        /\ Outside(h, x).solr = x /\ Outside(h, x).fedora = x /\ Outside(h, x).redis = x
      BY <1>4, <1>8, <1>11, <2>2, OutsideTyped DEF AtHome
  <2>5. Connected(Outside(h, x), x) = Outside(h, x)
      BY <1>4, <2>4, ConnectedTyped DEF AtHome
  <2>6. /\ e \in Views /\ e.schema = x /\ e.stack = c.stack
        /\ e.solr = x /\ e.fedora = x /\ e.redis = x
      BY <1>4, ConnectedTyped DEF AtHome
  <2> HIDE DEF e
  <2>7. Outside(h, x) = e
      BY <2>4, <2>6, SameView
  <2>8. QED BY <1>5, <1>11, <2>1, <2>2, <2>3, <2>5, <2>7, RunsTwo
<1>14. Effect(s, c) = e
    BY <1>1, <1>4 DEF Effect, Visited
<1> HIDE DEF e, body
<1>15. Runs(AfterSwitch(x) \o body, d, e)
    BY <1>12, <1>13, RunsOn
<1>16. Ends(program, d)
    BY <1>3, <1>14, <1>15, EndsOn DEF program
<1>17. /\ d.solr = solr[t] /\ d.fedora = fedora[t]
       /\ setter["redis"] = t => shared["redis"] = d.redis
    BY <1>3, <1>10 DEF Sees
<1>18. QED BY <1>4, <1>6, <1>8, <1>9, <1>10, <1>16, <1>17, SwitchKeeps

LEMMA LeaveKeeps ==
    ASSUME SwitchInv, NEW t \in Threads, Leave(t)
    PROVE  SwitchInv'
<1> USE DEF SwitchInv
<1> DEFINE s == Head(todo[t])
           e == Last(ensures[t])
           stack == Front(ensures[t])
           x == IF e.kind = "switch" THEN e.at ELSE schema[t]
           program == LeftBy(e) \o Tail(todo[t])
<1>1. ~Idle(t) /\ s.op = "leave"
    BY DEF Leave, At
<1>2. s \in Steps /\ Tail(todo[t]) \in Seq(Steps)
    BY <1>1, Taken
<1>3. PICK c \in Views : /\ Sees(t, c) /\ Fits(s, c) /\ Effect(s, c) \in Views
                         /\ Ends(Tail(todo[t]), Effect(s, c))
    BY <1>1, Taken
<1>4. c.schema = schema[t] /\ c.stack = ensures[t] /\ ensures[t] # <<>>
    BY <1>1, <1>3 DEF Sees, Fits
<1>5. /\ e \in Clauses /\ e.at \in Places /\ e.kind \in {"switch", "reset"}
      /\ stack \in Seq(Clauses) /\ x \in Places
    BY <1>4, StackTyped, ClauseTaken DEF Clauses
<1>6. /\ schema' = [schema EXCEPT ![t] = x]
      /\ ensures' = [ensures EXCEPT ![t] = stack]
      /\ todo' = [todo EXCEPT ![t] = program]
      /\ UNCHANGED <<solr, fedora, shared, setter, listed, keys, jobs, tasks, raises>>
    BY DEF Leave, Become, TypeOK
<1>7. Grounded(stack, x)
  <2>1. ensures[t][1] = Home
      BY <1>4 DEF GroundedInv, Grounded
  <2>2. QED BY <1>4, <2>1, StackTyped, GroundedFront
<1>8. e = Last(c.stack)
    BY <1>4
<1> DEFINE d == Outside(c, x)
<1>9. /\ d \in Views /\ d.schema = x /\ d.stack = stack /\ d.solr = c.solr
      /\ d.fedora = c.fedora /\ d.redis = c.redis
    BY <1>4, <1>5, OutsideTyped
<1>10. Runs(LeftBy(e), d, Effect(s, c))
  <2>1. CASE e.kind = "switch"
    <3>1. Effect(s, c) = Visited(d, e.at)
        BY <1>1, <1>8, <2>1 DEF Effect
    <3>2. LeftBy(e) = AfterSwitch(e.at)
        BY <2>1 DEF LeftBy
    <3> HIDE DEF d, e
    <3>3. QED BY <1>5, <1>9, <3>1, <3>2, AfterSwitchRun
  <2>2. CASE e.kind # "switch"
    <3>1. Effect(s, c) = Connected(d, "public")
        BY <1>1, <1>4, <1>8, <2>2 DEF Effect
    <3>2. LeftBy(e) = Connections("public")
        BY <2>2 DEF LeftBy
    <3> HIDE DEF d, e
    <3>3. QED BY <1>9, <3>1, <3>2, ConnectionsRun, PublicIsPlace
  <2>3. QED BY <2>1, <2>2
<1> HIDE DEF s, e, stack, x, program, d
<1>11. Ends(program, d)
    BY <1>3, <1>10, EndsOn DEF program
<1>12. program \in Seq(Steps)
    BY <1>2, <1>10, RunsTyped, ConcatProperties DEF program
<1>13. d.solr = solr[t] /\ d.fedora = fedora[t]
       /\ (setter["redis"] = t => shared["redis"] = d.redis)
    BY <1>3, <1>9 DEF Sees
<1>14. QED BY <1>5, <1>6, <1>7, <1>9, <1>11, <1>12, <1>13, SwitchKeeps

LEMMA DeliverKeeps ==
    ASSUME SwitchInv, NEW t \in Threads, Deliver(t)
    PROVE  SwitchInv'
<1> USE DEF SwitchInv
<1> DEFINE s == Head(todo[t])
           program == AfterSwitch(schema[t]) \o Tail(todo[t])
<1>1. ~Idle(t) /\ s.op = "deliver"
    BY DEF Deliver, At
<1>2. Tail(todo[t]) \in Seq(Steps)
    BY <1>1, Taken
<1>3. PICK c \in Views : /\ Sees(t, c) /\ Effect(s, c) \in Views
                         /\ Ends(Tail(todo[t]), Effect(s, c))
    BY <1>1, Taken
<1>4. /\ c.schema = schema[t] /\ c.stack = ensures[t]
      /\ c.solr = solr[t] /\ c.fedora = fedora[t]
      /\ setter["redis"] = t => shared["redis"] = c.redis
    BY <1>3 DEF Sees
<1>5. /\ schema' = [schema EXCEPT ![t] = schema[t]]
      /\ ensures' = [ensures EXCEPT ![t] = ensures[t]]
      /\ todo' = [todo EXCEPT ![t] = program]
      /\ UNCHANGED <<solr, fedora, shared, setter, listed, keys, jobs, tasks, raises>>
    BY DEF Deliver, Become, TypeOK, threadVars
<1>6. Effect(s, c) = Visited(c, schema[t])
    BY <1>1, <1>4 DEF Effect
<1>7. Runs(AfterSwitch(schema[t]), c, Visited(c, schema[t]))
    BY StackTyped, AfterSwitchRun
<1> HIDE DEF s, program
<1>8. Ends(program, c)
    BY <1>3, <1>6, <1>7, EndsOn DEF program
<1>9. program \in Seq(Steps)
    BY <1>2, <1>7, RunsTyped, ConcatProperties DEF program
<1>10. Grounded(ensures[t], schema[t])
    BY DEF GroundedInv
<1>11. QED BY <1>4, <1>5, <1>8, <1>9, <1>10, StackTyped, SwitchKeeps

-----------------------------------------------------------------------------
(* Work, tasks and errors *)

\* The thread of a task goes on with another program, from the same view.
LEMMA ProgramKeeps ==
    ASSUME SwitchInv, NEW t \in Threads, NEW program, NEW c \in Views,
           Sees(t, c), Ends(program, c),
           todo' = [todo EXCEPT ![t] = program],
           UNCHANGED <<threadVars, shared, setter>>
    PROVE  /\ todo' \in [Threads -> Seq(Steps)]
           /\ ReadyInv' /\ GroundedInv' /\ BlacklightInv'
<1> USE DEF SwitchInv
<1>1. schema' = schema /\ solr' = solr /\ fedora' = fedora /\ ensures' = ensures
      /\ shared' = shared /\ setter' = setter
    BY DEF threadVars
<1>2. program \in Seq(Steps)
    BY DEF Ends, Runs
<1>3. /\ todo' \in [Threads -> Seq(Steps)] /\ todo'[t] = program
      /\ \A u \in Threads \ {t} : todo'[u] = todo[u]
    BY <1>2 DEF TypeOK
<1>4. OnlyMoves(t) /\ Sees(t, c)'
    BY <1>1, <1>3 DEF OnlyMoves, Sees
<1>5. ReadyInv'
    BY <1>3, <1>4, ReadyKept
<1>6. QED BY <1>1, <1>3, <1>5 DEF GroundedInv, BlacklightInv

LEMMA GoKeeps ==
    ASSUME SwitchInv, NEW t \in Threads, At(t, {"work", "erase", "keys", "del"}),
           Go(t), UNCHANGED <<threadVars, shared, setter>>
    PROVE  /\ todo' \in [Threads -> Seq(Steps)]
           /\ ReadyInv' /\ GroundedInv' /\ BlacklightInv'
<1> DEFINE s == Head(todo[t])
<1>1. ~Idle(t) /\ s.op \in {"work", "erase", "keys", "del"}
    BY DEF At
<1>2. PICK c \in Views : Sees(t, c) /\ Ends(Tail(todo[t]), Effect(s, c))
    BY <1>1, Taken DEF SwitchInv
<1>3. Effect(s, c) = c
    BY <1>1 DEF Effect
<1>4. QED BY <1>2, <1>3, ProgramKeeps DEF Go, Become

LEMMA DoWorkKeeps ==
    ASSUME SwitchInv, NEW t \in Threads, DoWork(t)
    PROVE  SwitchInv'
<1> USE DEF SwitchInv
<1>1. /\ At(t, {"work"}) /\ Go(t)
      /\ UNCHANGED <<schema, solr, fedora, ensures, shared, setter, listed, tasks, raises>>
      /\ \/ keys' = keys /\ jobs' = jobs
         \/ keys' = keys \cup {shared["redis"]} /\ jobs' = jobs
         \/ /\ jobs' = jobs \cup {[tenant |-> schema[t], for |-> Place(t)]}
            /\ keys' = keys
    BY DEF DoWork, threadVars, Enqueued
<1>2. /\ todo' \in [Threads -> Seq(Steps)]
      /\ ReadyInv' /\ GroundedInv' /\ BlacklightInv'
  <2>1. At(t, {"work", "erase", "keys", "del"})
      BY <1>1 DEF At
  <2>2. QED BY <1>1, <2>1, GoKeeps DEF threadVars
<1>3. PICK c \in Views : Sees(t, c) /\ Fits(Head(todo[t]), c)
    BY <1>1, Taken DEF At
<1>4. Place(t) \in Places /\ (Place(t) \in Tenants => schema[t] = Place(t))
    BY <1>1, <1>3, Taken DEF At, Fits, AtHome, Sees, Place
<1>5. shared["redis"] \in Places /\ schema[t] \in Places
    BY DEF TypeOK, Shared
<1>6. TypeOK'
    BY <1>1, <1>2, <1>4, <1>5 DEF TypeOK, Jobs
<1>7. JobsInv'
    BY <1>1, <1>4 DEF JobsInv
<1>8. QED BY <1>2, <1>6, <1>7

LEMMA RemovalKeeps ==
    ASSUME SwitchInv, NEW t \in Threads, Erase(t) \/ ListKeys(t) \/ DeleteKeys(t)
    PROVE  SwitchInv'
<1> USE DEF SwitchInv
<1>1. /\ At(t, {"work", "erase", "keys", "del"}) /\ Go(t)
      /\ UNCHANGED <<schema, solr, fedora, ensures, shared, setter, jobs, tasks, raises>>
      /\ keys' = keys \/ keys' = keys \ {shared["redis"]}
      /\ \/ listed' = listed
         \/ listed' = [listed EXCEPT ![t] = shared["redis"] \in keys]
         \/ listed' = [listed EXCEPT ![t] = FALSE]
    BY DEF Erase, ListKeys, DeleteKeys, At, threadVars
<1>2. /\ todo' \in [Threads -> Seq(Steps)]
      /\ ReadyInv' /\ GroundedInv' /\ BlacklightInv'
    BY <1>1, GoKeeps DEF threadVars
<1>3. keys' \subseteq Places
    BY <1>1 DEF TypeOK
<1>4. listed' \in [Threads -> BOOLEAN]
  <2>1. (shared["redis"] \in keys) \in BOOLEAN
      BY SMT
  <2>3. listed \in [Threads -> BOOLEAN]
      BY DEF TypeOK
  <2>4. CASE listed' = [listed EXCEPT ![t] = shared["redis"] \in keys]
    <3>1. listed' = [u \in Threads |->
                       IF u = t THEN shared["redis"] \in keys ELSE listed[u]]
        BY <2>3, <2>4, Zenon
    <3>2. ASSUME NEW u \in Threads
          PROVE  (IF u = t THEN shared["redis"] \in keys ELSE listed[u]) \in BOOLEAN
        BY <2>1, <2>3, Zenon
    <3>3. QED BY <3>1, <3>2, Zenon
  <2>5. CASE listed' = [listed EXCEPT ![t] = FALSE]
      BY <2>3, <2>5
  <2>6. QED BY <1>1, <2>3, <2>4, <2>5
<1>5. TypeOK'
    BY <1>1, <1>2, <1>3, <1>4 DEF TypeOK
<1>6. QED BY <1>1, <1>2, <1>5 DEF JobsInv

LEMMA RaiseKeeps ==
    ASSUME SwitchInv, NEW t \in Threads, Raise(t)
    PROVE  SwitchInv'
<1> USE DEF SwitchInv
<1>1. /\ raises < MaxRaises /\ raises' = raises + 1
      /\ todo' = [todo EXCEPT ![t] = Unwound(ensures[t])]
      /\ listed' = [listed EXCEPT ![t] = FALSE]
      /\ UNCHANGED <<schema, solr, fedora, ensures, shared, setter, keys, jobs, tasks>>
    BY DEF Raise, Become, threadVars
<1>2. PICK c \in Views : Sees(t, c)
    BY DEF ReadyInv
<1>3. Ends(Unwound(ensures[t]), c)
  <2>1. Grounded(c.stack, c.schema) /\ c.stack = ensures[t]
      BY <1>2 DEF Sees, GroundedInv
  <2>2. QED BY <2>1, UnwoundEnds
<1>4. /\ todo' \in [Threads -> Seq(Steps)]
      /\ ReadyInv' /\ GroundedInv' /\ BlacklightInv'
    BY <1>1, <1>2, <1>3, ProgramKeeps DEF threadVars
<1>5. raises' \in 0..MaxRaises /\ listed' \in [Threads -> BOOLEAN]
    BY <1>1, SwitchingAssumption DEF TypeOK
<1>6. TypeOK'
    BY <1>1, <1>4, <1>5 DEF TypeOK
<1>7. QED BY <1>1, <1>4, <1>6 DEF JobsInv

LEMMA StartKeeps ==
    ASSUME SwitchInv, NEW t \in Threads, NEW program, Start(t, program), jobs' \subseteq jobs,
           \A c \in Views : c.schema = "public" /\ c.stack = <<>> => Returns(program, c)
    PROVE  SwitchInv'
<1> USE DEF SwitchInv
<1>1. /\ Idle(t) /\ tasks < MaxTasks /\ tasks' = tasks + 1
      /\ todo' = [todo EXCEPT ![t] = program]
      /\ UNCHANGED <<schema, solr, fedora, ensures, shared, setter, listed, keys, raises>>
    BY DEF Start, Become, threadVars
<1>2. PICK c \in Views : Sees(t, c) /\ Ends(<<>>, c)
    BY <1>1 DEF ReadyInv, Idle
<1>3. c.schema = "public" /\ c.stack = <<>>
    BY <1>2, RunsNothing DEF Ends
<1>4. Ends(program, c)
    BY <1>3 DEF Returns, Ends
<1>5. /\ todo' \in [Threads -> Seq(Steps)]
      /\ ReadyInv' /\ GroundedInv' /\ BlacklightInv'
    BY <1>1, <1>2, <1>4, ProgramKeeps DEF threadVars
<1>6. tasks' \in 0..MaxTasks
    BY <1>1, SwitchingAssumption DEF TypeOK
<1>7. TypeOK'
    BY <1>1, <1>5, <1>6 DEF TypeOK
<1>8. QED BY <1>5, <1>7 DEF JobsInv

LEMMA SwitchStart == Init => SwitchInv
<1> SUFFICES ASSUME Init PROVE SwitchInv
    OBVIOUS
<1> DEFINE c == [schema |-> "public", solr |-> "public", fedora |-> "public",
                 redis |-> "public", stack |-> <<>>]
<1>1. <<>> \in Seq(Clauses) /\ <<>> \in Seq(Steps)
    BY EmptySeq
<1>2. c \in Views /\ c.schema = "public" /\ c.stack = <<>>
    BY <1>1, PublicIsPlace DEF Views
<1>3. TypeOK
    BY <1>1, PublicIsPlace, SwitchingAssumption DEF Init, TypeOK, Shared
<1>4. \A t \in Threads : Sees(t, c)
    BY DEF Init, Sees, Shared
<1> HIDE DEF c
<1>5. Ends(<<>>, c)
    BY <1>2, RunsNothing DEF Ends
<1>6. ReadyInv
    BY <1>2, <1>4, <1>5 DEF ReadyInv, Init
<1>7. GroundedInv /\ BlacklightInv /\ JobsInv
    BY SwitchingAssumption DEF Init, GroundedInv, Grounded, BlacklightInv, JobsInv, Shared
<1>8. QED BY <1>3, <1>6, <1>7 DEF SwitchInv

LEMMA SwitchStep ==
    ASSUME SwitchInv, [Next]_vars
    PROVE  SwitchInv'
<1>1. CASE UNCHANGED vars
    BY <1>1 DEF vars, threadVars, SwitchInv, TypeOK, ReadyInv, Sees, GroundedInv,
                BlacklightInv, JobsInv
<1>2. CASE Next
  <2>1. PICK t \in Threads :
           \/ \E kind \in Kinds, x \in Tenants : Begin(t, kind, x)
           \/ \E j \in jobs : Perform(t, j)
           \/ Connect(t) \/ Enter(t) \/ SwitchAccount(t) \/ Leave(t) \/ Deliver(t)
           \/ DoWork(t) \/ Erase(t) \/ ListKeys(t) \/ DeleteKeys(t) \/ Raise(t)
      BY <1>2 DEF Next
  <2>2. ASSUME NEW kind \in Kinds, NEW x \in Tenants, Begin(t, kind, x)
        PROVE  SwitchInv'
    <3>1. kind \in AllKinds
        BY SwitchingAssumption
    <3>2. Start(t, Program(kind, x)) /\ jobs' \subseteq jobs
        BY <2>2 DEF Begin
    <3>3. QED BY <3>1, <3>2, ProgramReturns, StartKeeps
  <2>3. ASSUME NEW j \in jobs, Perform(t, j)
        PROVE  SwitchInv'
    <3>1. j \in Jobs /\ (j.for \in Tenants => j.tenant = j.for)
        BY DEF SwitchInv, TypeOK, JobsInv
    <3>2. Start(t, JobProgram(j)) /\ jobs' \subseteq jobs
        BY <2>3 DEF Perform
    <3>3. QED BY <3>1, <3>2, JobReturns, StartKeeps
  <2>4. CASE Enter(t)
    <3>1. At(t, {"enter"}) \/ At(t, {"perform_now"})
        BY <2>4 DEF Enter, At
    <3>2. QED BY <2>4, <3>1, EnterKeeps, PerformNowKeeps
  <2>5. QED BY <2>1, <2>2, <2>3, <2>4, ConnectKeeps, SwitchAccountKeeps, LeaveKeeps,
               DeliverKeeps, DoWorkKeeps, RemovalKeeps, RaiseKeeps
<1>3. QED BY <1>1, <1>2

LEMMA SwitchAlways == Spec => []SwitchInv
    BY SwitchStart, SwitchStep, PTL DEF Spec

-----------------------------------------------------------------------------
(* Theorems *)

\* Every value has its type, and every task is a sequence of steps.
THEOREM SwitchingTyped == Spec => []TypeOK
<1>1. SwitchInv => TypeOK
    BY DEF SwitchInv
<1>2. QED BY <1>1, SwitchAlways, PTL

\* What a step of work or of a removal finds.
LEMMA WorkFits ==
    ASSUME SwitchInv, NEW t \in Threads, ~Idle(t)
    PROVE  \E c \in Views :
              /\ Sees(t, c)
              /\ At(t, {"work"}) /\ Place(t) \in Tenants => AtHome(c, Place(t))
              /\ At(t, {"erase"}) /\ Place(t) \in Tenants => c.fedora = Place(t)
              /\ At(t, {"del"}) => c.redis = Place(t)
<1>1. PICK c \in Views : Sees(t, c) /\ Fits(Head(todo[t]), c)
    BY Taken DEF SwitchInv
<1>2. QED BY <1>1 DEF Fits, At, Place

\* What a thread does for a tenant goes to the tenant's schema, Solr collection
\* and Fedora container, whatever tasks, jobs and errors came before.
THEOREM WorkIsAtHome == Spec => []WorksAtHome
<1>1. SwitchInv => WorksAtHome
  <2> SUFFICES ASSUME SwitchInv, NEW t \in Threads, NEW x \in Tenants
               PROVE  /\ WorksFor(t, x) => schema[t] = x /\ solr[t] = x /\ fedora[t] = x
                      /\ At(t, {"erase"}) /\ Place(t) = x => fedora[t] = x
      BY DEF WorksAtHome
  <2>1. QED BY WorkFits DEF WorksFor, At, AtHome, Sees
<1>2. QED BY <1>1, SwitchAlways, PTL

\* What the process shares is another tenant's only if another thread set it.
THEOREM OnlyOthersDisturb == Spec => []OthersDisturb
<1>1. SwitchInv => OthersDisturb
  <2> SUFFICES ASSUME SwitchInv, NEW t \in Threads, NEW x \in Tenants, NEW f \in Shared,
                      WorksFor(t, x), setter[f] = t
               PROVE  shared[f] = x
      BY DEF OthersDisturb
  <2>1. PICK c \in Views : Sees(t, c) /\ AtHome(c, x)
      BY WorkFits DEF WorksFor, At
  <2>2. CASE f = "redis"
      BY <2>1, <2>2 DEF Sees, AtHome
  <2>3. CASE f = "blacklight"
      BY <2>1, <2>3 DEF Sees, AtHome, SwitchInv, BlacklightInv
  <2>4. QED BY <2>2, <2>3 DEF Shared
<1>2. QED BY <1>1, SwitchAlways, PTL

\* A thread is in the public schema, in no ensure clause, between two tasks.
THEOREM PublicWhenIdle == Spec => []IdleIsPublic
<1>1. SwitchInv => IdleIsPublic
  <2> SUFFICES ASSUME SwitchInv, NEW t \in Threads, Idle(t)
               PROVE  schema[t] = "public" /\ ensures[t] = <<>>
      BY DEF IdleIsPublic
  <2>1. PICK c \in Views : Sees(t, c) /\ Ends(<<>>, c)
      BY DEF SwitchInv, ReadyInv, Idle
  <2>2. c.schema = "public" /\ c.stack = <<>>
      BY <2>1, RunsNothing DEF Ends
  <2>3. QED BY <2>1, <2>2 DEF Sees
<1>2. QED BY <1>1, SwitchAlways, PTL

Undisturbed ==
    \A t \in Threads :
       At(t, {"del"}) /\ todo'[t] # todo[t] /\ setter["redis"] = t
          => keys \ keys' \subseteq {Place(t)}

\* A clean-up deletes its own tenant's keys, unless another thread has set the
\* namespace since it did.
THEOREM RemovalIsOwn == Spec => UndisturbedRemoval
<1>1. SwitchInv /\ [Next]_vars => [Undisturbed]_vars
  <2> SUFFICES ASSUME SwitchInv, Next, NEW t \in Threads,
                      At(t, {"del"}), setter["redis"] = t
               PROVE  keys \ keys' \subseteq {Place(t)}
      BY DEF Undisturbed
  <2>1. shared["redis"] = Place(t)
      BY WorkFits DEF At, Sees
  <2>2. keys \ keys' \subseteq {shared["redis"]}
      BY DEF Next, Begin, Perform, Start, Connect, Enter, SwitchAccount, Leave, Deliver,
             DoWork, Erase, ListKeys, DeleteKeys, Raise
  <2>3. QED BY <2>1, <2>2
<1>2. Spec => [][Undisturbed]_vars
    BY <1>1, SwitchAlways, PTL DEF Spec
<1>3. QED BY <1>2 DEF Undisturbed, UndisturbedRemoval

=============================================================================
