---------------------------- MODULE TenantSwitching ---------------------------
(***************************************************************************)
(* Threads of one Puma or Sidekiq process that serve several tenants.      *)
(*                                                                         *)
(* Apartment's current schema and ActiveFedora's connections (its runtime  *)
(* registry) belong to a thread; Blacklight's configuration and the Redis  *)
(* namespace belong to the process.  A task is the sequence of steps that  *)
(* it still has to take; each assignment that Account#switch! makes is a   *)
(* step.  "public" is the public schema and, for a connection, its         *)
(* default.                                                                *)
(*                                                                         *)
(* DataCite's registrar and the host of URLs are set after the namespace   *)
(* and, process-wide too, in the same way: "redis" stands for them.        *)
(***************************************************************************)
EXTENDS Naturals, Sequences, FiniteSets, SequencesExt

CONSTANTS
    Tenants,
    Threads,
    Kinds,          \* of tasks that are begun, a subset of AllKinds
    MaxTasks,       \* bound on the tasks
    MaxRaises       \* bound on errors

AllKinds == {"request", "nested", "mail", "admin", "splash", "create",
             "cleanup", "expiry"}
Places == Tenants \cup {"public"}
Shared == {"blacklight", "redis"}

ASSUME SwitchingAssumption ==
    /\ "public" \notin Tenants /\ "none" \notin Threads
    /\ IsFiniteSet(Tenants)
    /\ Kinds \subseteq AllKinds
    /\ MaxTasks \in Nat /\ MaxRaises \in Nat

VARIABLES
    schema,     \* [Threads -> Places]: Apartment::Tenant.current
    solr,       \* [Threads -> Places]: ActiveFedora::SolrService.instance.conn
    fedora,     \* [Threads -> Places]: ActiveFedora::Fedora.instance
    shared,     \* [Shared -> Places]: what the whole process has
    setter,     \* [Shared -> Threads]: the thread that set it last
    todo,       \* [Threads -> Seq(Steps)]: the task of a thread
    ensures,    \* [Threads -> Seq]: the ensure clauses it is in
    listed,     \* [Threads -> BOOLEAN]: RedisEndpoint#remove! has keys in hand
    keys,       \* namespaces that have keys in Redis
    jobs,       \* enqueued jobs: their tenant, and the tenant they are for
    tasks, raises

threadVars == <<schema, solr, fedora, ensures>>
vars == <<threadVars, shared, setter, todo, listed, keys, jobs, tasks, raises>>

Steps == [op : {"solr", "fedora", "redis", "enter", "account", "work",
                "deliver", "perform_now", "erase", "keys", "del", "leave"},
          at : Places]
Step(op, x) == [op |-> op, at |-> x]

Clauses == [kind : {"switch", "reset"}, at : Places]
Jobs == [tenant : Places, for : Places]

TypeOK ==
    /\ schema \in [Threads -> Places] /\ solr \in [Threads -> Places]
    /\ fedora \in [Threads -> Places]
    /\ shared \in [Shared -> Places] /\ setter \in [Shared -> Threads \cup {"none"}]
    /\ todo \in [Threads -> Seq(Steps)]
    /\ ensures \in [Threads -> Seq(Clauses)]
    /\ listed \in [Threads -> BOOLEAN]
    /\ keys \subseteq Places
    /\ jobs \subseteq Jobs
    /\ tasks \in 0..MaxTasks /\ raises \in 0..MaxRaises

Init ==
    /\ schema = [t \in Threads |-> "public"]
    /\ solr = [t \in Threads |-> "public"]
    /\ fedora = [t \in Threads |-> "public"]
    /\ shared = [f \in Shared |-> "public"]
    /\ setter = [f \in Shared |-> "none"]
    /\ todo = [t \in Threads |-> <<>>]
    /\ ensures = [t \in Threads |-> <<>>]
    /\ listed = [t \in Threads |-> FALSE]
    /\ keys = Tenants
    /\ jobs = {}
    /\ tasks = 0 /\ raises = 0

-----------------------------------------------------------------------------
(* Programs *)

\* The definitions marked "variant" are not used: each is a mistake that breaks
\* one of the properties.
ButRedis(x) == <<Step("solr", x), Step("fedora", x)>>               \* variant

\* Account#switch!, and Account#reset! for "public".
Connections(x) == <<Step("solr", x), Step("fedora", x), Step("redis", x)>>

\* Apartment::Tenant.switch(x) { body }, and account.switch { body }.
Within(x, body) == <<Step("enter", x)>> \o body \o <<Step("leave", "public")>>
OnAccount(x, body) == <<Step("account", x)>> \o body \o <<Step("leave", "public")>>

\* The middleware switches, then a before_action switches the account again.
Request(x, body) == Within(x, Connections(x) \o body)

\* A host without an account gets a new Account with empty endpoints.
AdminRequest(body) == Connections("public") \o body

WithoutSwitch(x) == <<Step("keys", x), Step("del", x)>>             \* variant

\* RedisEndpoint#remove!
RemoveKeys(x) == <<Step("redis", x), Step("keys", x), Step("del", x)>>

Work(x) == <<Step("work", x)>>

\* The directory of tenants visits each in three steps (enter, work, leave), here
\* from x on.
Directory(x) ==
    LET order == <<x>> \o SetToSeq(Tenants \ {x})
        visit(y) == Within(y, Work(y))
    IN  [i \in 1..(3 * Len(order)) |-> visit(order[(i + 2) \div 3])[((i - 1) % 3) + 1]]

Program(kind, x) ==
    CASE kind = "request" -> Request(x, Work(x))
      [] kind = "nested" -> Request(x, <<Step("perform_now", x)>> \o Work(x))
      [] kind = "mail" -> Request(x, <<Step("deliver", x)>> \o Work(x))
      [] kind = "admin" -> AdminRequest(Within(x, Work(x)) \o Work("public"))
      [] kind = "splash" -> AdminRequest(Directory(x))
      [] kind = "create" -> AdminRequest(Within(x, OnAccount(x, Work(x))))
      [] kind = "cleanup" ->
            AdminRequest(Work("public") \o <<Step("fedora", x), Step("erase", x)>>
                         \o RemoveKeys(x))
      [] kind = "expiry" -> Within(x, <<Step("perform_now", x)>>)

JobProgram(j) == Within(j.tenant, Work(j.for))

-----------------------------------------------------------------------------
(* Threads *)

Idle(t) == todo[t] = <<>>
At(t, ops) == ~Idle(t) /\ Head(todo[t]).op \in ops
Place(t) == Head(todo[t]).at
Become(t, program) == todo' = [todo EXCEPT ![t] = program]
Go(t) == Become(t, Tail(todo[t]))

Start(t, program) ==
    /\ Idle(t) /\ tasks < MaxTasks
    /\ tasks' = tasks + 1
    /\ Become(t, program)
    /\ UNCHANGED <<threadVars, shared, setter, listed, keys, raises>>

Begin(t, kind, x) ==
    /\ Start(t, Program(kind, x))
    /\ UNCHANGED jobs

\* A job is performed in the tenant that it was serialized with.
Perform(t, j) ==
    /\ j \in jobs
    /\ jobs' = jobs \ {j}
    /\ Start(t, JobProgram(j))

\* The solr step sets Blacklight's configuration, too.
Fields(op) == IF op = "solr" THEN {"blacklight"} ELSE {op} \cap Shared

Connect(t) ==
    /\ At(t, {"solr", "fedora", "redis"})
    /\ LET op == Head(todo[t]).op
           x == Place(t)
       IN  /\ solr' = IF op = "solr" THEN [solr EXCEPT ![t] = x] ELSE solr
           /\ fedora' = IF op = "fedora" THEN [fedora EXCEPT ![t] = x] ELSE fedora
           /\ shared' = [f \in Shared |-> IF f \in Fields(op) THEN x ELSE shared[f]]
           /\ setter' = [f \in Shared |-> IF f \in Fields(op) THEN t ELSE setter[f]]
    /\ Go(t)
    /\ UNCHANGED <<schema, ensures, listed, keys, jobs, tasks, raises>>

Uncalled(x) == <<>>                                                 \* variant

\* The callback after an Apartment switch: nothing for the public schema.
AfterSwitch(x) == IF x \in Tenants THEN Connections(x) ELSE <<>>

\* What an ensure clause does: go back to the tenant that was current before,
\* or reset the connections.
LeftBy(e) == IF e.kind = "switch" THEN AfterSwitch(e.at) ELSE Connections("public")

Enter(t) ==
    /\ At(t, {"enter", "perform_now"})
    /\ LET x == IF At(t, {"enter"}) THEN Place(t) ELSE schema[t]
           body == IF At(t, {"enter"}) THEN <<>>
                   ELSE <<Step("work", Place(t)), Step("leave", "public")>>
       IN  /\ schema' = [schema EXCEPT ![t] = x]
           /\ Become(t, AfterSwitch(x) \o body \o Tail(todo[t]))
    /\ ensures' = [ensures EXCEPT ![t] = Append(@, [kind |-> "switch", at |-> schema[t]])]
    /\ UNCHANGED <<solr, fedora, shared, setter, listed, keys, jobs, tasks, raises>>

SwitchAccount(t) ==
    /\ At(t, {"account"})
    /\ Become(t, Connections(Place(t)) \o Tail(todo[t]))
    /\ ensures' = [ensures EXCEPT ![t] = Append(@, [kind |-> "reset", at |-> "public"])]
    /\ UNCHANGED <<schema, solr, fedora, shared, setter, listed, keys, jobs, tasks, raises>>

Leave(t) ==
    /\ At(t, {"leave"})
    /\ LET e == Last(ensures[t])
       IN  /\ schema' = IF e.kind = "switch" THEN [schema EXCEPT ![t] = e.at] ELSE schema
           /\ Become(t, LeftBy(e) \o Tail(todo[t]))
    /\ ensures' = [ensures EXCEPT ![t] = Front(@)]
    /\ UNCHANGED <<solr, fedora, shared, setter, listed, keys, jobs, tasks, raises>>

\* A mail switches the account of the current schema, if it has one.
Deliver(t) ==
    /\ At(t, {"deliver"})
    /\ Become(t, AfterSwitch(schema[t]) \o Tail(todo[t]))
    /\ UNCHANGED <<threadVars, shared, setter, listed, keys, jobs, tasks, raises>>

OwnTenant(t) == "nil"                                               \* variant

\* The tenant that a job is serialized with: the current one.
Enqueued(t) == schema[t]

\* Work for a tenant may record events in Redis and enqueue a job.
DoWork(t) ==
    /\ At(t, {"work"})
    /\ \/ UNCHANGED <<keys, jobs>>
       \/ keys' = keys \cup {shared["redis"]} /\ UNCHANGED jobs
       \/ /\ jobs' = jobs \cup {[tenant |-> Enqueued(t), for |-> Place(t)]}
          /\ UNCHANGED keys
    /\ Go(t)
    /\ UNCHANGED <<threadVars, shared, setter, listed, tasks, raises>>

\* FcrepoEndpoint#remove! deletes the resource at the tenant's base path.
Erase(t) ==
    /\ At(t, {"erase"})
    /\ Go(t)
    /\ UNCHANGED <<threadVars, shared, setter, listed, keys, jobs, tasks, raises>>

ListKeys(t) ==
    /\ At(t, {"keys"})
    /\ listed' = [listed EXCEPT ![t] = shared["redis"] \in keys]
    /\ Go(t)
    /\ UNCHANGED <<threadVars, shared, setter, keys, jobs, tasks, raises>>

\* The keys have no namespace in hand: they are deleted in the present one.
\* Namespaces use the same key names: a namespace that loses any counts as gone.
DeleteKeys(t) ==
    /\ At(t, {"del"})
    /\ keys' = IF listed[t] THEN keys \ {shared["redis"]} ELSE keys
    /\ listed' = [listed EXCEPT ![t] = FALSE]
    /\ Go(t)
    /\ UNCHANGED <<threadVars, shared, setter, jobs, tasks, raises>>

Abandoned(stack) == <<>>                                            \* variant

\* What is left of a task whose work raises an error: its ensure clauses.
Unwound(stack) == [i \in 1..Len(stack) |-> Step("leave", "public")]

Raise(t) ==
    /\ raises < MaxRaises
    /\ At(t, {"work", "erase", "keys", "del"})
    /\ raises' = raises + 1
    /\ Become(t, Unwound(ensures[t]))
    /\ listed' = [listed EXCEPT ![t] = FALSE]
    /\ UNCHANGED <<threadVars, shared, setter, keys, jobs, tasks>>

Next ==
    \E t \in Threads :
       \/ \E kind \in Kinds, x \in Tenants : Begin(t, kind, x)
       \/ \E j \in jobs : Perform(t, j)
       \/ Connect(t) \/ Enter(t) \/ SwitchAccount(t) \/ Leave(t) \/ Deliver(t)
       \/ DoWork(t) \/ Erase(t) \/ ListKeys(t) \/ DeleteKeys(t) \/ Raise(t)

Spec == Init /\ [][Next]_vars

-----------------------------------------------------------------------------
(* Properties *)

WorksFor(t, x) == At(t, {"work"}) /\ Place(t) = x

\* Whatever a thread did before, what it does for a tenant goes to that
\* tenant's schema, Solr collection and Fedora container: nested switches come
\* back to it, jobs run where they were enqueued, no error leaves a thread
\* somewhere else.
WorksAtHome ==
    \A t \in Threads, x \in Tenants :
       /\ WorksFor(t, x) => schema[t] = x /\ solr[t] = x /\ fedora[t] = x
       /\ At(t, {"erase"}) /\ Place(t) = x => fedora[t] = x

\* What a thread at work for a tenant set last in the whole process is that
\* tenant's: only another thread puts another tenant there.
OthersDisturb ==
    \A t \in Threads, x \in Tenants, f \in Shared :
       WorksFor(t, x) /\ setter[f] = t => shared[f] = x

\* A thread that has nothing to do is in the public schema: the next request
\* for a host without an account does not see a tenant's tables.
IdleIsPublic == \A t \in Threads : Idle(t) => schema[t] = "public" /\ ensures[t] = <<>>

\* A cleaned-up tenant's keys are the only ones that go, if no other thread has
\* set the namespace in between.
UndisturbedRemoval ==
    [][\A t \in Threads :
          At(t, {"del"}) /\ todo'[t] # todo[t] /\ setter["redis"] = t
             => keys \ keys' \subseteq {Place(t)}]_vars

\* "Remove all the keys in Redis in this namespace": never another's.
RemovesOwnKeys == [][\A x \in keys \ keys' : \E t \in Threads : At(t, {"del"}) /\ Place(t) = x]_vars

=============================================================================
