--------------------------- MODULE TenantLifecycle --------------------------
(***************************************************************************)
(* How a tenant comes and goes: the account row, its endpoint rows, the    *)
(* Solr collection (or, for a tenant that only searches others, the Solr   *)
(* alias), the Fedora container and the database schema.  CreateAccount    *)
(* makes them one after the other and CleanupAccountJob removes them one   *)
(* after the other, within web requests that may die between any two       *)
(* steps; nothing is rolled back, and a clean-up that died may be asked    *)
(* for again.                                                              *)
(*                                                                         *)
(* todo[a] holds the steps that the request at work on account a has left. *)
(* One request at a time works on an account.                              *)
(***************************************************************************)
EXTENDS SequencesExt

CONSTANTS
    Fulls,          \* accounts with works of their own
    SearchOnly      \* accounts that only search full ones

Accounts == Fulls \cup SearchOnly
Kinds == {"solr", "fcrepo", "redis", "datacite"}

ASSUME TenantAssumption == Fulls \cap SearchOnly = {}

VARIABLES
    used,           \* accounts that were ever saved (a tenant uuid is fresh)
    row,            \* accounts that have a row
    links,          \* [Accounts -> SUBSET Kinds]: endpoint ids in the row
    endpoints,      \* <<account, kind>>: account has such rows in endpoints
    fresh,          \* [Accounts -> SUBSET Kinds]: made, but not yet in the row
    full,           \* [SearchOnly -> SUBSET Fulls]: account_cross_searches
    wanted,         \* [SearchOnly -> SUBSET Fulls]: those a request is to alias
    collections,    \* Solr collections
    alias,          \* [SearchOnly -> SUBSET Fulls]: Solr aliases, {} for none
    containers,     \* Fedora containers
    schemas,        \* database schemas
    removals,       \* RemoveSolrCollectionJobs in the queue
    todo,           \* [Accounts -> the steps left]
    cleaning,       \* accounts whose clean-up was asked for
    torn,           \* those whose creation or update died half way (history)
    undropped       \* those whose schema could not be dropped (history)

dbVars == <<used, row, links, endpoints, full>>
solrVars == <<collections, alias, removals>>
otherVars == <<containers, schemas>>
noteVars == <<cleaning, torn, undropped>>
requestVars == <<fresh, wanted, todo>>
vars == <<dbVars, solrVars, otherVars, requestVars, noteVars>>

Steps == {"collection", "alias", "unalias", "solr", "fcrepo", "redis",
          "datacite", "link", "tenant", "queue removal", "remove solr",
          "empty fedora", "remove fcrepo", "remove redis", "drop", "destroy"}

TypeOK ==
    /\ used \subseteq Accounts /\ row \subseteq used
    /\ links \in [Accounts -> SUBSET Kinds]
    /\ endpoints \subseteq Accounts \X Kinds
    /\ fresh \in [Accounts -> SUBSET Kinds]
    /\ full \in [SearchOnly -> SUBSET Fulls]
    /\ wanted \in [SearchOnly -> SUBSET Fulls]
    /\ collections \subseteq Fulls
    /\ alias \in [SearchOnly -> SUBSET Fulls]
    /\ containers \subseteq Fulls
    /\ schemas \subseteq Accounts
    /\ removals \subseteq Accounts
    /\ todo \in [Accounts -> Seq(Steps)]
    /\ cleaning \subseteq Accounts
    /\ torn \subseteq Accounts
    /\ undropped \subseteq Accounts

Init ==
    /\ used = {} /\ row = {}
    /\ links = [a \in Accounts |-> {}]
    /\ endpoints = {} /\ fresh = links
    /\ full = [s \in SearchOnly |-> {}] /\ wanted = full
    /\ collections = {} /\ alias = full
    /\ containers = {} /\ schemas = {} /\ removals = {}
    /\ todo = [a \in Accounts |-> <<>>]
    /\ cleaning = {} /\ torn = {} /\ undropped = {}

-----------------------------------------------------------------------------
(* Requests *)

Idle(a) == todo[a] = <<>>

\* The definitions marked "variant" are not used: each is a mistake that breaks
\* one of the properties.

\* CreateSolrCollectionJob for a cross-search tenant: nothing to search, no
\* alias; an endpoint that is there keeps its place.
UnaliasLast(F, hasSolr) ==                                          \* variant
    CASE F = {} -> <<>>
      [] F # {} /\ hasSolr -> <<"alias", "unalias">>
      [] OTHER -> <<"alias", "solr", "link">>
AliasSteps(F, hasSolr) ==
    CASE F = {} -> <<>>
      [] F # {} /\ hasSolr -> <<"unalias", "alias">>
      [] OTHER -> <<"alias", "solr", "link">>

TenantFirst == <<"redis", "datacite", "tenant", "link">>            \* variant
LastSteps == <<"redis", "datacite", "link", "tenant">>

\* CreateAccount#save after the row: CreateAccountInlineJob, save, tenant.
CreationSteps(a, F) ==
    (IF a \in SearchOnly
     THEN AliasSteps(F, FALSE)
     ELSE <<"collection", "solr", "fcrepo">>)
        \o LastSteps

\* account.save, with the rows of account_cross_searches.  (A name that is taken
\* is refused, which changes nothing; another attempt is another account.)
CreateAccount(a, F) ==
    /\ a \notin used
    /\ used' = used \cup {a}
    /\ row' = row \cup {a}
    /\ IF a \in SearchOnly
       THEN /\ full' = [full EXCEPT ![a] = F]
            /\ wanted' = [wanted EXCEPT ![a] = F]
       ELSE UNCHANGED <<full, wanted>>
    /\ todo' = [todo EXCEPT ![a] = CreationSteps(a, F)]
    /\ UNCHANGED <<links, endpoints, fresh, solrVars, otherVars, noteVars>>

\* AccountsController#update of the accounts that s searches.  The same save
\* gives it a DataCite endpoint if it has none.
UpdateSearch(s, F) ==
    /\ s \in row /\ Idle(s) /\ F # full[s]
    /\ full' = [full EXCEPT ![s] = F]
    /\ wanted' = [wanted EXCEPT ![s] = F]
    /\ endpoints' = IF "datacite" \in links[s]
                    THEN endpoints
                    ELSE endpoints \cup {<<s, "datacite">>}
    /\ links' = [links EXCEPT ![s] = @ \cup {"datacite"}]
    /\ todo' = [todo EXCEPT ![s] = AliasSteps(F, "solr" \in links[s])]
    /\ UNCHANGED <<used, row, fresh, solrVars, otherVars, noteVars>>

DestroyFirst(ks) ==                                                 \* variant
    IF "solr" \in ks THEN <<"remove solr", "queue removal">> ELSE <<>>
SolrRemoval(ks) ==
    IF "solr" \in ks THEN <<"queue removal", "remove solr">> ELSE <<>>

\* CleanupAccountJob; a nil endpoint's remove! does nothing.
CleanupSteps(ks) ==
    SolrRemoval(ks)
        \o (IF "fcrepo" \in ks
            THEN <<"empty fedora", "remove fcrepo">>
            ELSE <<>>)
        \o (IF "redis" \in ks THEN <<"remove redis">> ELSE <<>>)
        \o <<"drop", "destroy">>

Cleanup(a) ==
    /\ a \in row /\ Idle(a)
    /\ cleaning' = cleaning \cup {a}
    /\ todo' = [todo EXCEPT ![a] = CleanupSteps(links[a])]
    /\ UNCHANGED <<dbVars, solrVars, otherVars, fresh, wanted, torn, undropped>>

\* A step fails, or the process dies: the steps that are left are not taken.
Fail(a) ==
    /\ ~Idle(a)
    /\ todo' = [todo EXCEPT ![a] = <<>>]
    /\ fresh' = [fresh EXCEPT ![a] = {}]
    /\ wanted' = [s \in SearchOnly |-> IF s = a THEN {} ELSE wanted[s]]
    /\ torn' = IF ToSet(todo[a]) \cap {"link", "alias"} # {}
               THEN torn \cup {a}
               ELSE torn
    /\ UNCHANGED <<dbVars, solrVars, otherVars, cleaning, undropped>>

-----------------------------------------------------------------------------
(* Steps *)

Take(a, step) ==
    /\ ~Idle(a) /\ Head(todo[a]) = step
    /\ todo' = [todo EXCEPT ![a] = Tail(@)]

\* CREATE, unless LIST names the collection.
CreateCollection(a) ==
    /\ Take(a, "collection")
    /\ collections' = collections \cup {a}
    /\ UNCHANGED <<dbVars, alias, removals, otherVars, fresh, wanted, noteVars>>

\* CREATEALIAS, which wants the collections to be there.
CreateAlias(s) ==
    /\ Take(s, "alias")
    /\ wanted[s] \subseteq collections
    /\ alias' = [alias EXCEPT ![s] = wanted[s]]
    /\ wanted' = [wanted EXCEPT ![s] = {}]
    /\ UNCHANGED <<dbVars, collections, removals, otherVars, fresh, noteVars>>

\* RemoveSolrCollectionJob.perform_now(.., "cross_search_tenant")
DeleteAlias(s) ==
    /\ Take(s, "unalias")
    /\ alias' = [alias EXCEPT ![s] = {}]
    /\ UNCHANGED <<dbVars, collections, removals, otherVars, fresh, wanted,
                   noteVars>>

\* create_solr_endpoint and its like: the row is there, the account knows its
\* id, but the account is not saved.
CreateEndpoint(a) ==
    /\ \E k \in Kinds :
          /\ Take(a, k)
          /\ endpoints' = endpoints \cup {<<a, k>>}
          /\ fresh' = [fresh EXCEPT ![a] = @ \cup {k}]
    /\ UNCHANGED <<used, row, links, full, wanted, solrVars, otherVars,
                   noteVars>>

SaveLinks(a) ==
    /\ Take(a, "link")
    /\ links' = [links EXCEPT ![a] = @ \cup fresh[a]]
    /\ fresh' = [fresh EXCEPT ![a] = {}]
    /\ UNCHANGED <<used, row, endpoints, full, wanted, solrVars, otherVars,
                   noteVars>>

HasAdminSet(a) == a \notin SearchOnly

\* Apartment::Tenant.create; the default admin set of a full account is the
\* first object in its Fedora container.
CreateTenant(a) ==
    /\ Take(a, "tenant")
    /\ schemas' = schemas \cup {a}
    /\ containers' = IF HasAdminSet(a) THEN containers \cup {a} ELSE containers
    /\ UNCHANGED <<dbVars, solrVars, fresh, wanted, noteVars>>

QueueRemoval(a) ==
    /\ Take(a, "queue removal")
    /\ removals' = removals \cup {a}
    /\ UNCHANGED <<dbVars, collections, alias, otherVars, fresh, wanted,
                   noteVars>>

\* The foreign keys are ON DELETE nullify.
DestroyEndpoint(a, k) ==
    /\ endpoints' = endpoints \ {<<a, k>>}
    /\ links' = [links EXCEPT ![a] = @ \ {k}]
    /\ UNCHANGED <<used, row, fresh, full, wanted>>

RemoveSolrRow(a) ==
    /\ Take(a, "remove solr")
    /\ DestroyEndpoint(a, "solr")
    /\ UNCHANGED <<solrVars, otherVars, noteVars>>

EmptyFedora(a) ==
    /\ Take(a, "empty fedora")
    /\ containers' = containers \ {a}
    /\ UNCHANGED <<dbVars, solrVars, schemas, fresh, wanted, noteVars>>

RemoveFcrepoRow(a) ==
    /\ Take(a, "remove fcrepo")
    /\ DestroyEndpoint(a, "fcrepo")
    /\ UNCHANGED <<solrVars, otherVars, noteVars>>

\* Without a key in the namespace remove! returns before it destroys the row.
RemoveRedisRow(a) ==
    /\ Take(a, "remove redis")
    /\ DestroyEndpoint(a, "redis") \/ UNCHANGED <<dbVars, fresh, wanted>>
    /\ UNCHANGED <<solrVars, otherVars, noteVars>>

\* Whatever error the drop ends in is rescued, and the clean-up goes on.
DropTenant(a) ==
    /\ Take(a, "drop")
    /\ \/ schemas' = schemas \ {a} /\ UNCHANGED undropped
       \/ a \in schemas /\ undropped' = undropped \cup {a} /\ UNCHANGED schemas
    /\ UNCHANGED <<dbVars, solrVars, containers, fresh, wanted, cleaning, torn>>

KeptEndpoints(a) == endpoints                                       \* variant
LeftEndpoints(a) == endpoints \ ({a} \X links[a])

\* account.destroy, with the dependents it has by then.
DestroyAccount(a) ==
    /\ Take(a, "destroy")
    /\ row' = row \ {a}
    /\ endpoints' = LeftEndpoints(a)
    /\ links' = [links EXCEPT ![a] = {}]
    /\ full' = [s \in SearchOnly |-> IF s = a THEN {} ELSE full[s] \ {a}]
    /\ UNCHANGED <<used, solrVars, otherVars, fresh, wanted, noteVars>>

-----------------------------------------------------------------------------
(* Solr *)

Aliased(a) == \E s \in SearchOnly : a \in alias[s]

\* RemoveSolrCollectionJob from the queue.  Solr may refuse to delete a
\* collection that an alias names.
RemoveSolrCollection(a) ==
    /\ a \in removals
    /\ removals' = removals \ {a}
    /\ collections' = collections \ {a}
    /\ alias' = [s \in SearchOnly |-> IF s = a THEN {} ELSE alias[s]]
    /\ UNCHANGED <<dbVars, otherVars, requestVars, noteVars>>

Step(a) ==
    \/ CreateCollection(a)
    \/ CreateEndpoint(a)
    \/ SaveLinks(a)
    \/ CreateTenant(a)
    \/ QueueRemoval(a)
    \/ RemoveSolrRow(a)
    \/ EmptyFedora(a)
    \/ RemoveFcrepoRow(a)
    \/ RemoveRedisRow(a)
    \/ DropTenant(a)
    \/ DestroyAccount(a)

Next ==
    \/ \E a \in Accounts :
          \/ \E F \in SUBSET (row \cap Fulls) :
                /\ a \in SearchOnly \/ F = {}
                /\ CreateAccount(a, F)
          \/ Cleanup(a)
          \/ Fail(a)
          \/ Step(a)
          \/ RemoveSolrCollection(a)
    \/ \E s \in SearchOnly :
          \/ \E F \in SUBSET (row \cap Fulls) : UpdateSearch(s, F)
          \/ CreateAlias(s)
          \/ DeleteAlias(s)

\* Sidekiq runs every job that is queued; Solr answers unless an alias is in
\* the way.
Fairness ==
    \A a \in Accounts : WF_vars(~Aliased(a) /\ RemoveSolrCollection(a))

Spec == Init /\ [][Next]_vars
FairSpec == Spec /\ Fairness

-----------------------------------------------------------------------------
(* Properties *)

Needed(a) == IF a \in Fulls THEN Kinds ELSE {"redis", "datacite"}

\* "switch! requires a well-formed Account (i.e. creation steps complete,
\* endpoints populated)", and a switch into a tenant reads the account anew: a
\* schema exists only with all endpoints saved in the row, up to the clean-up.
ServedIsWhole ==
    \A a \in schemas : a \notin cleaning => Needed(a) \subseteq links[a]

\* However often a clean-up dies and is asked for again, once the account is
\* destroyed nothing is left of it in the database and in Fedora, unless its
\* creation (or a later update) died before the endpoints were saved, or its
\* schema could not be dropped.
GoneLeavesNothing ==
    \A a \in used \ (row \cup torn) :
        /\ \A k \in Kinds : <<a, k>> \notin endpoints
        /\ a \notin containers
        /\ a \in schemas => a \in undropped

\* A Solr collection that a destroyed account left behind is always one that a
\* queued RemoveSolrCollectionJob will remove: the job is enqueued before the
\* endpoint's row is destroyed, however often the clean-up dies and starts again.
NoneOrphaned ==
    \A a \in Fulls \cap (used \ (row \cup torn)) : a \in collections => a \in removals

\* Nor does its Solr collection stay for good, wherever clean-ups died, unless
\* a cross-search alias goes on naming it.
CollectionGoes ==
    \A a \in Fulls :
        a \in used \ (row \cup torn) ~> a \notin collections \/ Aliased(a)

\* A tenant that searches others searches all that it should: an update that
\* ran to its end, and every account destroyed since, leave none of its full
\* accounts out of the alias.
SearchesAll ==
    \A s \in row \cap SearchOnly :
        Idle(s) /\ s \notin cleaning \cup torn => full[s] \subseteq alias[s]

=============================================================================
