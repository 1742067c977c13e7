----------------------------- MODULE CdlPipeline ----------------------------
(***************************************************************************)
(* The background jobs that open a Cdl work to borrowers and clean up      *)
(* after it: the splitting of its PDFs into child works (IiifPrint, of     *)
(* which only what its decorator relies on is modelled), the job that      *)
(* attaches them (CreateRelationshipsJob), the job that creates the group  *)
(* and gives it read access (CreateGroupAndAddMembersJob, with its bounded *)
(* chain of retries), and the two jobs a destroyed work enqueues.          *)
(*                                                                         *)
(* Jobs run concurrently; a job's reads and saves are separate steps.  An  *)
(* error puts the job back in the queue with the arguments it had.         *)
(***************************************************************************)
EXTENDS Naturals, FiniteSets, Functions

CONSTANTS
    Works,
    Pdfs,           \* PDFs that may be attached to a work
    FirstPdf,       \* the one that is file_sets.first
    Pages,          \* the number of pages of each
    RETRY_MAX,
    MaxErrors       \* bound on job errors

ASSUME PipelineAssumption ==
    /\ IsFiniteSet(Pdfs) /\ FirstPdf \in Pdfs
    /\ Pages \in [Pdfs -> Nat \ {0}]
    /\ RETRY_MAX \in Nat
    /\ MaxErrors \in Nat

Jobs == Works \X Pdfs   \* one chain of group jobs per PDF that is attached

VARIABLES
    work, group, born,
    counted,        \* works whose first file set has its page_count
    pending,        \* [Works -> SUBSET Pdfs]: pending relationships
    kids,           \* [Works -> SUBSET Pdfs]: page works that exist
    relating,       \* CreateRelationshipsJobs in the queue
    attached,       \* [Works -> SUBSET Pdfs]: page works that are members
    at,             \* [Jobs -> where the group job is]
    retries,        \* [Jobs -> its second argument]
    batch,          \* [Jobs -> the members it loaded]
    pagesShared,    \* [Works -> SUBSET Pdfs]: pages the group can read
    workShared,     \* works the group can read
    dooming,        \* works whose DestroyCdlGroupJob is enqueued
    doomedPages,    \* [Works -> SUBSET Pdfs]: DestroySplitPagesJobs enqueued
    errors

splitVars == <<counted, pending, kids, relating>>
jobVars == <<at, retries, batch>>
shareVars == <<pagesShared, workShared>>
doomVars == <<dooming, doomedPages>>
vars == <<work, group, born, splitVars, attached, jobVars, shareVars, doomVars,
          errors>>

Places == {"none", "queued", "create", "share", "save"}

TypeOK ==
    /\ work \in [Works -> {"absent", "live", "gone"}]
    /\ group \in [Works -> Nat] /\ born \in [Works -> Nat]
    /\ counted \subseteq Works
    /\ pending \in [Works -> SUBSET Pdfs]
    /\ kids \in [Works -> SUBSET Pdfs]
    /\ relating \subseteq Jobs
    /\ attached \in [Works -> SUBSET Pdfs]
    /\ at \in [Jobs -> Places]
    /\ retries \in [Jobs -> 0..(RETRY_MAX + 1)]
    /\ batch \in [Jobs -> SUBSET Pdfs]
    /\ pagesShared \in [Works -> SUBSET Pdfs]
    /\ workShared \subseteq Works
    /\ dooming \subseteq Works
    /\ doomedPages \in [Works -> SUBSET Pdfs]
    /\ errors \in 0..MaxErrors

Init ==
    /\ work = [w \in Works |-> "absent"]
    /\ group = [w \in Works |-> 0] /\ born = [w \in Works |-> 0]
    /\ counted = {}
    /\ pending = [w \in Works |-> {}]
    /\ kids = [w \in Works |-> {}]
    /\ relating = {}
    /\ attached = [w \in Works |-> {}]
    /\ at = [j \in Jobs |-> "none"]
    /\ retries = [j \in Jobs |-> 0]
    /\ batch = [j \in Jobs |-> {}]
    /\ pagesShared = [w \in Works |-> {}]
    /\ workShared = {}
    /\ dooming = {}
    /\ doomedPages = [w \in Works |-> {}]
    /\ errors = 0

-----------------------------------------------------------------------------
(* Deposit and splitting *)

DepositCdl(w) ==
    /\ work[w] = "absent"
    /\ work' = [work EXCEPT ![w] = "live"]
    /\ UNCHANGED <<group, born, splitVars, attached, jobVars, shareVars,
                   doomVars, errors>>

\* Characterization stores the page count of the first PDF.
Characterize(w) ==
    /\ work[w] = "live" /\ w \notin counted
    /\ counted' = counted \cup {w}
    /\ UNCHANGED <<work, group, born, pending, kids, relating, attached, jobVars,
                   shareVars, doomVars, errors>>

\* The splitter records the relationships to come and enqueues the job that
\* will make them, once per PDF.
SplitPdf(w, f) ==
    /\ work[w] = "live" /\ f \notin pending[w] \cup kids[w]
    /\ pending' = [pending EXCEPT ![w] = @ \cup {f}]
    /\ relating' = relating \cup {<<w, f>>}
    /\ UNCHANGED <<work, group, born, counted, kids, attached, jobVars,
                   shareVars, doomVars, errors>>

CreatePages(w, f) ==
    /\ f \in pending[w] \ kids[w]
    /\ kids' = [kids EXCEPT ![w] = @ \cup {f}]
    /\ UNCHANGED <<work, group, born, counted, pending, relating, attached,
                   jobVars, shareVars, doomVars, errors>>

\* CreateRelationshipsJob: with all pending children there, attach them, forget
\* the pending relationships and enqueue the group job; else it is rescheduled,
\* which changes nothing.  Without the parent it fails for good.
CreateRelationships(w, f) ==
    /\ <<w, f>> \in relating
    /\ relating' = relating \ {<<w, f>>}
    /\ IF work[w] = "live"
       THEN /\ pending[w] \subseteq kids[w]
            /\ attached' = [attached EXCEPT ![w] = @ \cup pending[w]]
            /\ pending' = [pending EXCEPT ![w] = {}]
            /\ at' = [at EXCEPT ![<<w, f>>] = "queued"]
       ELSE UNCHANGED <<attached, pending, at>>
    /\ UNCHANGED <<work, group, born, counted, kids, retries, batch, shareVars,
                   doomVars, errors>>

-----------------------------------------------------------------------------
(* CreateGroupAndAddMembersJob *)

PageCount(w) == IF w \in counted THEN Pages[FirstPdf] ELSE 0
ChildWorks(w) == SumFunctionOnSet(Pages, attached[w])
Complete(w) == PageCount(w) = ChildWorks(w)

\* The definitions marked "variant" are not used: each is a mistake that breaks
\* one of the properties below.
FoundInIndex(w) == work[w] # "absent"                       \* variant
Found(w) == work[w] = "live"

ReadyInTime(j) == Complete(j[1]) /\ retries[j] <= RETRY_MAX  \* variant
Ready(j) == Complete(j[1])

MayRetryOnceMore(j) == retries[j] <= RETRY_MAX + 1          \* variant
MayRetry(j) == retries[j] <= RETRY_MAX

SameArgument(j) == retries[j]                               \* variant
NextArgument(j) == retries[j] + 1

StaleMembers(w) == {}                                       \* variant
Members(w) == attached[w]

\* The job reads the work, its page count and its members, and goes on, or
\* enqueues itself again, or gives up.
CheckPages(j) ==
    LET w == j[1]
    IN  /\ at[j] = "queued"
        /\ \/ /\ Found(w) /\ Ready(j)
              /\ at' = [at EXCEPT ![j] = "create"]
              /\ batch' = [batch EXCEPT ![j] = Members(w)]
              /\ UNCHANGED retries
           \/ /\ Found(w) /\ ~Ready(j) /\ MayRetry(j)
              /\ retries' = [retries EXCEPT ![j] = NextArgument(j)]
              /\ UNCHANGED <<at, batch>>
           \/ /\ ~Found(w) \/ (~Ready(j) /\ ~MayRetry(j))
              /\ at' = [at EXCEPT ![j] = "none"]
              /\ UNCHANGED <<retries, batch>>
        /\ UNCHANGED <<work, group, born, splitVars, attached, shareVars,
                       doomVars, errors>>

AlwaysNew(w) == TRUE                                        \* variant
NoGroup(w) == group[w] = 0

\* Hyrax::Group.find_or_create_by!(name: work.id)
CreateGroup(j) ==
    LET w == j[1]
    IN  /\ at[j] = "create"
        /\ IF NoGroup(w)
           THEN /\ born' = [born EXCEPT ![w] = @ + 1]
                /\ group' = [group EXCEPT ![w] = born[w] + 1]
           ELSE UNCHANGED <<group, born>>
        /\ at' = [at EXCEPT ![j] = "share"]
        /\ UNCHANGED <<work, splitVars, attached, retries, batch, shareVars,
                       doomVars, errors>>

\* assign_read_groups of every member loaded; a member destroyed meanwhile
\* cannot be saved, and the job fails.
SharePages(j) ==
    LET w == j[1]
    IN  /\ at[j] = "share"
        /\ IF batch[j] \subseteq attached[w]
           THEN /\ pagesShared' = [pagesShared EXCEPT ![w] = @ \cup batch[j]]
                /\ at' = [at EXCEPT ![j] = "save"]
           ELSE at' = [at EXCEPT ![j] = "queued"] /\ UNCHANGED pagesShared
        /\ UNCHANGED <<work, group, born, splitVars, attached, retries, batch,
                       workShared, doomVars, errors>>

\* work.save: the work itself is opened last; a destroyed one cannot be saved.
SaveWork(j) ==
    LET w == j[1]
    IN  /\ at[j] = "save"
        /\ IF work[w] = "live"
           THEN /\ workShared' = workShared \cup {w}
                /\ at' = [at EXCEPT ![j] = "none"]
           ELSE at' = [at EXCEPT ![j] = "queued"] /\ UNCHANGED workShared
        /\ UNCHANGED <<work, group, born, splitVars, attached, retries, batch,
                       pagesShared, doomVars, errors>>

\* Any other error: Sidekiq runs the job again from the start.
JobError(j) ==
    /\ at[j] \in {"create", "share", "save"}
    /\ errors < MaxErrors
    /\ errors' = errors + 1
    /\ at' = [at EXCEPT ![j] = "queued"]
    /\ UNCHANGED <<work, group, born, splitVars, attached, retries, batch,
                   shareVars, doomVars>>

-----------------------------------------------------------------------------
(* Withdrawal *)

\* before_destroy enqueues a job per member, after_destroy one for the group.
DestroyCdl(w) ==
    /\ work[w] = "live"
    /\ work' = [work EXCEPT ![w] = "gone"]
    /\ doomedPages' = [doomedPages EXCEPT ![w] = attached[w]]
    /\ dooming' = dooming \cup {w}
    /\ UNCHANGED <<group, born, splitVars, attached, jobVars, shareVars, errors>>

DestroySplitPages(w, f) ==
    /\ f \in doomedPages[w]
    /\ doomedPages' = [doomedPages EXCEPT ![w] = @ \ {f}]
    /\ attached' = [attached EXCEPT ![w] = @ \ {f}]
    /\ kids' = [kids EXCEPT ![w] = @ \ {f}]
    /\ pagesShared' = [pagesShared EXCEPT ![w] = @ \ {f}]
    /\ UNCHANGED <<work, group, born, counted, pending, relating, jobVars,
                   workShared, dooming, errors>>

DestroyCdlGroup(w) ==
    /\ w \in dooming
    /\ dooming' = dooming \ {w}
    /\ group' = [group EXCEPT ![w] = 0]
    /\ UNCHANGED <<work, born, splitVars, attached, jobVars, shareVars,
                   doomedPages, errors>>

GroupJob(j) == CheckPages(j) \/ CreateGroup(j) \/ SharePages(j) \/ SaveWork(j)

Next ==
    \/ \E w \in Works :
          \/ DepositCdl(w)
          \/ Characterize(w)
          \/ DestroyCdl(w)
          \/ DestroyCdlGroup(w)
          \/ \E f \in Pdfs :
                \/ SplitPdf(w, f)
                \/ CreatePages(w, f)
                \/ CreateRelationships(w, f)
                \/ DestroySplitPages(w, f)
    \/ \E j \in Jobs : GroupJob(j) \/ JobError(j)

\* Sidekiq runs every job in its queues.
Fairness ==
    /\ \A j \in Jobs : WF_vars(GroupJob(j))
    /\ \A w \in Works :
          /\ WF_vars(DestroyCdlGroup(w))
          /\ \A f \in Pdfs : WF_vars(DestroySplitPages(w, f))

Spec == Init /\ [][Next]_vars
FairSpec == Spec /\ Fairness

-----------------------------------------------------------------------------
(* Properties *)

Building == {w \in Works : \E f \in Pdfs : at[<<w, f>>] = "create"}

\* What the sign-in code relies on: the jobs implement CdlGroupLife.
Life == INSTANCE CdlGroupLife WITH building <- Building
ImplementsLife == Life!LifeSpec

\* A live work that its group can read has a group, and at least as many pages
\* open to it as its first PDF has: borrowers never meet a half-open work,
\* however errors and a second PDF's jobs interleave.
OpenedWhole ==
    \A w \in workShared :
        work[w] = "live" =>
            /\ group[w] # 0
            /\ SumFunctionOnSet(Pages, pagesShared[w]) >= Pages[FirstPdf]

\* Every chain of retries ends.
ChainsEnd == \A j \in Jobs : at[j] = "queued" ~> at[j] = "none"

\* A work whose pages are all there while a group job is queued gets opened,
\* unless it is destroyed first or its pages change.
CompleteWorkOpens ==
    \A j \in Jobs :
        [](at[j] = "queued" /\ []Complete(j[1])
             => <>(j[1] \in workShared \/ work[j[1]] = "gone"))

\* The group of a destroyed work goes too, for good, if no group job is between
\* its check of the work and its creation of the group while the work's
\* DestroyCdlGroupJob waits.  (Such a job can make the group anew after it.)
GroupGoesWithWork ==
    \A w \in Works :
        [](w \in dooming /\ w \notin Building => <>[](group[w] = 0))

=============================================================================
