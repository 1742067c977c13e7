------------------------------ MODULE WorkIngest ------------------------------
(***************************************************************************)
(* Uploads become file sets of works: CreateWithFilesActor queues an       *)
(* AttachFilesToWorkJob with the uploads that a form names, and the job    *)
(* creates a file set for each and attaches it under the work's lock.      *)
(*                                                                         *)
(* A job that dies is run again from its start.  An upload remembers its   *)
(* file set (file_set_uri), and a run sees that as it was when the job's   *)
(* arguments were loaded.  The members of a work are a list of file sets,  *)
(* here named after the uploads they were made from.                       *)
(***************************************************************************)
EXTENDS Naturals, Sequences, FiniteSets, SequencesExt

CONSTANTS
    Uploads,        \* uploads of one user
    Works,
    Invalid,        \* works that a save rejects (a required field is missing)
    Jobs,           \* each is queued once
    MaxDeaths       \* bound on the runs that die

ASSUME WorkIngestAssumption ==
    /\ IsFiniteSet(Uploads) /\ Invalid \subseteq Works
    /\ MaxDeaths \in Nat

VARIABLES
    members,        \* [Works -> Seq(Uploads)]: ordered_members
    stored,         \* uploads that have a file_set_uri
    ingests,        \* uploads that an IngestJob was queued for
    locked,         \* works whose lock is held
    work,           \* [Jobs -> Works]
    files,          \* [Jobs -> Seq(Uploads)]: <<>> if it was never queued
    run,            \* [Jobs -> RunStates]
    raced, lost,    \* history: see Start, SaveWork and Die
    deaths

jobVars == <<work, files>>
historyVars == <<raced, deaths>>
vars == <<members, stored, ingests, locked, jobVars, run, lost, historyVars>>

\* at: the next step; todo: uploads to go; blank: those loaded without a
\* file_set_uri; copy: the members as the run loaded them.
RunStates ==
    [at : {"idle", "next", "record", "content", "lock", "reload", "save", "done"},
     todo : Seq(Uploads), blank : SUBSET Uploads, copy : Seq(Uploads)]
AtRest(step) == [at |-> step, todo |-> <<>>, blank |-> {}, copy |-> <<>>]

TypeOK ==
    /\ members \in [Works -> Seq(Uploads)]
    /\ stored \subseteq Uploads /\ ingests \subseteq stored
    /\ locked = {work[j] : j \in {k \in Jobs : run[k].at \in {"reload", "save"}}}
    /\ work \in [Jobs -> Works] /\ files \in [Jobs -> Seq(Uploads)]
    /\ run \in [Jobs -> RunStates]
    /\ raced \subseteq Uploads /\ lost \subseteq Uploads
    /\ deaths \in 0..MaxDeaths

Init ==
    /\ members = [w \in Works |-> <<>>]
    /\ stored = {} /\ ingests = {} /\ locked = {}
    /\ work \in [Jobs -> Works]
    /\ files = [j \in Jobs |-> <<>>]
    /\ run = [j \in Jobs |-> AtRest("idle")]
    /\ raced = {} /\ lost = {} /\ deaths = 0

-----------------------------------------------------------------------------

At(j, step) == run[j].at = step
Goto(j, step) == run' = [run EXCEPT ![j].at = step]
Current(j) == Head(run[j].todo)
Running(j) == run[j].at \notin {"idle", "done"}

\* A form of the work is sent, maybe twice; without files there is no job.
Submit(j, list) ==
    /\ files[j] = <<>> /\ list # <<>>
    /\ files' = [files EXCEPT ![j] = list]
    /\ UNCHANGED <<members, stored, ingests, locked, work, run, lost, historyVars>>

\* A run that will make a file set of the upload.
WillAttach(k, u) == Running(k) /\ u \in Range(run[k].todo) \cap run[k].blank

Start(j) ==
    /\ At(j, "idle") /\ files[j] # <<>>
    /\ LET new == Range(files[j]) \ stored
       IN  /\ run' = [run EXCEPT ![j] = [at |-> "next", todo |-> files[j],
                                         blank |-> new, copy |-> members[work[j]]]]
           /\ raced' = raced \cup {u \in new : \E k \in Jobs : WillAttach(k, u)}
    /\ UNCHANGED <<members, stored, ingests, locked, jobVars, lost, deaths>>

\* The definitions marked "variant" are not used: each is a mistake that breaks
\* one of the properties.
NeverSkips(j) == FALSE                                              \* variant

\* next if uploaded_file.file_set_uri.present?
Skips(j) == Current(j) \notin run[j].blank

NextFile(j) ==
    /\ At(j, "next")
    /\ IF run[j].todo = <<>> THEN run' = [run EXCEPT ![j] = AtRest("done")]
       ELSE IF Skips(j) THEN run' = [run EXCEPT ![j].todo = Tail(@)]
       ELSE Goto(j, "record")
    /\ UNCHANGED <<members, stored, ingests, locked, jobVars, lost, historyVars>>

RecordUri(j) ==
    /\ At(j, "record")
    /\ stored' = stored \cup {Current(j)}
    /\ Goto(j, "content")
    /\ UNCHANGED <<members, ingests, locked, jobVars, lost, historyVars>>

\* create_metadata and create_content.
CreateContent(j) ==
    /\ At(j, "content")
    /\ ingests' = ingests \cup {Current(j)}
    /\ Goto(j, "lock")
    /\ UNCHANGED <<members, stored, locked, jobVars, lost, historyVars>>

AcquireLock(j) ==
    /\ At(j, "lock")
    /\ work[j] \notin locked
    /\ locked' = locked \cup {work[j]}
    /\ Goto(j, "reload")
    /\ UNCHANGED <<members, stored, ingests, jobVars, lost, historyVars>>

AsLoaded(j) == run[j].copy                                          \* variant
Reloaded(j) == members[work[j]]

ReloadWork(j) ==
    /\ At(j, "reload")
    /\ run' = [run EXCEPT ![j].at = "save", ![j].copy = Reloaded(j)]
    /\ UNCHANGED <<members, stored, ingests, locked, jobVars, lost, historyVars>>

\* "the work may not be valid, in which case this save doesn't do anything"
SaveWork(j) ==
    /\ At(j, "save")
    /\ IF work[j] \in Invalid
       THEN lost' = lost \cup {Current(j)} /\ UNCHANGED members
       ELSE /\ members' = [members EXCEPT ![work[j]] = Append(run[j].copy, Current(j))]
            /\ UNCHANGED lost
    /\ locked' = locked \ {work[j]}
    /\ run' = [run EXCEPT ![j].at = "next", ![j].todo = Tail(@)]
    /\ UNCHANGED <<stored, ingests, jobVars, historyVars>>

\* The lock of a run that died runs out.
HeldBy(j) == IF run[j].at \in {"reload", "save"} THEN {work[j]} ELSE {}

Discarded == AtRest("done")                                         \* variant
RunAgain == AtRest("idle")

\* The process dies or an error is raised, and the job is run again.  A file
\* whose uri was stored and that is not attached yet will be skipped.
Die(j) ==
    /\ Running(j) /\ deaths < MaxDeaths
    /\ deaths' = deaths + 1
    /\ locked' = locked \ HeldBy(j)
    /\ lost' = IF run[j].at \in {"content", "lock", "reload", "save"}
               THEN lost \cup {Current(j)} ELSE lost
    /\ run' = [run EXCEPT ![j] = RunAgain]
    /\ UNCHANGED <<members, stored, ingests, jobVars, raced>>

JobStep(j) ==
    \/ Start(j) \/ NextFile(j) \/ RecordUri(j) \/ CreateContent(j)
    \/ AcquireLock(j) \/ ReloadWork(j) \/ SaveWork(j)

\* The lists of files that forms send.
Lists == {s \in SeqOf(Uploads, Cardinality(Uploads)) : IsInjective(s)}

Next == \E j \in Jobs : JobStep(j) \/ Die(j) \/ \E list \in Lists : Submit(j, list)

Spec == Init /\ [][Next]_vars

\* Sidekiq has a thread for each job that is queued.
FairSpec == Spec /\ \A j \in Jobs : WF_vars(JobStep(j))

-----------------------------------------------------------------------------
(* Properties *)

Attached(u) == \E w \in Works : u \in Range(members[w])
Occurrences(u) == {p \in Works \X (1..(Cardinality(Jobs) + MaxDeaths)) :
                      p[2] \in DOMAIN members[p[1]] /\ members[p[1]][p[2]] = u}

\* Whatever dies and is run again, and however often a form is sent: an upload
\* is attached once, to one work, unless two runs had it in hand at a time; and
\* what is attached has its content on the way.
AttachedOnce ==
    \A u \in Uploads :
       /\ u \notin raced => Cardinality(Occurrences(u)) <= 1
       /\ Attached(u) => u \in ingests

\* Jobs that attach to the same work at the same time keep each other's files,
\* in the order in which they were attached.
MembersKept == [][\A w \in Works : IsPrefix(members[w], members'[w])]_vars

\* No upload of a form is forgotten, whatever dies when.  One whose uri is stored
\* is attached, given up (by a death that left the uri behind, or a work that
\* refuses it) or in a run's hand; for any other, its job is queued again, or
\* runs and still has it to attach.
InHand(j, u) == run[j].at \in {"content", "lock", "reload", "save"} /\ Current(j) = u

NoneForgotten ==
    \A u \in Uploads :
       /\ u \in stored \ lost => Attached(u) \/ \E j \in Jobs : InHand(j, u)
       /\ \A j \in Jobs :
             u \in Range(files[j]) \ stored => At(j, "idle") \/ WillAttach(j, u)

\* "Converts UploadedFiles into FileSets and attaches them to works": every file
\* of a form ends up attached, unless the run that stored its uri died, or the
\* work rejects it.
FilesAttached ==
    \A u \in Uploads, j \in Jobs :
       u \in Range(files[j]) ~> (Attached(u) \/ u \in lost)

=============================================================================
