--------------------------- MODULE WorkIngestProofs ----------------------------
(* Theorems of WorkIngest, for every number of jobs, uploads, works and      *)
(* deaths.                                                                   *)
EXTENDS WorkIngest, FiniteSetTheorems, SequenceTheorems, TLAPS

-----------------------------------------------------------------------------
(* Lists of uploads *)

LEMMA ListTypes ==
  ASSUME NEW list \in Lists
  PROVE  list \in Seq(Uploads) /\ IsInjective(list)
  <1>1. Cardinality(Uploads) \in Nat
    BY FS_CardinalityType, WorkIngestAssumption
  <1>2. PICK n \in 0..Cardinality(Uploads) : list \in [1..n -> Uploads]
    BY DEF Lists, SeqOf
  <1>3. n \in Nat
    BY <1>1, <1>2
  <1> QED BY <1>2, <1>3, SeqDef DEF Lists

LEMMA EmptyList == <<>> \in Seq(Uploads) /\ IsInjective(<<>>) /\ Range(<<>>) = {}
  BY EmptySeq DEF IsInjective, Range

\* The files after the first are the others.
LEMMA RestOfList ==
  ASSUME NEW s \in Seq(Uploads), s # <<>>
  PROVE  /\ Head(s) \in Range(s) /\ Head(s) \in Uploads
         /\ Tail(s) \in Seq(Uploads) /\ Range(Tail(s)) \subseteq Range(s)
         /\ IsInjective(s) => IsInjective(Tail(s)) /\ Head(s) \notin Range(Tail(s))
  <1> DEFINE t == Tail(s)
  <1>1. /\ Head(s) \in Uploads /\ t \in Seq(Uploads) /\ Len(t) = Len(s) - 1
        /\ \A i \in 1..Len(t) : t[i] = s[i+1]
    BY HeadTailProperties
  <1>2. /\ Len(s) \in Nat /\ Len(s) # 0 /\ DOMAIN s = 1..Len(s)
        /\ DOMAIN t = 1..Len(t) /\ Head(s) = s[1]
    BY <1>1, EmptySeq, LenProperties
  <1>3. 1 \in DOMAIN s /\ \A i \in DOMAIN t : i + 1 \in DOMAIN s /\ i + 1 # 1 /\ t[i] = s[i+1]
    BY <1>1, <1>2
  <1>4. \A i, k \in DOMAIN t : i + 1 = k + 1 => i = k
    BY <1>2, <1>1
  <1> HIDE DEF t
  <1>5. Head(s) \in Range(s) /\ Range(t) \subseteq Range(s)
    BY <1>2, <1>3 DEF Range
  <1>6. ASSUME IsInjective(s)
        PROVE  IsInjective(t) /\ Head(s) \notin Range(t)
    <2>1. \A i, k \in DOMAIN s : s[i] = s[k] => i = k
      BY <1>6 DEF IsInjective
    <2>2. IsInjective(t)
      BY <1>3, <1>4, <2>1 DEF IsInjective
    <2>3. Head(s) \notin Range(t)
      BY <1>2, <1>3, <2>1 DEF Range
    <2> QED BY <2>2, <2>3
  <1> QED BY <1>1, <1>5, <1>6 DEF t

-----------------------------------------------------------------------------
(* The invariant *)

\* The file in hand is one that the run will attach, and its content is on the
\* way once the lock is asked for.
HandInv ==
  \A j \in Jobs :
     /\ IsInjective(files[j]) /\ IsInjective(run[j].todo)
     /\ run[j].at \in {"record", "content", "lock", "reload", "save"} =>
          run[j].todo # <<>> /\ Current(j) \in run[j].blank
     /\ run[j].at = "content" => Current(j) \in stored
     /\ run[j].at \in {"lock", "reload", "save"} => Current(j) \in ingests

\* Under the lock of a work there is one run, and it saves the members there are.
LockInv ==
  /\ \A j, k \in Jobs :
        run[j].at \in {"reload", "save"} /\ run[k].at \in {"reload", "save"}
           /\ work[j] = work[k] => j = k
  /\ \A j \in Jobs : At(j, "save") => run[j].copy = members[work[j]]

\* What was not raced for is in one run's hands, or attached at one place.
OnceInv ==
  \A u \in Uploads \ raced :
     /\ \A j, k \in Jobs : WillAttach(j, u) /\ WillAttach(k, u) => j = k
     /\ \A j \in Jobs : WillAttach(j, u) => ~Attached(u)
     /\ \A w, x \in Works : \A i \in DOMAIN members[w], k \in DOMAIN members[x] :
           members[w][i] = u /\ members[x][k] = u => w = x /\ i = k

ContentInv == \A u \in Uploads : Attached(u) => u \in ingests

IngestInv == TypeOK /\ HandInv /\ LockInv /\ OnceInv /\ ContentInv

LEMMA IngestStart == Init => IngestInv
  <1> SUFFICES ASSUME Init PROVE IngestInv
    OBVIOUS
  <1> USE DEF Init
  <1>1. TypeOK
    BY EmptyList, WorkIngestAssumption DEF TypeOK, RunStates, AtRest
  <1>2. HandInv /\ LockInv
    BY EmptyList DEF HandInv, LockInv, AtRest, At
  <1>3. OnceInv /\ ContentInv
    BY EmptyList DEF OnceInv, ContentInv, WillAttach, Running, Attached, AtRest
  <1> QED BY <1>1, <1>2, <1>3 DEF IngestInv

-----------------------------------------------------------------------------
(* Each step keeps the invariant *)

Held == {"reload", "save"}

LEMMA OneRun ==
  ASSUME TypeOK, NEW j \in Jobs, NEW p \in RunStates, run' = [run EXCEPT ![j] = p]
  PROVE  /\ run' \in [Jobs -> RunStates]
         /\ run'[j] = p /\ \A k \in Jobs : k # j => run'[k] = run[k]
  BY DEF TypeOK

LEMMA RestTyped ==
  ASSUME NEW step \in {"idle", "done"}
  PROVE  /\ AtRest(step) \in RunStates
         /\ AtRest(step).at = step /\ AtRest(step).todo = <<>> /\ AtRest(step).blank = {}
  BY EmptyList DEF AtRest, RunStates

LEMMA RunTyped ==
  ASSUME TypeOK, NEW j \in Jobs
  PROVE  /\ run[j] \in RunStates /\ run[j].todo \in Seq(Uploads)
         /\ run[j].blank \subseteq Uploads
  BY DEF TypeOK, RunStates

LEMMA StillOnce ==
  ASSUME OnceInv, UNCHANGED members, raced \subseteq raced',
         \A k \in Jobs, u \in Uploads : WillAttach(k, u)' => WillAttach(k, u)
  PROVE  OnceInv'
  BY DEF OnceInv, Attached

\* A run goes on to its next step without the work's lock, or keeps it; it takes
\* no file in hand that it did not have.
LEMMA MoveKeeps ==
  ASSUME IngestInv, NEW j \in Jobs, NEW p \in RunStates, run' = [run EXCEPT ![j] = p],
         UNCHANGED <<members, locked, jobVars, lost, historyVars>>,
         stored \subseteq stored', stored' \subseteq Uploads,
         ingests \subseteq ingests', ingests' \subseteq stored',
         Running(j), p.at \in Held <=> run[j].at \in Held,
         Range(p.todo) \subseteq Range(run[j].todo), p.blank \subseteq run[j].blank,
         IsInjective(p.todo),
         p.at \in {"record", "content", "lock", "reload", "save"} =>
            p.todo # <<>> /\ Head(p.todo) \in p.blank,
         p.at = "content" => Head(p.todo) \in stored',
         p.at \in {"lock", "reload", "save"} => Head(p.todo) \in ingests',
         p.at = "save" => p.copy = members[work[j]]
  PROVE  IngestInv'
  <1>1. TypeOK /\ run' \in [Jobs -> RunStates]
        /\ run'[j] = p /\ \A k \in Jobs : k # j => run'[k] = run[k]
    BY OneRun DEF IngestInv
  <1>2. \A k \in Jobs : run'[k].at \in Held <=> run[k].at \in Held
    BY <1>1
  <1>3. TypeOK'
    <2>1. locked' = {work'[k] : k \in {i \in Jobs : run'[i].at \in {"reload", "save"}}}
      BY <1>1, <1>2 DEF TypeOK, Held, jobVars
    <2> QED BY <1>1, <2>1 DEF TypeOK, jobVars, historyVars
  <1>4. HandInv'
    <2>1. \A k \in Jobs : k # j => Current(k)' = Current(k)
      BY <1>1 DEF Current
    <2>2. Current(j)' = Head(p.todo)
      BY <1>1 DEF Current
    <2> QED BY <1>1, <2>1, <2>2 DEF IngestInv, HandInv, jobVars
  <1>5. LockInv'
    BY <1>1, <1>2 DEF IngestInv, LockInv, At, Held, jobVars
  <1>6. OnceInv'
    <2>1. \A k \in Jobs, u \in Uploads : WillAttach(k, u)' => WillAttach(k, u)
      BY <1>1 DEF WillAttach, Running
    <2> QED BY <2>1, StillOnce DEF IngestInv, historyVars
  <1>7. ContentInv'
    BY DEF IngestInv, ContentInv, Attached
  <1> QED BY <1>3, <1>4, <1>5, <1>6, <1>7 DEF IngestInv

LEMMA SubmitKeeps ==
  ASSUME IngestInv, NEW j \in Jobs, NEW list \in Lists, Submit(j, list)
  PROVE  IngestInv'
  <1>1. TypeOK /\ files' = [files EXCEPT ![j] = list]
        /\ UNCHANGED <<members, stored, ingests, locked, work, run, lost, raced, deaths>>
    BY DEF IngestInv, Submit, historyVars
  <1>2. TypeOK'
    BY <1>1, ListTypes DEF TypeOK
  <1>3. HandInv'
    BY <1>1, ListTypes DEF IngestInv, HandInv, TypeOK, Current
  <1>4. LockInv' /\ ContentInv'
    BY <1>1 DEF IngestInv, LockInv, ContentInv, Attached, At
  <1>5. OnceInv'
    BY <1>1, StillOnce DEF IngestInv, WillAttach, Running
  <1> QED BY <1>2, <1>3, <1>4, <1>5 DEF IngestInv

\* What a run takes in hand has no uri, so that it is not attached; what another
\* run has in hand is raced for.
LEMMA StartKeeps ==
  ASSUME IngestInv, NEW j \in Jobs, Start(j)
  PROVE  IngestInv'
  <1> DEFINE new == Range(files[j]) \ stored
             p == [at |-> "next", todo |-> files[j], blank |-> new, copy |-> members[work[j]]]
  <1>1. /\ TypeOK /\ run[j].at = "idle" /\ run' = [run EXCEPT ![j] = p]
        /\ raced' = raced \cup {u \in new : \E k \in Jobs : WillAttach(k, u)}
        /\ UNCHANGED <<members, stored, ingests, locked, work, files, lost, deaths>>
    BY DEF IngestInv, Start, At, jobVars
  <1>2. new \subseteq Uploads
    BY <1>1, RangeOfSeq DEF TypeOK
  <1>3. p \in RunStates /\ p.at = "next" /\ p.todo = files[j] /\ p.blank = new
    BY <1>1, <1>2 DEF TypeOK, RunStates
  <1> HIDE DEF p
  <1>4. run' \in [Jobs -> RunStates] /\ run'[j] = p /\ \A k \in Jobs : k # j => run'[k] = run[k]
    BY <1>1, <1>3, OneRun
  <1>5. \A k \in Jobs : run'[k].at \in Held <=> run[k].at \in Held
    BY <1>1, <1>3, <1>4 DEF Held
  <1>6. TypeOK'
    <2>1. locked' = {work'[k] : k \in {i \in Jobs : run'[i].at \in {"reload", "save"}}}
      BY <1>1, <1>5 DEF TypeOK, Held
    <2> QED BY <1>1, <1>2, <1>4, <2>1 DEF TypeOK
  <1>7. HandInv'
    <2>1. \A k \in Jobs : k # j => Current(k)' = Current(k)
      BY <1>4 DEF Current
    <2> QED BY <1>1, <1>3, <1>4, <2>1 DEF IngestInv, HandInv
  <1>8. LockInv' /\ ContentInv'
    BY <1>1, <1>3, <1>4, <1>5 DEF IngestInv, LockInv, ContentInv, Attached, At, Held
  <1>9. OnceInv'
    <2>1. \A u \in Uploads : /\ Attached(u)' <=> Attached(u)
                             /\ Attached(u) => u \in stored
      BY <1>1 DEF IngestInv, ContentInv, Attached, TypeOK
    <2>2. \A k \in Jobs, u \in Uploads : k # j => (WillAttach(k, u)' <=> WillAttach(k, u))
      BY <1>4 DEF WillAttach, Running
    <2>3. \A u \in Uploads : WillAttach(j, u)' => u \in new
      BY <1>3, <1>4 DEF WillAttach
    <2>4. \A k \in Jobs, u \in Uploads \ raced' : u \in new => ~WillAttach(k, u)
      BY <1>1
    <2>5. \A u \in new : u \notin stored
      OBVIOUS
    <2> HIDE DEF new
    <2> SUFFICES ASSUME NEW u \in Uploads \ raced'
                 PROVE  /\ \A i, k \in Jobs : WillAttach(i, u)' /\ WillAttach(k, u)' => i = k
                        /\ \A k \in Jobs : WillAttach(k, u)' => ~Attached(u)'
                        /\ \A w, x \in Works : \A i \in DOMAIN members'[w], k \in DOMAIN members'[x] :
                              members'[w][i] = u /\ members'[x][k] = u => w = x /\ i = k
      BY DEF OnceInv
    <2>6. u \in Uploads \ raced
      BY <1>1
    <2>7. \A i, k \in Jobs : WillAttach(i, u)' /\ WillAttach(k, u)' => i = k
      BY <2>2, <2>3, <2>4, <2>6 DEF IngestInv, OnceInv
    <2>8. \A k \in Jobs : WillAttach(k, u)' => ~Attached(u)'
      BY <2>1, <2>2, <2>3, <2>5, <2>6 DEF IngestInv, OnceInv
    <2> QED BY <1>1, <2>6, <2>7, <2>8 DEF IngestInv, OnceInv
  <1> QED BY <1>6, <1>7, <1>8, <1>9 DEF IngestInv

LEMMA NextFileKeeps ==
  ASSUME IngestInv, NEW j \in Jobs, NextFile(j)
  PROVE  IngestInv'
  <1>1. /\ TypeOK /\ run[j].at = "next" /\ Running(j)
        /\ UNCHANGED <<members, stored, ingests, locked, jobVars, lost, historyVars>>
        /\ stored \subseteq Uploads /\ ingests \subseteq stored
    BY DEF IngestInv, NextFile, At, Running, TypeOK
  <1>2. /\ run[j] \in RunStates /\ run[j].todo \in Seq(Uploads)
        /\ IsInjective(run[j].todo)
    BY <1>1, RunTyped DEF IngestInv, HandInv
  <1>3. CASE run[j].todo = <<>>
    <2>1. run' = [run EXCEPT ![j] = AtRest("done")]
      BY <1>3 DEF NextFile
    <2> QED BY <1>1, <2>1, RestTyped, EmptyList, MoveKeeps DEF Held
  <1>4. CASE run[j].todo # <<>> /\ Skips(j)
    <2> DEFINE p == [run[j] EXCEPT !.todo = Tail(run[j].todo)]
    <2>1. run' = [run EXCEPT ![j] = p]
      BY <1>4 DEF NextFile
    <2>2. Tail(run[j].todo) \in Seq(Uploads)
      BY <1>2, <1>4, RestOfList
    <2>3. /\ p \in RunStates /\ p.at = "next" /\ p.todo = Tail(run[j].todo)
          /\ p.blank = run[j].blank
      BY <1>1, <1>2, <2>2 DEF RunStates
    <2> HIDE DEF p
    <2>4. Range(p.todo) \subseteq Range(run[j].todo) /\ IsInjective(p.todo)
      BY <1>2, <1>4, <2>3, RestOfList
    <2> QED BY <1>1, <2>1, <2>3, <2>4, MoveKeeps DEF Held
  <1>5. CASE run[j].todo # <<>> /\ ~Skips(j)
    <2> DEFINE p == [run[j] EXCEPT !.at = "record"]
    <2>1. run' = [run EXCEPT ![j] = p]
      BY <1>5 DEF NextFile, Goto
    <2>2. /\ p \in RunStates /\ p.at = "record" /\ p.todo = run[j].todo
          /\ p.blank = run[j].blank
      BY <1>2 DEF RunStates
    <2> HIDE DEF p
    <2>3. Head(p.todo) \in p.blank
      BY <1>5, <2>2 DEF Skips, Current
    <2> QED BY <1>1, <1>2, <1>5, <2>1, <2>2, <2>3, MoveKeeps DEF Held
  <1> QED BY <1>3, <1>4, <1>5

\* Recording the uri, queueing the content and loading the members under the lock.
LEMMA HandKeeps ==
  ASSUME IngestInv, NEW j \in Jobs, RecordUri(j) \/ CreateContent(j) \/ ReloadWork(j)
  PROVE  IngestInv'
  <1>1. /\ TypeOK /\ Running(j) /\ run[j].at \in {"record", "content", "reload"}
        /\ stored \subseteq Uploads /\ ingests \subseteq stored
    BY DEF IngestInv, RecordUri, CreateContent, ReloadWork, At, Running, TypeOK
  <1>2. /\ run[j] \in RunStates /\ run[j].todo \in Seq(Uploads)
        /\ IsInjective(run[j].todo) /\ run[j].todo # <<>>
        /\ Current(j) \in run[j].blank
        /\ run[j].at = "content" => Current(j) \in stored
        /\ run[j].at = "reload" => Current(j) \in ingests
    BY <1>1, RunTyped DEF IngestInv, HandInv
  <1>3. Current(j) = Head(run[j].todo) /\ Current(j) \in Uploads
    BY <1>2, RestOfList DEF Current
  <1>4. CASE RecordUri(j)
    <2> DEFINE p == [run[j] EXCEPT !.at = "content"]
    <2>1. /\ run' = [run EXCEPT ![j] = p] /\ stored' = stored \cup {Current(j)}
          /\ run[j].at = "record"
          /\ UNCHANGED <<members, ingests, locked, jobVars, lost, historyVars>>
      BY <1>4 DEF RecordUri, Goto, At
    <2>2. /\ p \in RunStates /\ p.at = "content" /\ p.todo = run[j].todo
          /\ p.blank = run[j].blank
      BY <1>2 DEF RunStates
    <2> HIDE DEF p
    <2> QED BY <1>1, <1>2, <1>3, <2>1, <2>2, MoveKeeps DEF Held
  <1>5. CASE CreateContent(j)
    <2> DEFINE p == [run[j] EXCEPT !.at = "lock"]
    <2>1. /\ run' = [run EXCEPT ![j] = p] /\ ingests' = ingests \cup {Current(j)}
          /\ run[j].at = "content"
          /\ UNCHANGED <<members, stored, locked, jobVars, lost, historyVars>>
      BY <1>5 DEF CreateContent, Goto, At
    <2>2. /\ p \in RunStates /\ p.at = "lock" /\ p.todo = run[j].todo
          /\ p.blank = run[j].blank
      BY <1>2 DEF RunStates
    <2> HIDE DEF p
    <2> QED BY <1>1, <1>2, <1>3, <2>1, <2>2, MoveKeeps DEF Held
  <1>6. CASE ReloadWork(j)
    <2> DEFINE p == [run[j] EXCEPT !.at = "save", !.copy = members[work[j]]]
    <2>1. /\ run' = [run EXCEPT ![j] = p] /\ run[j].at = "reload"
          /\ UNCHANGED <<members, stored, ingests, locked, jobVars, lost, historyVars>>
      BY <1>6 DEF ReloadWork, Reloaded, At
    <2>2. members[work[j]] \in Seq(Uploads)
      BY <1>1 DEF TypeOK
    <2>3. /\ p \in RunStates /\ p.at = "save" /\ p.todo = run[j].todo
          /\ p.blank = run[j].blank /\ p.copy = members[work[j]]
      BY <1>2, <2>2 DEF RunStates
    <2> HIDE DEF p
    <2> QED BY <1>1, <1>2, <1>3, <2>1, <2>3, MoveKeeps DEF Held
  <1> QED BY <1>4, <1>5, <1>6

LEMMA LockKeeps ==
  ASSUME IngestInv, NEW j \in Jobs, AcquireLock(j)
  PROVE  IngestInv'
  <1> DEFINE p == [run[j] EXCEPT !.at = "reload"]
  <1>1. /\ TypeOK /\ run[j].at = "lock" /\ work[j] \notin locked
        /\ locked' = locked \cup {work[j]} /\ run' = [run EXCEPT ![j] = p]
        /\ UNCHANGED <<members, stored, ingests, work, files, raced, lost, deaths>>
    BY DEF IngestInv, AcquireLock, Goto, At, jobVars, historyVars
  <1>2. /\ p \in RunStates /\ p.at = "reload" /\ p.todo = run[j].todo
        /\ p.blank = run[j].blank
    BY <1>1, RunTyped DEF RunStates
  <1> HIDE DEF p
  <1>3. run' \in [Jobs -> RunStates] /\ run'[j] = p /\ \A k \in Jobs : k # j => run'[k] = run[k]
    BY <1>1, <1>2, OneRun
  <1>4. \A k \in Jobs : run[k].at \in Held => work[k] # work[j]
    BY <1>1 DEF TypeOK, Held
  <1>5. \A k \in Jobs : run'[k].at \in Held <=> (k = j \/ run[k].at \in Held)
    BY <1>2, <1>3 DEF Held
  <1>6. TypeOK'
    <2>1. locked' = {work'[k] : k \in {i \in Jobs : run'[i].at \in {"reload", "save"}}}
      BY <1>1, <1>5 DEF TypeOK, Held
    <2> QED BY <1>1, <1>3, <2>1 DEF TypeOK
  <1>7. HandInv'
    <2>1. \A k \in Jobs : Current(k)' = Current(k)
      BY <1>2, <1>3 DEF Current
    <2> QED BY <1>1, <1>2, <1>3, <2>1 DEF IngestInv, HandInv
  <1>8. LockInv'
    <2>1. \A k, i \in Jobs : run'[k].at \in Held /\ run'[i].at \in Held
                               /\ work'[k] = work'[i] => k = i
      BY <1>1, <1>4, <1>5 DEF IngestInv, LockInv, Held
    <2>2. \A k \in Jobs : At(k, "save")' => run'[k].copy = members'[work'[k]]
      BY <1>1, <1>2, <1>3 DEF IngestInv, LockInv, At
    <2> QED BY <2>1, <2>2 DEF LockInv, Held
  <1>9. OnceInv'
    <2>1. \A k \in Jobs, u \in Uploads : WillAttach(k, u)' => WillAttach(k, u)
      BY <1>1, <1>2, <1>3 DEF WillAttach, Running
    <2> QED BY <1>1, <2>1, StillOnce DEF IngestInv
  <1>10. ContentInv'
    BY <1>1 DEF IngestInv, ContentInv, Attached
  <1> QED BY <1>6, <1>7, <1>8, <1>9, <1>10 DEF IngestInv

\* The lock of a run that ends is nobody else's.
LEMMA LockLeft ==
  ASSUME IngestInv, NEW j \in Jobs, NEW p \in RunStates, run' = [run EXCEPT ![j] = p],
         UNCHANGED work, p.at \notin Held,
         locked' = locked \ (IF run[j].at \in Held THEN {work[j]} ELSE {})
  PROVE  locked' = {work'[k] : k \in {i \in Jobs : run'[i].at \in {"reload", "save"}}}
  <1>1. \A k \in Jobs : run'[k].at \in Held <=> (k # j /\ run[k].at \in Held)
    BY OneRun DEF IngestInv
  <1>2. \A k \in Jobs : k # j /\ run[k].at \in Held /\ run[j].at \in Held => work[k] # work[j]
    BY DEF IngestInv, LockInv, Held
  <1>3. locked = {work[k] : k \in {i \in Jobs : run[i].at \in Held}}
    BY DEF IngestInv, TypeOK, Held
  <1>4. CASE run[j].at \in Held
    BY <1>1, <1>2, <1>3, <1>4 DEF Held
  <1>5. CASE run[j].at \notin Held
    BY <1>1, <1>3, <1>5 DEF Held
  <1> QED BY <1>4, <1>5

\* A run that died has nothing in hand and no lock.
LEMMA DieKeeps ==
  ASSUME IngestInv, NEW j \in Jobs, Die(j)
  PROVE  IngestInv'
  <1> DEFINE p == AtRest("idle")
  <1>1. /\ TypeOK /\ deaths < MaxDeaths /\ deaths' = deaths + 1
        /\ locked' = locked \ HeldBy(j) /\ run' = [run EXCEPT ![j] = p]
        /\ UNCHANGED <<members, stored, ingests, work, files, raced>>
    BY DEF IngestInv, Die, RunAgain, jobVars
  <1>2. p \in RunStates /\ p.at = "idle" /\ p.todo = <<>> /\ p.blank = {}
    BY RestTyped
  <1> HIDE DEF p
  <1>3. run' \in [Jobs -> RunStates] /\ run'[j] = p /\ \A k \in Jobs : k # j => run'[k] = run[k]
    BY <1>1, <1>2, OneRun
  <1>4. TypeOK'
    <2>1. lost' \subseteq Uploads
      <3>1. run[j].at \in {"content", "lock", "reload", "save"} => Current(j) \in Uploads
        BY <1>1, RunTyped, RestOfList DEF IngestInv, HandInv, Current
      <3> QED BY <1>1, <3>1 DEF Die, TypeOK
    <2>2. deaths' \in 0..MaxDeaths
      BY <1>1, WorkIngestAssumption DEF TypeOK
    <2>3. locked' = {work'[k] : k \in {i \in Jobs : run'[i].at \in {"reload", "save"}}}
      BY <1>1, <1>2, LockLeft DEF Held, HeldBy
    <2> QED BY <1>1, <1>3, <2>1, <2>2, <2>3 DEF TypeOK
  <1>5. HandInv'
    <2>1. \A k \in Jobs : k # j => Current(k)' = Current(k)
      BY <1>3 DEF Current
    <2> QED BY <1>1, <1>2, <1>3, <2>1, EmptyList DEF IngestInv, HandInv
  <1>6. LockInv' /\ ContentInv'
    BY <1>1, <1>2, <1>3 DEF IngestInv, LockInv, ContentInv, Attached, At
  <1>7. OnceInv'
    <2>1. \A k \in Jobs, u \in Uploads : WillAttach(k, u)' => WillAttach(k, u)
      BY <1>2, <1>3 DEF WillAttach, Running
    <2> QED BY <1>1, <2>1, StillOnce DEF IngestInv
  <1> QED BY <1>4, <1>5, <1>6, <1>7 DEF IngestInv

\* What SaveWork leaves of a run.
LEMMA SavedRun ==
  ASSUME IngestInv, NEW j \in Jobs, SaveWork(j)
  PROVE  /\ run' \in [Jobs -> RunStates] /\ \A k \in Jobs : k # j => run'[k] = run[k]
         /\ run'[j].at = "next" /\ run'[j].todo = Tail(run[j].todo)
         /\ run'[j].blank = run[j].blank
         /\ run[j].todo \in Seq(Uploads) /\ run[j].todo # <<>>
         /\ Current(j) \in Uploads /\ Current(j) \in ingests
         /\ IsInjective(run'[j].todo) /\ Range(run'[j].todo) \subseteq Range(run[j].todo)
         /\ Current(j) \notin Range(run'[j].todo)
         /\ WillAttach(j, Current(j))
         /\ locked' = {work'[k] : k \in {i \in Jobs : run'[i].at \in {"reload", "save"}}}
  <1> DEFINE p == [run[j] EXCEPT !.at = "next", !.todo = Tail(run[j].todo)]
  <1>1. /\ TypeOK /\ run[j].at = "save" /\ run' = [run EXCEPT ![j] = p]
        /\ locked' = locked \ {work[j]} /\ UNCHANGED work
    BY DEF IngestInv, SaveWork, At, jobVars
  <1>2. /\ run[j] \in RunStates /\ run[j].todo \in Seq(Uploads) /\ run[j].todo # <<>>
        /\ IsInjective(run[j].todo) /\ Current(j) \in run[j].blank /\ Current(j) \in ingests
    BY <1>1, RunTyped DEF IngestInv, HandInv
  <1>3. /\ Current(j) = Head(run[j].todo) /\ Current(j) \in Uploads
        /\ Current(j) \in Range(run[j].todo)
        /\ Tail(run[j].todo) \in Seq(Uploads) /\ IsInjective(Tail(run[j].todo))
        /\ Range(Tail(run[j].todo)) \subseteq Range(run[j].todo)
        /\ Current(j) \notin Range(Tail(run[j].todo))
    BY <1>2, RestOfList DEF Current
  <1>4. /\ p \in RunStates /\ p.at = "next" /\ p.todo = Tail(run[j].todo)
        /\ p.blank = run[j].blank
    BY <1>2, <1>3 DEF RunStates
  <1> HIDE DEF p
  <1>5. run' \in [Jobs -> RunStates] /\ run'[j] = p /\ \A k \in Jobs : k # j => run'[k] = run[k]
    BY <1>1, <1>4, OneRun
  <1>6. WillAttach(j, Current(j))
    BY <1>1, <1>2, <1>3 DEF WillAttach, Running
  <1>7. locked' = {work'[k] : k \in {i \in Jobs : run'[i].at \in {"reload", "save"}}}
    BY <1>1, <1>4, LockLeft DEF Held
  <1> QED BY <1>2, <1>3, <1>4, <1>5, <1>6, <1>7

\* A save puts the file in hand after the members there are, or changes none.
LEMMA SavedMembers ==
  ASSUME IngestInv, NEW j \in Jobs, SaveWork(j)
  PROVE  \/ UNCHANGED members
         \/ /\ members' = [members EXCEPT ![work[j]] = Append(members[work[j]], Current(j))]
            /\ members[work[j]] \in Seq(Uploads) /\ work[j] \in Works
  BY DEF IngestInv, TypeOK, LockInv, SaveWork, At

LEMMA SaveKeeps ==
  ASSUME IngestInv, NEW j \in Jobs, SaveWork(j)
  PROVE  IngestInv'
  <1> DEFINE w == work[j]
             u == Current(j)
  <1>1. /\ TypeOK /\ run[j].at = "save" /\ lost' \subseteq lost \cup {u}
        /\ UNCHANGED <<stored, ingests, work, files, raced, deaths>>
        /\ w \in Works /\ members \in [Works -> Seq(Uploads)]
    BY DEF IngestInv, SaveWork, At, jobVars, historyVars, TypeOK
  <1>2. /\ run' \in [Jobs -> RunStates] /\ \A k \in Jobs : k # j => run'[k] = run[k]
        /\ run'[j].at = "next" /\ IsInjective(run'[j].todo)
        /\ u \in Uploads /\ u \in ingests /\ WillAttach(j, u)
        /\ locked' = {work'[k] : k \in {i \in Jobs : run'[i].at \in {"reload", "save"}}}
        /\ \A x \in Uploads : WillAttach(j, x)' => WillAttach(j, x) /\ x # u
    BY <1>1, SavedRun DEF WillAttach, Running
  <1>3. \A k \in Jobs, x \in Uploads : WillAttach(k, x)' => WillAttach(k, x)
    BY <1>2 DEF WillAttach, Running
  <1>4. /\ \A x \in Works : x # w => members'[x] = members[x]
        /\ members' \in [Works -> Seq(Uploads)]
        /\ \/ members'[w] = members[w]
           \/ /\ DOMAIN members'[w] = DOMAIN members[w] \cup {Len(members[w]) + 1}
              /\ \A i \in DOMAIN members[w] : members'[w][i] = members[w][i]
              /\ members'[w][Len(members[w]) + 1] = u
    <2> DEFINE s == members[w]
    <2>1. CASE UNCHANGED members
      BY <1>1, <2>1
    <2>2. CASE members' = [members EXCEPT ![w] = Append(s, u)]
      <3>1. s \in Seq(Uploads)
        BY <1>1
      <3> HIDE DEF s
      <3>2. /\ Append(s, u) \in Seq(Uploads) /\ Len(Append(s, u)) = Len(s) + 1
            /\ \A i \in 1..Len(s) : Append(s, u)[i] = s[i]
            /\ Append(s, u)[Len(s) + 1] = u
        BY <1>2, <3>1, AppendProperties
      <3>3. DOMAIN Append(s, u) = DOMAIN s \cup {Len(s) + 1} /\ DOMAIN s = 1..Len(s)
        BY <3>1, <3>2, LenProperties
      <3>4. members' \in [Works -> Seq(Uploads)] /\ members'[w] = Append(s, u)
        BY <1>1, <2>2, <3>2
      <3> QED BY <1>1, <2>2, <3>2, <3>3, <3>4 DEF s
    <2> QED BY <2>1, <2>2, SavedMembers
  <1> HIDE DEF w, u
  <1>5. TypeOK'
    BY <1>1, <1>2, <1>4 DEF TypeOK
  <1>6. HandInv'
    <2>1. \A k \in Jobs : k # j => Current(k)' = Current(k)
      BY <1>2 DEF Current
    <2> QED BY <1>1, <1>2, <2>1 DEF IngestInv, HandInv
  <1>7. LockInv'
    <2>1. \A k \in Jobs : At(k, "save")' => k # j /\ At(k, "save") /\ work[k] # w
      BY <1>1, <1>2 DEF IngestInv, LockInv, At, w
    <2> QED BY <1>1, <1>2, <1>4, <2>1 DEF IngestInv, LockInv, TypeOK, At
  <1>8. \A x \in Uploads : Attached(x)' => Attached(x) \/ x = u
    BY <1>4 DEF Attached, Range
  <1>9. ContentInv'
    BY <1>1, <1>2, <1>8 DEF IngestInv, ContentInv
  <1>10. OnceInv'
    <2> SUFFICES ASSUME NEW x \in Uploads \ raced
                 PROVE  /\ \A i, k \in Jobs : WillAttach(i, x)' /\ WillAttach(k, x)' => i = k
                        /\ \A k \in Jobs : WillAttach(k, x)' => ~Attached(x)'
                        /\ \A v, y \in Works : \A i \in DOMAIN members'[v], k \in DOMAIN members'[y] :
                              members'[v][i] = x /\ members'[y][k] = x => v = y /\ i = k
      BY <1>1 DEF OnceInv
    <2>1. /\ \A i, k \in Jobs : WillAttach(i, x) /\ WillAttach(k, x) => i = k
          /\ \A k \in Jobs : WillAttach(k, x) => ~Attached(x)
          /\ \A v, y \in Works : \A i \in DOMAIN members[v], k \in DOMAIN members[y] :
                members[v][i] = x /\ members[y][k] = x => v = y /\ i = k
      BY DEF IngestInv, OnceInv
    <2>2. \A k \in Jobs : WillAttach(k, x)' => ~Attached(x)'
      BY <1>2, <1>3, <1>8, <2>1
    <2>3. \A v, y \in Works : \A i \in DOMAIN members'[v], k \in DOMAIN members'[y] :
             members'[v][i] = x /\ members'[y][k] = x => v = y /\ i = k
      <3>1. CASE x = u
        <4>1. \A v \in Works : \A i \in DOMAIN members[v] : members[v][i] # x
          BY <1>2, <2>1, <3>1 DEF Attached, Range
        <4> QED BY <1>4, <3>1, <4>1
      <3>2. CASE x # u
        <4>1. \A v \in Works : \A i \in DOMAIN members'[v] :
                 members'[v][i] = x => i \in DOMAIN members[v] /\ members[v][i] = x
          BY <1>4, <3>2
        <4> QED BY <2>1, <4>1
      <3> QED BY <3>1, <3>2
    <2> QED BY <1>3, <2>1, <2>2, <2>3
  <1> QED BY <1>5, <1>6, <1>7, <1>9, <1>10 DEF IngestInv

LEMMA IngestStep == IngestInv /\ [Next]_vars => IngestInv'
  <1> SUFFICES ASSUME IngestInv, [Next]_vars PROVE IngestInv'
    OBVIOUS
  <1>1. ASSUME NEW j \in Jobs, JobStep(j) PROVE IngestInv'
    BY <1>1, StartKeeps, NextFileKeeps, HandKeeps, LockKeeps, SaveKeeps DEF JobStep
  <1>2. ASSUME NEW j \in Jobs, Die(j) PROVE IngestInv'
    BY <1>2, DieKeeps
  <1>3. ASSUME NEW j \in Jobs, NEW list \in Lists, Submit(j, list) PROVE IngestInv'
    BY <1>3, SubmitKeeps
  <1>4. ASSUME UNCHANGED vars PROVE IngestInv'
    BY <1>4 DEF vars, jobVars, historyVars, IngestInv, TypeOK, HandInv, LockInv, OnceInv,
                ContentInv, At, Current, WillAttach, Running, Attached
  <1> QED BY <1>1, <1>2, <1>3, <1>4 DEF Next

LEMMA IngestAlways == Spec => []IngestInv
  BY IngestStart, IngestStep, PTL DEF Spec

-----------------------------------------------------------------------------
(* Theorems *)

\* The types of the pipeline; the locks that are held are those of the runs
\* between perform_ordered's lock and its end.
THEOREM IngestTyped == Spec => []TypeOK
  <1>1. IngestInv => TypeOK
    BY DEF IngestInv
  <1> QED BY <1>1, IngestAlways, PTL

\* A set all of whose elements are equal has at most one.
LEMMA AllAlike ==
  ASSUME NEW S, \A a, b \in S : a = b
  PROVE  Cardinality(S) <= 1
  <1>1. CASE S = {}
    BY <1>1, FS_EmptySet
  <1>2. CASE S # {}
    <2>1. PICK a : a \in S
      BY <1>2
    <2>2. S = {a}
      BY <2>1
    <2> QED BY <2>2, FS_Singleton
  <1> QED BY <1>1, <1>2

\* Whatever dies and is run again, an upload that no two runs had in hand at a
\* time has one file set, in one work, and its content is on the way.
THEOREM FilesOnce == Spec => []AttachedOnce
  <1>1. IngestInv => AttachedOnce
    <2> SUFFICES ASSUME IngestInv, NEW u \in Uploads
                 PROVE  /\ u \notin raced => Cardinality(Occurrences(u)) <= 1
                        /\ Attached(u) => u \in ingests
      BY DEF AttachedOnce
    <2>1. ASSUME u \notin raced
          PROVE  Cardinality(Occurrences(u)) <= 1
      <3>1. \A p, q \in Occurrences(u) : p = q
        <4> SUFFICES ASSUME NEW p \in Occurrences(u), NEW q \in Occurrences(u) PROVE p = q
          OBVIOUS
        <4>1. /\ p = <<p[1], p[2]>> /\ p[1] \in Works /\ p[2] \in DOMAIN members[p[1]]
              /\ members[p[1]][p[2]] = u
          BY DEF Occurrences
        <4>2. /\ q = <<q[1], q[2]>> /\ q[1] \in Works /\ q[2] \in DOMAIN members[q[1]]
              /\ members[q[1]][q[2]] = u
          BY DEF Occurrences
        <4>3. p[1] = q[1] /\ p[2] = q[2]
          BY <2>1, <4>1, <4>2 DEF IngestInv, OnceInv
        <4> QED BY <4>1, <4>2, <4>3
      <3> QED BY <3>1, AllAlike
    <2>2. Attached(u) => u \in ingests
      BY DEF IngestInv, ContentInv
    <2> QED BY <2>1, <2>2
  <1> QED BY <1>1, IngestAlways, PTL

LEMMA SelfPrefix ==
  ASSUME NEW s \in Seq(Uploads)
  PROVE  IsPrefix(s, s)
  BY LenProperties DEF IsPrefix

\* A list is a prefix of the list with one more file.
LEMMA PrefixOfAppend ==
  ASSUME NEW s \in Seq(Uploads), NEW u \in Uploads
  PROVE  IsPrefix(s, Append(s, u))
  <1> DEFINE t == Append(s, u)
  <1>1. /\ t \in Seq(Uploads) /\ Len(s) \in Nat /\ Len(t) = Len(s) + 1
        /\ \A i \in 1..Len(s) : t[i] = s[i] /\ s[i] \in Uploads
    BY AppendProperties, LenProperties
  <1> HIDE DEF t
  <1>2. SubSeq(s, 1, Len(s)) = SubSeq(t, 1, Len(s))
    <2>1. /\ SubSeq(s, 1, Len(s)) \in Seq(Uploads) /\ SubSeq(t, 1, Len(s)) \in Seq(Uploads)
          /\ Len(SubSeq(s, 1, Len(s))) = Len(SubSeq(t, 1, Len(s)))
          /\ \A i \in 1..Len(s) : SubSeq(s, 1, Len(s))[i] = SubSeq(t, 1, Len(s))[i]
          /\ Len(SubSeq(s, 1, Len(s))) = Len(s)
      BY <1>1
    <2> QED BY <2>1, SeqEqual
  <1> QED BY <1>1, <1>2 DEF IsPrefix, t

\* No save of a job loses, repeats or moves a file that another job attached.
THEOREM MembersStay == Spec => MembersKept
  <1>1. IngestInv /\ [Next]_vars => [\A w \in Works : IsPrefix(members[w], members'[w])]_vars
    <2> SUFFICES ASSUME IngestInv, Next, NEW w \in Works
                 PROVE  IsPrefix(members[w], members'[w])
      OBVIOUS
    <2>1. members[w] \in Seq(Uploads) /\ members \in [Works -> Seq(Uploads)]
      BY DEF IngestInv, TypeOK
    <2>2. CASE \E j \in Jobs : SaveWork(j)
      <3>1. PICK j \in Jobs : SaveWork(j)
        BY <2>2
      <3>2. Current(j) \in Uploads
        BY <3>1, SavedRun
      <3>3. \/ members'[w] = members[w]
            \/ members'[w] = Append(members[w], Current(j))
        BY <2>1, <3>1, SavedMembers
      <3> QED BY <2>1, <3>2, <3>3, PrefixOfAppend, SelfPrefix
    <2>3. CASE UNCHANGED members
      BY <2>1, <2>3, SelfPrefix
    <2>4. CASE ~\E j \in Jobs : SaveWork(j)
      <3>1. UNCHANGED members
        BY <2>4 DEF Next, JobStep, Start, NextFile, RecordUri, CreateContent, AcquireLock,
                    ReloadWork, Die, Submit
      <3> QED BY <2>3, <3>1
    <2> QED BY <2>2, <2>4
  <1> QED BY <1>1, IngestAlways, PTL DEF Spec, MembersKept

-----------------------------------------------------------------------------
(* No upload is forgotten *)

\* A job that was never queued never ran.
QueuedInv == \A j \in Jobs : files[j] = <<>> => At(j, "idle")

InTheHand == {"content", "lock", "reload", "save"}

LEMMA OthersInRest ==
  ASSUME NEW s \in Seq(Uploads), NEW u \in Range(s), s # <<>>, u # Head(s)
  PROVE  u \in Range(Tail(s))
  <1>1. PICK i \in 1..Len(s) : s[i] = u
    BY DEF Range
  <1>2. i # 1 /\ Len(s) \in Nat
    BY <1>1, LenProperties
  <1>3. /\ i - 1 \in 1..Len(Tail(s)) /\ Tail(s)[i - 1] = s[i]
        /\ Tail(s) \in Seq(Uploads)
    BY <1>1, <1>2, HeadTailProperties
  <1>4. i - 1 \in DOMAIN Tail(s)
    BY <1>3, LenProperties
  <1> QED BY <1>1, <1>3, <1>4 DEF Range

\* A step of one run, which keeps what is attached, keeps NoneForgotten if it does
\* so for the files of its own job and for the file that it had in hand.
LEMMA OneRunForgets ==
  ASSUME IngestInv, NoneForgotten, NEW j \in Jobs, NEW p \in RunStates,
         run' = [run EXCEPT ![j] = p], UNCHANGED files,
         stored \subseteq stored', lost \subseteq lost',
         \A u \in Uploads : Attached(u) => Attached(u)',
         \A u \in Uploads : (u \in stored' \ stored) \/ InHand(j, u)
            => u \in lost' \/ Attached(u)' \/ InHand(j, u)',
         \A u \in Range(files[j]) \ stored' : At(j, "idle")' \/ WillAttach(j, u)'
  PROVE  NoneForgotten'
  <1> SUFFICES ASSUME NEW u \in Uploads
               PROVE  /\ u \in stored' \ lost' => Attached(u)' \/ \E k \in Jobs : InHand(k, u)'
                      /\ \A k \in Jobs : u \in Range(files'[k]) \ stored'
                                            => At(k, "idle")' \/ WillAttach(k, u)'
    BY DEF NoneForgotten, Attached
  <1>1. \A k \in Jobs : k # j => run'[k] = run[k]
    BY OneRun DEF IngestInv
  <1>2. ASSUME u \in stored' \ lost' PROVE Attached(u)' \/ \E k \in Jobs : InHand(k, u)'
    <2>1. CASE u \in stored' \ stored
      BY <1>2, <2>1
    <2>2. CASE u \in stored
      <3>1. Attached(u) \/ \E k \in Jobs : InHand(k, u)
        BY <1>2, <2>2 DEF NoneForgotten
      <3>2. ASSUME NEW k \in Jobs, InHand(k, u)
            PROVE  Attached(u)' \/ \E i \in Jobs : InHand(i, u)'
        <4>1. CASE k = j
          BY <1>2, <3>2, <4>1
        <4>2. CASE k # j
          BY <1>1, <3>2, <4>2 DEF InHand, Current
        <4> QED BY <4>1, <4>2
      <3> QED BY <3>1, <3>2
    <2> QED BY <1>2, <2>1, <2>2
  <1>3. ASSUME NEW k \in Jobs, u \in Range(files'[k]) \ stored'
        PROVE  At(k, "idle")' \/ WillAttach(k, u)'
    <2>1. CASE k = j
      BY <1>3, <2>1
    <2>2. CASE k # j
      <3>1. At(k, "idle") \/ WillAttach(k, u)
        BY <1>3 DEF NoneForgotten
      <3> QED BY <1>1, <2>2, <3>1 DEF At, WillAttach, Running
    <2> QED BY <2>1, <2>2
  <1> QED BY <1>2, <1>3

\* A step of a run that keeps its files to go, and the file in hand, if any.
LEMMA MoveForgets ==
  ASSUME IngestInv, NoneForgotten, NEW j \in Jobs, NEW step,
         [run[j] EXCEPT !.at = step] \in RunStates,
         run' = [run EXCEPT ![j] = [run[j] EXCEPT !.at = step]],
         UNCHANGED <<members, files, lost>>, Running(j), step \notin {"idle", "done"},
         run[j].at \in InTheHand => step \in InTheHand,
         \/ UNCHANGED stored
         \/ stored' = stored \cup {Current(j)} /\ step \in InTheHand
  PROVE  NoneForgotten'
  <1> DEFINE p == [run[j] EXCEPT !.at = step]
  <1>1. run[j] \in RunStates
    BY RunTyped DEF IngestInv
  <1>2. p.at = step /\ p.todo = run[j].todo /\ p.blank = run[j].blank
    BY <1>1 DEF RunStates
  <1>3. run'[j] = p
    BY OneRun DEF IngestInv
  <1> HIDE DEF p
  <1>4. \A u \in Uploads : Attached(u) => Attached(u)'
    BY DEF Attached
  <1>5. \A u \in Uploads : (u \in stored' \ stored) \/ InHand(j, u) => InHand(j, u)'
    BY <1>2, <1>3 DEF InHand, Current, InTheHand
  <1>6. ASSUME NEW u \in Range(files[j]) \ stored' PROVE WillAttach(j, u)'
    <2>1. u \in Uploads /\ u \notin stored
      BY DEF IngestInv, TypeOK, Range
    <2>2. WillAttach(j, u)
      BY <2>1 DEF NoneForgotten, At, Running
    <2> QED BY <1>2, <1>3, <2>2 DEF WillAttach, Running
  <1> QED BY <1>4, <1>5, <1>6, OneRunForgets DEF p

LEMMA SubmitForgets ==
  ASSUME IngestInv, NoneForgotten, QueuedInv, NEW j \in Jobs, NEW list \in Lists,
         Submit(j, list)
  PROVE  NoneForgotten' /\ QueuedInv'
  <1>1. /\ At(j, "idle") /\ files' = [files EXCEPT ![j] = list] /\ list # <<>>
        /\ UNCHANGED <<members, stored, run, lost>>
    BY DEF Submit, QueuedInv
  <1>2. files'[j] = list /\ \A k \in Jobs : k # j => files'[k] = files[k]
    BY <1>1 DEF IngestInv, TypeOK
  <1>3. \A k \in Jobs :
           /\ At(k, "idle")' <=> At(k, "idle")
           /\ \A u \in Uploads : /\ WillAttach(k, u)' <=> WillAttach(k, u)
                                 /\ InHand(k, u)' <=> InHand(k, u)
    BY <1>1 DEF At, WillAttach, Running, InHand, Current
  <1>4. \A u \in Uploads : Attached(u)' <=> Attached(u)
    BY <1>1 DEF Attached
  <1>5. NoneForgotten'
    BY <1>1, <1>2, <1>3, <1>4 DEF NoneForgotten
  <1>6. QueuedInv'
    BY <1>1, <1>2, <1>3 DEF QueuedInv
  <1> QED BY <1>5, <1>6

LEMMA StartForgets ==
  ASSUME IngestInv, NoneForgotten, NEW j \in Jobs, Start(j)
  PROVE  NoneForgotten'
  <1> DEFINE new == Range(files[j]) \ stored
             p == [at |-> "next", todo |-> files[j], blank |-> new, copy |-> members[work[j]]]
  <1>1. /\ run[j].at = "idle" /\ run' = [run EXCEPT ![j] = p]
        /\ UNCHANGED <<members, files, stored, lost>>
    BY DEF Start, At, jobVars
  <1>2. p \in RunStates
    BY DEF RunStates, IngestInv, TypeOK, Range
  <1>3. run'[j] = p
    BY <1>1, <1>2, OneRun DEF IngestInv
  <1>4. /\ \A u \in Uploads : Attached(u) => Attached(u)'
        /\ \A u \in Uploads : ~InHand(j, u)
        /\ \A u \in Range(files[j]) \ stored' : WillAttach(j, u)'
    BY <1>1, <1>3 DEF Attached, InHand, WillAttach, Running
  <1> HIDE DEF p
  <1> QED BY <1>1, <1>2, <1>4, OneRunForgets

LEMMA NextFileForgets ==
  ASSUME IngestInv, NoneForgotten, NEW j \in Jobs, NextFile(j)
  PROVE  NoneForgotten'
  <1>1. /\ run[j].at = "next" /\ Running(j) /\ UNCHANGED <<members, files, stored, lost>>
    BY DEF NextFile, At, Running, jobVars
  <1>2. /\ run[j] \in RunStates /\ run[j].todo \in Seq(Uploads) /\ run[j].blank \subseteq Uploads
    BY RunTyped DEF IngestInv
  <1>3. /\ \A u \in Uploads : Attached(u) => Attached(u)'
        /\ \A u \in Uploads : ~InHand(j, u)
    BY <1>1 DEF Attached, InHand
  <1>4. ASSUME NEW u \in Range(files[j]) \ stored PROVE WillAttach(j, u) /\ u \in Uploads
    <2>1. u \in Uploads
      BY DEF IngestInv, TypeOK, Range
    <2> QED BY <1>1, <2>1 DEF NoneForgotten, At
  <1>5. CASE run[j].todo = <<>>
    <2>1. AtRest("done") \in RunStates /\ run' = [run EXCEPT ![j] = AtRest("done")]
      BY <1>5, RestTyped DEF NextFile
    <2>2. Range(files[j]) \ stored = {}
      BY <1>4, <1>5, EmptyList DEF WillAttach
    <2> QED BY <1>1, <1>3, <2>1, <2>2, OneRunForgets
  <1>6. CASE run[j].todo # <<>> /\ Skips(j)
    <2> DEFINE p == [run[j] EXCEPT !.todo = Tail(@)]
    <2>1. run' = [run EXCEPT ![j] = p]
      BY <1>6 DEF NextFile
    <2>2. /\ p \in RunStates /\ p.at = "next" /\ p.todo = Tail(run[j].todo)
          /\ p.blank = run[j].blank
      BY <1>1, <1>2, <1>6, RestOfList DEF RunStates
    <2>3. run'[j] = p
      BY <2>1, <2>2, OneRun DEF IngestInv
    <2> HIDE DEF p
    <2>4. ASSUME NEW u \in Range(files[j]) \ stored' PROVE WillAttach(j, u)'
      <3>1. u \in Range(run[j].todo) /\ u \in run[j].blank
        BY <1>1, <1>4 DEF WillAttach
      <3>2. u # Head(run[j].todo)
        BY <1>6, <3>1 DEF Skips, Current
      <3>3. u \in Range(Tail(run[j].todo))
        BY <1>2, <1>6, <3>1, <3>2, OthersInRest
      <3> QED BY <2>2, <2>3, <3>1, <3>3 DEF WillAttach, Running
    <2> QED BY <1>1, <1>3, <2>1, <2>2, <2>4, OneRunForgets
  <1>7. CASE run[j].todo # <<>> /\ ~Skips(j)
    <2>1. /\ run' = [run EXCEPT ![j] = [run[j] EXCEPT !.at = "record"]]
          /\ [run[j] EXCEPT !.at = "record"] \in RunStates
      BY <1>2, <1>7 DEF NextFile, Goto, RunStates
    <2>2. run[j].at \notin InTheHand /\ "record" \notin {"idle", "done"}
      BY <1>1 DEF InTheHand
    <2> QED BY <1>1, <2>1, <2>2, MoveForgets
  <1> QED BY <1>5, <1>6, <1>7

LEMMA HandForgets ==
  ASSUME IngestInv, NoneForgotten, NEW j \in Jobs,
         RecordUri(j) \/ CreateContent(j) \/ AcquireLock(j)
  PROVE  NoneForgotten'
  <1>1. run[j] \in RunStates
    BY RunTyped DEF IngestInv
  <1>2. PICK step \in {"content", "lock", "reload"} :
           /\ run' = [run EXCEPT ![j] = [run[j] EXCEPT !.at = step]]
           /\ Running(j) /\ UNCHANGED <<members, files, lost>>
           /\ UNCHANGED stored \/ stored' = stored \cup {Current(j)}
    BY DEF RecordUri, CreateContent, AcquireLock, At, Goto, Running, jobVars
  <1>3. [run[j] EXCEPT !.at = step] \in RunStates
    BY <1>1 DEF RunStates
  <1> QED BY <1>2, <1>3, MoveForgets DEF InTheHand

LEMMA ReloadForgets ==
  ASSUME IngestInv, NoneForgotten, NEW j \in Jobs, ReloadWork(j)
  PROVE  NoneForgotten'
  <1> DEFINE p == [run[j] EXCEPT !.at = "save", !.copy = Reloaded(j)]
  <1>1. /\ run[j].at = "reload" /\ Running(j) /\ run' = [run EXCEPT ![j] = p]
        /\ UNCHANGED <<members, files, stored, lost>>
    BY DEF ReloadWork, At, Running, jobVars
  <1>2. run[j] \in RunStates
    BY RunTyped DEF IngestInv
  <1>3. /\ p \in RunStates /\ p.at = "save" /\ p.todo = run[j].todo
        /\ p.blank = run[j].blank
    BY <1>2 DEF RunStates, Reloaded, IngestInv, TypeOK
  <1>4. run'[j] = p
    BY <1>1, <1>3, OneRun DEF IngestInv
  <1> HIDE DEF p
  <1>5. /\ \A u \in Uploads : Attached(u) => Attached(u)'
        /\ \A u \in Uploads : InHand(j, u) => InHand(j, u)'
    BY <1>1, <1>3, <1>4 DEF Attached, InHand, Current
  <1>6. ASSUME NEW u \in Range(files[j]) \ stored' PROVE WillAttach(j, u)'
    <2>1. u \in Uploads
      BY DEF IngestInv, TypeOK, Range
    <2>2. WillAttach(j, u)
      BY <1>1, <2>1 DEF NoneForgotten, At
    <2> QED BY <1>3, <1>4, <2>2 DEF WillAttach, Running
  <1> QED BY <1>1, <1>3, <1>5, <1>6, OneRunForgets

\* A save attaches the file in hand, or gives it up.
LEMMA SaveForgets ==
  ASSUME IngestInv, NoneForgotten, NEW j \in Jobs, SaveWork(j)
  PROVE  NoneForgotten'
  <1> DEFINE p == [run[j] EXCEPT !.at = "next", !.todo = Tail(@)]
  <1>1. PICK c \in Uploads : c = Current(j)
    BY SavedRun
  <1>2. /\ run[j].at = "save" /\ run' = [run EXCEPT ![j] = p]
        /\ UNCHANGED <<files, stored>> /\ lost \subseteq lost'
        /\ c \in lost' \/ members' = [members EXCEPT ![work[j]] = Append(run[j].copy, c)]
    BY <1>1 DEF SaveWork, At, jobVars
  <1>3. /\ run[j] \in RunStates /\ run[j].todo \in Seq(Uploads) /\ run[j].todo # <<>>
        /\ c \in stored
    BY <1>1, SavedRun, RunTyped DEF IngestInv, TypeOK
  <1>4. /\ p \in RunStates /\ p.at = "next" /\ p.todo = Tail(run[j].todo)
        /\ p.blank = run[j].blank
    BY <1>3, RestOfList DEF RunStates
  <1>5. run'[j] = p
    BY <1>2, <1>4, OneRun DEF IngestInv
  <1> HIDE DEF p
  <1>6. \/ UNCHANGED members /\ c \in lost'
        \/ /\ members' = [members EXCEPT ![work[j]] = Append(members[work[j]], c)]
           /\ members[work[j]] \in Seq(Uploads) /\ work[j] \in Works
    BY <1>1, <1>2 DEF SaveWork, IngestInv, TypeOK, LockInv, At
  <1>7. /\ \A u \in Uploads : Attached(u) => Attached(u)'
        /\ c \in lost' \/ Attached(c)'
    <2>1. CASE UNCHANGED members /\ c \in lost'
      BY <2>1 DEF Attached
    <2>2. CASE /\ members' = [members EXCEPT ![work[j]] = Append(members[work[j]], c)]
               /\ members[work[j]] \in Seq(Uploads) /\ work[j] \in Works
      <3> DEFINE s == members[work[j]]
      <3>1. Range(s) \cup {c} \subseteq Range(Append(s, c))
        <4>1. /\ Append(s, c) \in Seq(Uploads) /\ Len(Append(s, c)) = Len(s) + 1
              /\ Len(s) \in Nat /\ \A i \in 1..Len(s) : Append(s, c)[i] = s[i]
              /\ Append(s, c)[Len(s) + 1] = c
          BY <2>2, AppendProperties, LenProperties
        <4>2. DOMAIN s = 1..Len(s) /\ DOMAIN Append(s, c) = 1..(Len(s) + 1)
          BY <2>2, <4>1, LenProperties
        <4> QED BY <4>1, <4>2 DEF Range
      <3>2. \A w \in Works : Range(members[w]) \subseteq Range(members'[w])
        BY <2>2, <3>1 DEF IngestInv, TypeOK
      <3>3. c \in Range(members'[work[j]])
        BY <2>2, <3>1 DEF IngestInv, TypeOK
      <3> QED BY <2>2, <3>2, <3>3 DEF Attached
    <2> QED BY <1>6, <2>1, <2>2
  <1>8. \A u \in Uploads : InHand(j, u) => u = c
    BY <1>1 DEF InHand
  <1>9. ASSUME NEW u \in Range(files[j]) \ stored' PROVE WillAttach(j, u)'
    <2>1. u \in Uploads /\ u # c
      BY <1>2, <1>3 DEF IngestInv, TypeOK, Range
    <2>2. u \in Range(run[j].todo) /\ u \in run[j].blank
      BY <1>2, <2>1 DEF NoneForgotten, At, WillAttach
    <2>3. u \in Range(Tail(run[j].todo))
      BY <1>1, <1>3, <2>1, <2>2, OthersInRest DEF Current
    <2> QED BY <1>4, <1>5, <2>2, <2>3 DEF WillAttach, Running
  <1> QED BY <1>2, <1>4, <1>7, <1>8, <1>9, OneRunForgets

\* A death gives up the file in hand; everything else is begun again.
LEMMA DieForgets ==
  ASSUME IngestInv, NoneForgotten, NEW j \in Jobs, Die(j)
  PROVE  NoneForgotten'
  <1>1. /\ run' = [run EXCEPT ![j] = AtRest("idle")]
        /\ UNCHANGED <<members, files, stored>> /\ lost \subseteq lost'
        /\ run[j].at \in InTheHand => Current(j) \in lost'
    BY DEF Die, RunAgain, jobVars, InTheHand
  <1>2. AtRest("idle") \in RunStates /\ AtRest("idle").at = "idle"
    BY RestTyped
  <1>3. At(j, "idle")'
    BY <1>1, <1>2, OneRun DEF IngestInv, At
  <1>4. /\ \A u \in Uploads : Attached(u) => Attached(u)'
        /\ \A u \in Uploads : InHand(j, u) => u \in lost'
    BY <1>1 DEF Attached, InHand, InTheHand
  <1> QED BY <1>1, <1>2, <1>3, <1>4, OneRunForgets

LEMMA QueuedKept ==
  ASSUME IngestInv, QueuedInv, NEW j \in Jobs, JobStep(j) \/ Die(j)
  PROVE  QueuedInv'
  <1>1. /\ UNCHANGED files /\ \A k \in Jobs : k # j => run'[k] = run[k]
    BY DEF JobStep, Start, NextFile, RecordUri, CreateContent, AcquireLock, ReloadWork,
           SaveWork, Die, Goto, jobVars, IngestInv, TypeOK
  <1>2. files[j] # <<>>
    BY DEF JobStep, Start, NextFile, RecordUri, CreateContent, AcquireLock, ReloadWork,
           SaveWork, Die, At, Running, QueuedInv
  <1> QED BY <1>1, <1>2 DEF QueuedInv, At

\* Every upload of a form is attached, given up, in a run's hand, or still to be
\* attached by its job, for any jobs, lists of files, deaths and works.
THEOREM NothingForgotten == Spec => []NoneForgotten
  <1> DEFINE ForgottenInv == NoneForgotten /\ QueuedInv
  <1>1. Init => ForgottenInv
    BY EmptyList DEF Init, NoneForgotten, QueuedInv, At, AtRest
  <1>2. IngestInv /\ ForgottenInv /\ [Next]_vars => ForgottenInv'
    <2> SUFFICES ASSUME IngestInv, NoneForgotten, QueuedInv, [Next]_vars
                 PROVE  NoneForgotten' /\ QueuedInv'
      OBVIOUS
    <2>1. ASSUME NEW j \in Jobs, JobStep(j) \/ Die(j) PROVE NoneForgotten'
      BY <2>1, StartForgets, NextFileForgets, HandForgets, ReloadForgets, SaveForgets,
         DieForgets DEF JobStep
    <2>2. CASE UNCHANGED vars
      BY <2>2 DEF vars, jobVars, historyVars, NoneForgotten, QueuedInv, Attached, InHand,
                  Current, At, WillAttach, Running
    <2> QED BY <2>1, <2>2, QueuedKept, SubmitForgets DEF Next
  <1>3. Spec => []ForgottenInv
    BY <1>1, <1>2, IngestAlways, PTL DEF Spec
  <1> QED BY <1>3, PTL

=============================================================================
