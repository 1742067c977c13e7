-------------------------- MODULE CdlLendingProofs --------------------------
(***************************************************************************)
(* Machine-checked facts about CdlLending, for any sets of works, users,   *)
(* overlapping users and sign-ins.                                         *)
(***************************************************************************)
EXTENDS CdlLending, SequenceTheorems, TLAPS

-----------------------------------------------------------------------------
(* Type correctness *)

LEMMA InitTypeOK == Init => TypeOK
  <1>1. 0 \in 0..MaxTime
    BY LendingAssumption
  <1>2. <<>> \in Seq(Works)
    OBVIOUS
  <1> QED
    BY <1>1, <1>2 DEF Init, LifeInit, TypeOK, LifeTypeOK, Stages

\* Every way the life of a work goes on keeps its variables typed.
LEMMA LifeStepTyped ==
    ASSUME LifeTypeOK, NEW w \in Works,
           \/ Deposit(w)
           \/ BuildStart(w)
           \/ BuildGroup(w)
           \/ BuildEnd(w)
           \/ Withdraw(w)
           \/ DestroyGroup(w)
    PROVE  LifeTypeOK'
  BY DEF LifeTypeOK, Deposit, BuildStart, BuildGroup, BuildEnd, Withdraw,
         DestroyGroup

\* A granted pid is a work: it was one of the pids of the scope.
LEMMA PidTyped ==
    ASSUME TypeOK, NEW s \in Sessions, next[s] <= Len(pids[s])
    PROVE  Pid(s) \in Works
  BY ElementOfSeq DEF TypeOK, Pid

\* The index is within the pids while one is in hand.
InHand ==
    \A s \in Sessions :
        pc[s] \in {"seen", "found"} => next[s] <= Len(pids[s])

TInv == TypeOK /\ InHand

LEMMA SigninTyped ==
    ASSUME TInv, NEW s \in Sessions, SigninStep(s)
    PROVE  TInv'
  <1> USE DEF TInv, InHand, TypeOK, LifeTypeOK, lifeVars, Stages
  <1>1. CASE Begin(s)
    <2>1. pids' \in [Sessions -> Seq(Works)]
      BY <1>1, LendingAssumption DEF Begin
    <2>2. pc' = [pc EXCEPT ![s] = "next"] /\ pc' \in [Sessions -> Stages]
      BY <1>1 DEF Begin
    <2>3. since' \in [Sessions -> Nat]
      BY <1>1 DEF Begin
    <2>4. \A t \in Sessions \ {s} : pids'[t] = pids[t] /\ next'[t] = next[t]
      BY <1>1 DEF Begin
    <2>5. InHand'
      BY <2>2, <2>4
    <2> QED
      BY <1>1, <2>1, <2>2, <2>3, <2>5 DEF Begin
  <1>2. CASE LookUp(s)
    <2>1. Pid(s) \in Works
      BY <1>2, PidTyped DEF LookUp
    <2> QED
      BY <1>2, <2>1 DEF LookUp
  <1>3. CASE LookUpRaises(s)
    BY <1>3 DEF LookUpRaises
  <1>4. CASE FindRow(s)
    <2>1. \A r \in auths : {RowId(r)} \in SUBSET (Sessions \X Works)
      BY DEF Row, RowId
    <2>2. found' \in [Sessions -> SUBSET (Sessions \X Works)]
      <3>1. CASE found' = [found EXCEPT ![s] = {}]
        BY <3>1
      <3>2. CASE \E r \in auths : found' = [found EXCEPT ![s] = {RowId(r)}]
        BY <3>2, <2>1
      <3> QED
        BY <1>4, <3>1, <3>2 DEF FindRow, Existing, RowsOf
    <2> QED
      BY <1>4, <2>2 DEF FindRow
  <1>5. CASE Authorize(s)
    <2>1. Pid(s) \in Works
      BY <1>5, PidTyped DEF Authorize
    <2>2. since[s] + Loan \in Nat
      BY LendingAssumption
    <2>3. LoanRow(s, user[s], Pid(s), since[s] + Loan) \in Row
      BY <2>1, <2>2 DEF Row, LoanRow
    <2>4. \A r \in auths : Renewed(r, since[s] + Loan) \in Row
      BY <2>2 DEF Row, LoanRow, Renewed
    <2>5. auths' \in SUBSET Row
      <3>1. CASE found[s] = {}
        BY <1>5, <2>3, <3>1 DEF Authorize
      <3>2. CASE found[s] # {}
        <4>1. \A q \in auths' :
                 \E r \in auths :
                    q = r \/ q = Renewed(r, since[s] + Loan)
          BY <1>5, <3>2 DEF Authorize
        <4>2. \A r \in auths : r \in Row
          OBVIOUS
        <4>3. \A q \in auths' : q \in Row
          <5> HIDE DEF TInv, TypeOK, InHand, LifeTypeOK, Row
          <5> QED
            BY <2>4, <4>1, <4>2
        <4> QED
          BY <4>3
      <3> QED
        BY <3>1, <3>2
    <2>6. members' \in SUBSET (Users \X Works \X Nat)
      BY <1>5, <2>1 DEF Authorize, Joined
    <2>7. UNCHANGED <<lifeVars, user, since, pids, seen, found, expired, clock>>
      BY <1>5 DEF Authorize
    <2>8. next' \in [Sessions -> Nat \ {0}] /\ pc' \in [Sessions -> Stages]
      <3>1. next' = [next EXCEPT ![s] = next[s] + 1]
        BY <1>5 DEF Authorize
      <3>2. next[s] + 1 \in Nat \ {0}
        OBVIOUS
      <3>3. pc' = [pc EXCEPT ![s] = "next"]
        BY <1>5 DEF Authorize
      <3> QED
        BY <3>1, <3>2, <3>3
    <2>9. InHand'
      BY <1>5 DEF Authorize
    <2> QED
      BY <2>5, <2>6, <2>7, <2>8, <2>9
  <1>6. CASE PluckExpired(s)
    <2>1. \A r \in auths : r.work \in Works
      BY DEF Row
    <2> QED
      BY <1>6, <2>1 DEF PluckExpired, ExpiredPids, ExpiredRows
  <1>7. CASE Revoke(s)
    <2>1. auths' \subseteq auths /\ members' \subseteq members
      BY <1>7 DEF Revoke, RowsOf, Left
    <2>2. expired' \in [Sessions -> SUBSET Works]
      BY <1>7 DEF Revoke
    <2> QED
      BY <1>7, <2>1, <2>2 DEF Revoke
  <1>8. CASE SignIn(s)
    BY <1>8 DEF SignIn
  <1>9. CASE Abort(s)
    BY <1>9 DEF Abort
  <1> QED
    BY <1>1, <1>2, <1>3, <1>4, <1>5, <1>6, <1>7, <1>8, <1>9 DEF SigninStep

LEMMA NextTyped == TInv /\ [Next]_vars => TInv'
  <1> SUFFICES ASSUME TInv, [Next]_vars
               PROVE  TInv'
    OBVIOUS
  <1>1. ASSUME NEW s \in Sessions, SigninStep(s)
        PROVE  TInv'
    BY <1>1, SigninTyped
  <1>2. ASSUME NEW w \in Works, WorkStep(w)
        PROVE  TInv'
    <2>1. LifeTypeOK'
      BY <1>2, LifeStepTyped DEF TInv, TypeOK, WorkStep
    <2> QED
      BY <1>2, <2>1 DEF TInv, InHand, TypeOK, WorkStep, signinVars
  <1>3. ASSUME NEW w \in Works, DestroyCdlGroup(w)
        PROVE  TInv'
    <2>1. LifeTypeOK'
      BY <1>3, LifeStepTyped DEF TInv, TypeOK, DestroyCdlGroup
    <2> QED
      BY <1>3, <2>1 DEF TInv, InHand, TypeOK, DestroyCdlGroup, signinVars
  <1>4. CASE Tick
    BY <1>4, LendingAssumption
    DEF Tick, TInv, InHand, TypeOK, LifeTypeOK, lifeVars, signinVars
  <1>5. CASE UNCHANGED vars
    BY <1>5 DEF vars, TInv, InHand, TypeOK, LifeTypeOK, lifeVars, signinVars
  <1> QED
    BY <1>1, <1>2, <1>3, <1>4, <1>5 DEF Next

\* Every variable keeps the type its table, column or request gives it, and a
\* sign-in never runs past the pids its scope names.
THEOREM TypeCorrect == Spec => []TypeOK
  <1>1. Init => TInv
    BY InitTypeOK DEF TInv, InHand, Init
  <1>2. TInv => TypeOK
    BY DEF TInv
  <1> QED
    BY <1>1, <1>2, NextTyped, PTL DEF Spec

-----------------------------------------------------------------------------
(* A record gives access *)

\* Before it is deposited a pid has no group; while it is live its group, if
\* any, is the last one made, and nothing is about to destroy it.
LifeInv ==
    \A w \in Works :
        /\ work[w] = "absent" =>
              group[w] = 0 /\ born[w] = 0 /\ w \notin building \cup dooming
        /\ work[w] = "live" => group[w] = born[w] /\ w \notin dooming

\* A group looked up for a work that is still live is still its group.
SeenInv ==
    \A s \in Sessions :
        pc[s] \in {"seen", "found"} =>
            /\ work[Pid(s)] # "absent"
            /\ work[Pid(s)] = "live" =>
                  group[Pid(s)] # 0 /\ seen[s] = group[Pid(s)]

\* The row's work was deposited, and the row gives access.
RowInv ==
    \A r \in auths :
        /\ work[r.work] # "absent"
        /\ work[r.work] = "live" => IsMember(r.user, r.work)

AccessInv == TInv /\ LifeInv /\ SeenInv /\ RowInv

LEMMA LifeStepKeeps ==
    ASSUME LifeTypeOK, LifeInv, NEW w \in Works,
           \/ Deposit(w)
           \/ BuildStart(w)
           \/ BuildGroup(w)
           \/ BuildEnd(w)
           \/ Withdraw(w)
           \/ DestroyGroup(w)
    PROVE  /\ LifeInv'
           /\ \A v \in Works :
                 /\ work[v] # "absent" => work'[v] # "absent"
                 /\ work'[v] = "live" /\ work[v] # "absent" =>
                       /\ work[v] = "live"
                       /\ group[v] # 0 => group'[v] = group[v]
  <1> USE DEF LifeTypeOK, LifeInv
  <1>1. CASE Deposit(w)
    BY <1>1 DEF Deposit
  <1>2. CASE BuildStart(w)
    BY <1>2 DEF BuildStart
  <1>3. CASE BuildGroup(w)
    BY <1>3 DEF BuildGroup
  <1>4. CASE BuildEnd(w)
    BY <1>4 DEF BuildEnd
  <1>5. CASE Withdraw(w)
    BY <1>5 DEF Withdraw
  <1>6. CASE DestroyGroup(w)
    BY <1>6 DEF DestroyGroup
  <1> QED
    BY <1>1, <1>2, <1>3, <1>4, <1>5, <1>6

LEMMA SigninKeepsAccess ==
    ASSUME AccessInv, NEW s \in Sessions, SigninStep(s)
    PROVE  LifeInv' /\ SeenInv' /\ RowInv'
  <1> USE DEF AccessInv, TInv, TypeOK, LifeTypeOK, lifeVars
  <1>0. UNCHANGED lifeVars
    BY DEF SigninStep, Begin, LookUp, LookUpRaises, FindRow, Authorize,
           PluckExpired, Revoke, SignIn, Abort
  <1>1. LifeInv'
    BY <1>0 DEF LifeInv
  <1>2. CASE \/ Begin(s) \/ LookUpRaises(s) \/ PluckExpired(s)
             \/ SignIn(s) \/ Abort(s)
    <2>1. UNCHANGED <<auths, members>>
      BY <1>2 DEF Begin, LookUpRaises, PluckExpired, SignIn, Abort
    <2>2. RowInv'
      BY <1>0, <2>1 DEF RowInv, IsMember
    <2>3. /\ pc'[s] \notin {"seen", "found"}
          /\ \A t \in Sessions \ {s} :
                /\ pc'[t] = pc[t] /\ pids'[t] = pids[t]
                /\ next'[t] = next[t] /\ seen'[t] = seen[t]
      BY <1>2 DEF Begin, LookUpRaises, PluckExpired, SignIn, Abort
    <2>4. ASSUME NEW t \in Sessions, pc'[t] \in {"seen", "found"}
          PROVE  /\ t # s /\ pc[t] \in {"seen", "found"}
                 /\ Pid(t)' = Pid(t) /\ seen'[t] = seen[t]
      BY <2>3, <2>4 DEF Pid
    <2>5. SeenInv'
      BY <1>0, <2>4 DEF SeenInv
    <2> QED
      BY <1>1, <2>2, <2>5
  <1>3. CASE LookUp(s)
    <2>1. RowInv'
      BY <1>3, <1>0 DEF LookUp, RowInv, IsMember
    <2>2. /\ Pid(s) \in Works /\ CanAuthorize(Pid(s))
          /\ seen'[s] = group[Pid(s)]
      BY <1>3, PidTyped DEF LookUp
    <2>3. /\ UNCHANGED <<pids, next>>
          /\ \A t \in Sessions \ {s} : pc'[t] = pc[t] /\ seen'[t] = seen[t]
      BY <1>3 DEF LookUp
    <2>4. \A t \in Sessions : Pid(t)' = Pid(t)
      BY <2>3 DEF Pid
    <2>5. SeenInv'
      BY <1>0, <2>2, <2>3, <2>4 DEF SeenInv, CanAuthorize
    <2> QED
      BY <1>1, <2>1, <2>5
  <1>4. CASE FindRow(s)
    <2>1. RowInv'
      BY <1>4, <1>0 DEF FindRow, RowInv, IsMember
    <2>2. SeenInv'
      BY <1>4, <1>0 DEF FindRow, SeenInv, Pid
    <2> QED
      BY <1>1, <2>1, <2>2
  <1>5. CASE Authorize(s)
    <2>1. Pid(s) \in Works /\ pc[s] = "found"
      BY <1>5, PidTyped DEF Authorize, InHand
    <2>2. SeenInv'
      BY <1>5, <1>0 DEF Authorize, SeenInv, Pid
    <2>3. members \subseteq members' /\ <<user[s], Pid(s), seen[s]>> \in members'
      BY <1>5 DEF Authorize, Joined
    <2>4. ASSUME NEW q \in auths'
          PROVE  \/ q.user = user[s] /\ q.work = Pid(s)
                 \/ \E r \in auths : q.user = r.user /\ q.work = r.work
      <3>1. CASE found[s] = {}
        BY <1>5, <3>1 DEF Authorize, LoanRow
      <3>2. CASE found[s] # {}
        <4>1. PICK r \in auths :
                 q = IF RowId(r) \in found[s]
                     THEN Renewed(r, since[s] + Loan)
                     ELSE r
          BY <1>5, <3>2 DEF Authorize
        <4> QED
          BY <4>1 DEF LoanRow, Renewed
      <3> QED
        BY <3>1, <3>2
    <2>5. ASSUME NEW q \in auths'
          PROVE  /\ work[q.work] # "absent"
                 /\ work[q.work] = "live" => IsMember(q.user, q.work)'
      <3>1. CASE q.user = user[s] /\ q.work = Pid(s)
        <4>1. work[Pid(s)] = "live" =>
                 group[Pid(s)] # 0 /\ seen[s] = group[Pid(s)]
          BY <2>1 DEF SeenInv
        <4>2. work[Pid(s)] # "absent"
          BY <2>1 DEF SeenInv
        <4> QED
          BY <1>0, <2>3, <3>1, <4>1, <4>2 DEF IsMember
      <3>2. CASE \E r \in auths : q.user = r.user /\ q.work = r.work
        BY <1>0, <2>3, <3>2 DEF RowInv, IsMember
      <3> QED
        BY <2>4, <3>1, <3>2
    <2>6. RowInv'
      BY <1>0, <2>5 DEF RowInv
    <2> QED
      BY <1>1, <2>2, <2>6
  <1>6. CASE Revoke(s)
    <2>1. SeenInv'
      BY <1>6, <1>0 DEF Revoke, SeenInv, Pid
    <2>2. PICK w \in expired[s] :
             IF work[w] = "live"
             THEN /\ auths' = auths \ RowsOf(user[s], w)
                  /\ members' = Left(user[s], w)
             ELSE UNCHANGED <<auths, members>>
      BY <1>6 DEF Revoke
    <2>3. RowInv'
      BY <1>0, <2>2 DEF RowInv, IsMember, RowsOf, Left
    <2> QED
      BY <1>1, <2>1, <2>3
  <1> QED
    BY <1>2, <1>3, <1>4, <1>5, <1>6 DEF SigninStep

LEMMA NextKeepsAccess == AccessInv /\ [Next]_vars => AccessInv'
  <1> SUFFICES ASSUME AccessInv, [Next]_vars
               PROVE  AccessInv'
    OBVIOUS
  <1>0. TInv'
    BY NextTyped DEF AccessInv
  <1>1. ASSUME NEW s \in Sessions, SigninStep(s)
        PROVE  AccessInv'
    BY <1>0, <1>1, SigninKeepsAccess DEF AccessInv
  <1>2. ASSUME LifeInv', UNCHANGED <<auths, signinVars>>,
               \A v \in Works :
                  /\ work[v] # "absent" => work'[v] # "absent"
                  /\ work'[v] = "live" /\ work[v] # "absent" =>
                        /\ work[v] = "live"
                        /\ group[v] # 0 => group'[v] = group[v],
               \A m \in members : work'[m[2]] = "live" => m \in members'
        PROVE  AccessInv'
    <2> USE DEF AccessInv, TInv, TypeOK, LifeTypeOK, signinVars
    <2>1. \A s \in Sessions : pc[s] \in {"seen", "found"} => Pid(s) \in Works
      BY PidTyped DEF InHand
    <2>2. SeenInv'
      BY <1>2, <2>1 DEF SeenInv, Pid
    <2>3. \A r \in auths : r.work \in Works /\ r.user \in Users
      BY DEF Row
    <2>4. RowInv'
      BY <1>2, <2>3 DEF RowInv, IsMember
    <2> QED
      BY <1>0, <1>2, <2>2, <2>4
  <1>3. ASSUME NEW w \in Works, WorkStep(w)
        PROVE  AccessInv'
    BY <1>2, <1>3, LifeStepKeeps DEF AccessInv, TInv, TypeOK, WorkStep
  <1>4. ASSUME NEW w \in Works, DestroyCdlGroup(w)
        PROVE  AccessInv'
    <2>1. work[w] # "live" /\ UNCHANGED work
      BY <1>4 DEF DestroyCdlGroup, DestroyGroup, AccessInv, LifeInv
    <2>2. \A m \in members : work'[m[2]] = "live" => m \in members'
      BY <1>4, <2>1 DEF DestroyCdlGroup
    <2> QED
      BY <1>2, <1>4, <2>2, LifeStepKeeps
      DEF AccessInv, TInv, TypeOK, DestroyCdlGroup
  <1>5. CASE Tick \/ UNCHANGED vars
    <2>1. UNCHANGED <<lifeVars, auths, members, signinVars>>
      BY <1>5 DEF Tick, vars
    <2> QED
      BY <1>0, <2>1 DEF AccessInv, LifeInv, SeenInv, RowInv, IsMember, Pid,
                        lifeVars, signinVars
  <1> QED
    BY <1>1, <1>3, <1>4, <1>5 DEF Next

\* However sign-ins, group jobs and withdrawals interleave, a row for a live
\* work comes with membership in the work's group.
THEOREM RecordsGiveAccess == Spec => []RecordGivesAccess
  <1>1. Init => AccessInv
    BY InitTypeOK DEF Init, LifeInit, AccessInv, TInv, InHand, LifeInv, SeenInv,
                      RowInv
  <1>2. AccessInv => RecordGivesAccess
    BY DEF AccessInv, RowInv, RecordGivesAccess
  <1> QED
    BY <1>1, <1>2, NextKeepsAccess, PTL DEF Spec

-----------------------------------------------------------------------------
(* Borrowers whose sign-ins do not overlap *)

Alone ==
    \A s, t \in Sessions :
        user[s] \in Serial /\ user[s] = user[t] /\ pc[s] \in Active /\ pc[t] \in Active
            => s = t

\* Rows and the ids looked up are the user's own, and of the pid in hand.
OwnRows ==
    /\ \A r \in auths : r.user = user[r.by]
    /\ \A s \in Sessions :
          pc[s] = "found" =>
              \A id \in found[s] : id[2] = Pid(s) /\ user[id[1]] = user[s]

\* Later sign-ins have later times.
Times ==
    \A s \in Sessions :
        /\ since[s] <= clock
        /\ pc[s] = "idle" => next[s] = 1
        /\ \A t \in Sessions :
              /\ user[s] \in Serial /\ user[s] = user[t]
              /\ pc[s] = "done" /\ pc[t] \in Active
              => since[s] <= since[t]

\* What a sign-in knows of its user's rows stays true: the row that was looked
\* up, or that there is none; the loans it has given; what is left to revoke.
FoundRight(s) ==
    pc[s] = "found" =>
        /\ found[s] = {} => RowsOf(user[s], Pid(s)) = {}
        /\ found[s] # {} => \E r \in RowsOf(user[s], Pid(s)) : RowId(r) \in found[s]

GrantsFresh(s) ==
    pc[s] \in {"next", "seen", "found"} =>
        \A r \in auths : r.user = user[s] /\ r.work \in Granted(s) => r.expires = since[s] + Loan

ExpiredRight(s) ==
    pc[s] = "revoke" =>
        /\ Granted(s) \cap expired[s] = {}
        /\ \A r \in auths :
              r.user = user[s] =>
                  /\ r.work \in expired[s] => r.expires <= since[s]
                  /\ r.expires <= since[s] /\ work[r.work] = "live" => r.work \in expired[s]

Settled(s) ==
    pc[s] = "done" =>
        \A r \in auths : r.user = user[s] /\ r.expires <= since[s] => work[r.work] # "live"

Knows(s) ==
    user[s] \in Serial => FoundRight(s) /\ GrantsFresh(s) /\ ExpiredRight(s) /\ Settled(s)

BorrowInv ==
    /\ AccessInv
    /\ Alone /\ OwnRows /\ Times /\ OneRecord
    /\ \A s \in Sessions : Knows(s)

\* A sign-in changes nothing of another.
LEMMA OthersStay ==
    ASSUME NEW s \in Sessions, SigninStep(s), TypeOK
    PROVE  /\ UNCHANGED <<lifeVars, user, clock>>
           /\ \A t \in Sessions \ {s} :
                 /\ pc'[t] = pc[t] /\ since'[t] = since[t] /\ pids'[t] = pids[t]
                 /\ next'[t] = next[t] /\ seen'[t] = seen[t] /\ found'[t] = found[t]
                 /\ expired'[t] = expired[t]
                 /\ Pid(t)' = Pid(t) /\ Granted(t)' = Granted(t)
  <1>1. /\ UNCHANGED <<lifeVars, user, clock>>
        /\ \A t \in Sessions \ {s} :
                 /\ pc'[t] = pc[t] /\ since'[t] = since[t] /\ pids'[t] = pids[t]
                 /\ next'[t] = next[t] /\ seen'[t] = seen[t] /\ found'[t] = found[t]
                 /\ expired'[t] = expired[t]
    BY DEF SigninStep, TypeOK, Begin, LookUp, LookUpRaises, FindRow, Authorize, PluckExpired,
           Revoke, SignIn, Abort
  <1> QED
    BY <1>1 DEF Pid, Granted

\* Of the rows, Authorize changes those of one user and one work, which for such
\* a borrower leaves one row, with the new loan.
LEMMA AuthorizedRows ==
    ASSUME BorrowInv, NEW s \in Sessions, Authorize(s)
    PROVE  /\ \A r \in auths : (r.user = user[s] /\ r.work = Pid(s)) \/ r \in auths'
           /\ \A q \in auths' : (q.user = user[s] /\ q.work = Pid(s)) \/ q \in auths
           /\ \A r \in auths : \E q \in auths' : RowId(q) = RowId(r)
           /\ \A q \in auths' : q.user = user[q.by]
           /\ user[s] \in Serial =>
                 \E q \in auths' :
                    /\ q.user = user[s] /\ q.work = Pid(s) /\ q.expires = since[s] + Loan
                    /\ \A p \in auths' : p.user = user[s] /\ p.work = Pid(s) => p = q
  <1>1. /\ pc[s] = "found" /\ auths \subseteq Row /\ UNCHANGED user
        /\ \A id \in found[s] : id[2] = Pid(s) /\ user[id[1]] = user[s]
        /\ \A r \in auths : r.user = user[r.by]
    BY DEF BorrowInv, AccessInv, TInv, TypeOK, OwnRows, Authorize
  <1> DEFINE time == since[s] + Loan
             new == LoanRow(s, user[s], Pid(s), time)
  <1>2. CASE found[s] = {}
    <2>1. auths' = auths \cup {new}
      BY <1>2 DEF Authorize
    <2>2. new.by = s /\ new.user = user[s] /\ new.work = Pid(s) /\ new.expires = time
      BY DEF LoanRow
    <2>3. user[s] \in Serial => RowsOf(user[s], Pid(s)) = {}
      BY <1>1, <1>2 DEF BorrowInv, Knows, FoundRight
    <2> HIDE DEF new
    <2> QED
      BY <1>1, <2>1, <2>2, <2>3 DEF RowsOf
  <1>3. CASE found[s] # {}
    <2> DEFINE f(r) == IF RowId(r) \in found[s] THEN Renewed(r, time) ELSE r
    <2>1. auths' = {f(r) : r \in auths}
      BY <1>3 DEF Authorize
    <2>2. \A r \in auths :
             /\ f(r).by = r.by /\ f(r).user = r.user /\ f(r).work = r.work
             /\ RowId(f(r)) = RowId(r)
             /\ RowId(r) \in found[s] => f(r).expires = time
             /\ RowId(r) \notin found[s] => f(r) = r
      BY DEF Renewed, LoanRow, RowId
    <2>3. \A r \in auths : RowId(r) \in found[s] => r.user = user[s] /\ r.work = Pid(s)
      BY <1>1 DEF RowId
    <2>4. user[s] \in Serial =>
             \E r \in auths : r.user = user[s] /\ r.work = Pid(s) /\ RowId(r) \in found[s]
      BY <1>1, <1>3 DEF BorrowInv, Knows, FoundRight, RowsOf
    <2>5. \A r, p \in auths :
             r.user \in Serial /\ r.user = p.user /\ r.work = p.work => r = p
      BY DEF BorrowInv, OneRecord
    <2> HIDE DEF f, time
    <2>6. ASSUME user[s] \in Serial
          PROVE  \E q \in auths' :
                    /\ q.user = user[s] /\ q.work = Pid(s) /\ q.expires = time
                    /\ \A p \in auths' : p.user = user[s] /\ p.work = Pid(s) => p = q
      <3>1. PICK r \in auths : r.user = user[s] /\ r.work = Pid(s) /\ RowId(r) \in found[s]
        BY <2>4, <2>6
      <3>2. \A p \in auths' : p.user = user[s] /\ p.work = Pid(s) => p = f(r)
        BY <2>1, <2>2, <2>5, <2>6, <3>1
      <3> QED
        BY <2>1, <2>2, <3>1, <3>2
    <2> QED
      BY <1>1, <2>1, <2>2, <2>3, <2>6 DEF time
  <1> QED
    BY <1>2, <1>3

\* Rows come and go in sign-ins of their user; for such a borrower, what comes is
\* a new loan.
LEMMA RowsFrame ==
    ASSUME BorrowInv, NEW s \in Sessions, SigninStep(s)
    PROVE  /\ \A r \in auths : r.user = user[s] \/ r \in auths'
           /\ \A q \in auths' :
                 \/ q \in auths
                 \/ /\ q.user = user[s] /\ pc[s] = "found"
                    /\ user[s] \in Serial => q.expires = since[s] + Loan
           /\ pc[s] = "idle" => UNCHANGED auths
  <1>1. CASE Authorize(s)
    <2>1. pc[s] = "found"
      BY <1>1 DEF Authorize
    <2>2. \A r \in auths : r.user = user[s] \/ r \in auths'
      BY <1>1, AuthorizedRows
    <2>3. ASSUME NEW q \in auths', q \notin auths
          PROVE  q.user = user[s] /\ (user[s] \in Serial => q.expires = since[s] + Loan)
      BY <1>1, <2>3, AuthorizedRows
    <2> QED
      BY <2>1, <2>2, <2>3
  <1>2. CASE Revoke(s)
    BY <1>2 DEF Revoke, RowsOf
  <1>3. CASE ~Authorize(s) /\ ~Revoke(s)
    BY <1>3 DEF SigninStep, Begin, LookUp, LookUpRaises, FindRow, PluckExpired, SignIn, Abort
  <1> QED
    BY <1>1, <1>2, <1>3

\* What another sign-in knows stays true.
LEMMA OtherKnows ==
    ASSUME BorrowInv, NEW s \in Sessions, SigninStep(s), NEW t \in Sessions, t # s
    PROVE  Knows(t)'
  <1> SUFFICES ASSUME user[t] \in Serial
               PROVE  (FoundRight(t) /\ GrantsFresh(t) /\ ExpiredRight(t) /\ Settled(t))'
    BY OthersStay DEF Knows, BorrowInv, AccessInv, TInv
  <1>1. /\ TypeOK /\ UNCHANGED <<lifeVars, user, clock>>
        /\ pc'[t] = pc[t] /\ since'[t] = since[t]
        /\ found'[t] = found[t] /\ expired'[t] = expired[t]
        /\ Pid(t)' = Pid(t) /\ Granted(t)' = Granted(t)
    BY OthersStay DEF BorrowInv, AccessInv, TInv
  <1>2. FoundRight(t) /\ GrantsFresh(t) /\ ExpiredRight(t) /\ Settled(t)
    BY DEF BorrowInv, Knows
  <1>3. CASE pc[t] \in Active
    <2>1. /\ \A r \in auths : r.user = user[t] => r \in auths'
          /\ \A r \in auths' : r.user = user[t] => r \in auths
      <3>1. CASE pc[s] = "idle"
        BY <3>1, RowsFrame
      <3>2. CASE pc[s] # "idle"
        <4>1. pc[s] \in Active
          BY <3>2 DEF SigninStep, Begin, LookUp, LookUpRaises, FindRow, Authorize, PluckExpired,
                      Revoke, SignIn, Abort, Active
        <4>2. user[s] # user[t]
          BY <1>3, <4>1 DEF BorrowInv, Alone
        <4> QED
          BY <4>2, RowsFrame
      <3> QED
        BY <3>1, <3>2
    <2>2. (RowsOf(user[t], Pid(t)))' = RowsOf(user[t], Pid(t))
      BY <1>1, <2>1 DEF RowsOf
    <2>3. FoundRight(t)'
      BY <1>1, <1>2, <2>2 DEF FoundRight
    <2>4. GrantsFresh(t)' /\ ExpiredRight(t)' /\ Settled(t)'
      BY <1>1, <1>2, <2>1 DEF GrantsFresh, ExpiredRight, Settled, lifeVars
    <2> QED
      BY <2>3, <2>4
  <1>4. CASE pc[t] = "done"
    <2>1. ASSUME NEW q \in auths', q.user = user[t], q.expires <= since[t]
          PROVE  q \in auths
      <3> SUFFICES ASSUME q \notin auths PROVE FALSE
        OBVIOUS
      <3>1. user[s] = user[t] /\ pc[s] = "found" /\ q.expires = since[s] + Loan
        BY <2>1, RowsFrame
      <3>2. since[t] <= since[s]
        BY <1>4, <3>1 DEF BorrowInv, Times, Active
      <3>3. since[s] \in Nat /\ since[t] \in Nat
        BY <1>1 DEF TypeOK
      <3> QED
        BY <2>1, <3>1, <3>2, <3>3, LendingAssumption
    <2>2. Settled(t)'
      BY <1>1, <1>2, <2>1 DEF Settled, lifeVars
    <2> QED
      BY <1>1, <1>4, <2>2 DEF FoundRight, GrantsFresh, ExpiredRight
  <1>5. CASE pc[t] \notin Active \cup {"done"}
    BY <1>1, <1>5 DEF Active, FoundRight, GrantsFresh, ExpiredRight, Settled
  <1> QED
    BY <1>3, <1>4, <1>5

\* What a sign-in does fits what it knows.
LEMMA SelfKnows ==
    ASSUME BorrowInv, NEW s \in Sessions, SigninStep(s)
    PROVE  Knows(s)'
  <1>1. /\ TypeOK /\ UNCHANGED <<lifeVars, user, clock>>
    BY OthersStay DEF BorrowInv, AccessInv, TInv
  <1> SUFFICES ASSUME user[s] \in Serial
               PROVE  (FoundRight(s) /\ GrantsFresh(s) /\ ExpiredRight(s) /\ Settled(s))'
    BY <1>1 DEF Knows
  <1>2. /\ FoundRight(s) /\ GrantsFresh(s) /\ ExpiredRight(s) /\ Settled(s)
        /\ \A r \in auths : r \in Row /\ r.expires \in Nat
        /\ since[s] \in Nat /\ since[s] + Loan \in Nat /\ ~(since[s] + Loan <= since[s])
        /\ next[s] \in Nat \ {0}
    BY <1>1, LendingAssumption DEF BorrowInv, Knows, TypeOK, Row
  <1>3. CASE Begin(s)
    <2>1. next[s] = 1 /\ pc[s] = "idle"
      BY <1>3 DEF Begin, BorrowInv, Times
    <2>2. pc'[s] = "next" /\ next'[s] = 1
      BY <1>1, <1>3, <2>1 DEF Begin, TypeOK
    <2>3. Granted(s)' = {}
      BY <2>2 DEF Granted
    <2> QED
      BY <2>2, <2>3 DEF FoundRight, GrantsFresh, ExpiredRight, Settled
  <1>4. CASE LookUp(s) \/ FindRow(s)
    <2>1. /\ UNCHANGED <<auths, since, pids, next>> /\ pc[s] \in {"next", "seen"}
          /\ pc'[s] \in {"seen", "found"} /\ Granted(s)' = Granted(s) /\ Pid(s)' = Pid(s)
      BY <1>1, <1>4 DEF LookUp, FindRow, Granted, Pid, TypeOK
    <2>2. GrantsFresh(s)' /\ ExpiredRight(s)' /\ Settled(s)'
      BY <1>1, <1>2, <2>1 DEF GrantsFresh, ExpiredRight, Settled
    <2>3. FoundRight(s)'
      <3>1. CASE LookUp(s)
        BY <1>1, <3>1 DEF LookUp, FoundRight, TypeOK
      <3>2. CASE FindRow(s)
        <4>1. \/ RowsOf(user[s], Pid(s)) = {} /\ found'[s] = {}
              \/ \E r \in RowsOf(user[s], Pid(s)) : found'[s] = {RowId(r)}
          BY <1>1, <3>2 DEF FindRow, Existing, TypeOK
        <4>2. (RowsOf(user[s], Pid(s)))' = RowsOf(user[s], Pid(s))
          BY <1>1, <2>1 DEF RowsOf
        <4> QED
          BY <4>1, <4>2 DEF FoundRight
      <3> QED
        BY <1>4, <3>1, <3>2
    <2> QED
      BY <2>2, <2>3
  <1>5. CASE Authorize(s)
    <2>1. /\ pc[s] = "found" /\ pc'[s] = "next" /\ next'[s] = next[s] + 1
          /\ UNCHANGED <<since, pids>>
      BY <1>1, <1>5 DEF Authorize, TypeOK
    <2>2. Granted(s)' = Granted(s) \cup {Pid(s)}
      <3>1. Granted(s)' = {pids[s][i] : i \in 1..next[s]}
        BY <1>2, <2>1 DEF Granted
      <3>2. 1..next[s] = (1..(next[s] - 1)) \cup {next[s]}
        BY <1>2
      <3> QED
        BY <3>1, <3>2 DEF Granted, Pid
    <2>3. ASSUME NEW q \in auths', q.user = user[s], q.work \in Granted(s)'
          PROVE  q.expires = since[s] + Loan
      <3>1. CASE q.work = Pid(s)
        BY <1>5, <2>3, <3>1, AuthorizedRows
      <3>2. CASE q.work # Pid(s)
        <4>1. q \in auths
          BY <1>5, <3>2, AuthorizedRows
        <4> QED
          BY <1>2, <2>1, <2>2, <2>3, <3>2, <4>1 DEF GrantsFresh
      <3> QED
        BY <3>1, <3>2
    <2>4. GrantsFresh(s)'
      BY <1>1, <2>1, <2>3 DEF GrantsFresh
    <2> QED
      BY <2>1, <2>4 DEF FoundRight, ExpiredRight, Settled
  <1>6. CASE PluckExpired(s)
    <2>1. /\ pc[s] = "next" /\ pc'[s] = "revoke" /\ expired'[s] = ExpiredPids(s)
          /\ UNCHANGED <<auths, since, pids, next>> /\ Granted(s)' = Granted(s)
      BY <1>1, <1>6 DEF PluckExpired, TypeOK, Granted
    <2>2. \A w : w \in expired'[s] <=>
             \E r \in auths : r.user = user[s] /\ r.expires <= since[s] /\ r.work = w
      BY <2>1 DEF ExpiredPids, ExpiredRows, IsExpired
    <2>3. Granted(s) \cap expired'[s] = {}
      BY <1>2, <2>1, <2>2 DEF GrantsFresh
    <2>4. \A r \in auths :
             r.user = user[s] /\ r.work \in expired'[s] => r.expires <= since[s]
      BY <2>2 DEF BorrowInv, OneRecord
    <2>5. ExpiredRight(s)'
      BY <1>1, <2>1, <2>2, <2>3, <2>4 DEF ExpiredRight
    <2> QED
      BY <2>1, <2>5 DEF FoundRight, GrantsFresh, Settled
  <1>7. CASE Revoke(s)
    <2>1. /\ pc[s] = "revoke" /\ pc'[s] = "revoke"
          /\ UNCHANGED <<since, pids, next, work>> /\ Granted(s)' = Granted(s)
          /\ auths' \subseteq auths
      BY <1>1, <1>7 DEF Revoke, Granted, lifeVars
    <2>2. PICK w \in expired[s] :
             /\ expired'[s] = expired[s] \ {w}
             /\ work[w] = "live" => auths' = auths \ RowsOf(user[s], w)
      BY <1>1, <1>7 DEF Revoke, TypeOK
    <2>3. \A r \in auths' :
             r.user = user[s] /\ r.expires <= since[s] /\ work[r.work] = "live"
                => r.work \in expired'[s]
      BY <1>2, <2>1, <2>2 DEF ExpiredRight, RowsOf
    <2>4. ExpiredRight(s)'
      BY <1>1, <1>2, <2>1, <2>2, <2>3 DEF ExpiredRight
    <2> QED
      BY <2>1, <2>4 DEF FoundRight, GrantsFresh, Settled
  <1>8. CASE SignIn(s)
    <2>1. /\ pc[s] = "revoke" /\ expired[s] = {} /\ pc'[s] = "done"
          /\ UNCHANGED <<auths, since, work>>
      BY <1>1, <1>8 DEF SignIn, TypeOK, lifeVars
    <2>2. Settled(s)'
      BY <1>1, <1>2, <2>1 DEF ExpiredRight, Settled
    <2> QED
      BY <2>1, <2>2 DEF FoundRight, GrantsFresh, ExpiredRight
  <1>9. CASE LookUpRaises(s) \/ Abort(s)
    <2>1. pc'[s] \in {"raised", "aborted"}
      BY <1>1, <1>9 DEF LookUpRaises, Abort, TypeOK
    <2> QED
      BY <2>1 DEF FoundRight, GrantsFresh, ExpiredRight, Settled
  <1> QED
    BY <1>3, <1>4, <1>5, <1>6, <1>7, <1>8, <1>9 DEF SigninStep

LEMMA SigninKeepsBorrowers ==
    ASSUME BorrowInv, NEW s \in Sessions, SigninStep(s)
    PROVE  Alone' /\ OwnRows' /\ Times' /\ OneRecord'
  <1>0. TypeOK
    BY DEF BorrowInv, AccessInv, TInv
  <1>1. /\ TypeOK /\ UNCHANGED <<lifeVars, user, clock>>
        /\ clock \in Nat /\ \A t \in Sessions : since[t] \in Nat
        /\ \A t \in Sessions \ {s} :
              /\ pc'[t] = pc[t] /\ since'[t] = since[t] /\ next'[t] = next[t]
              /\ found'[t] = found[t] /\ Pid(t)' = Pid(t)
    <2>1. clock \in Nat /\ \A t \in Sessions : since[t] \in Nat
      BY <1>0, LendingAssumption DEF TypeOK
    <2> QED
      BY <1>0, <2>1, OthersStay
  <1>2. CASE Begin(s)
    <2>1. /\ pc[s] = "idle" /\ pc'[s] = "next" /\ since'[s] = clock
          /\ UNCHANGED <<auths, next, found>>
          /\ user[s] \in Overlapping
               \/ \A t \in Sessions : user[t] = user[s] => pc[t] \notin Active
      BY <1>1, <1>2 DEF Begin, TypeOK
    <2>2. Alone'
      BY <1>1, <2>1 DEF BorrowInv, Alone, Serial
    <2>3. OwnRows' /\ OneRecord'
      BY <1>1, <2>1 DEF BorrowInv, OwnRows, OneRecord
    <2>4. Times'
      BY <1>1, <2>1 DEF BorrowInv, Times
    <2> QED
      BY <2>2, <2>3, <2>4
  <1>3. CASE ~Begin(s)
    <2>1. /\ pc[s] \in Active /\ UNCHANGED since /\ pc'[s] # "idle"
          /\ pc'[s] \in Stages
      BY <1>1, <1>3 DEF SigninStep, LookUp, LookUpRaises, FindRow, Authorize, PluckExpired,
                        Revoke, SignIn, Abort, Active, TypeOK, Stages
    <2>2. Alone'
      BY <1>1, <2>1 DEF BorrowInv, Alone
    <2>3. Times'
      <3>1. \A t, i \in Sessions :
               /\ user[t] \in Serial /\ user[t] = user[i]
               /\ pc'[t] = "done" /\ pc'[i] \in Active
               => since[t] <= since[i]
        <4> SUFFICES ASSUME NEW t \in Sessions, NEW i \in Sessions,
                            user[t] \in Serial, user[t] = user[i],
                            pc'[t] = "done", pc'[i] \in Active
                     PROVE  since[t] <= since[i]
          OBVIOUS
        <4>1. CASE t = s
          <5>1. i # s /\ pc[i] \in Active
            BY <1>1, <4>1 DEF Active
          <5> QED
            BY <2>1, <4>1, <5>1 DEF BorrowInv, Alone
        <4>2. CASE t # s
          BY <1>1, <2>1, <4>2 DEF BorrowInv, Times
        <4> QED
          BY <4>1, <4>2
      <3> QED
        BY <1>1, <2>1, <3>1 DEF BorrowInv, Times
    <2>4. OwnRows' /\ OneRecord'
      <3>1. CASE Authorize(s)
        <4>1. pc'[s] = "next"
          BY <1>1, <3>1 DEF Authorize, TypeOK
        <4>2. OwnRows'
          BY <1>1, <3>1, <4>1, AuthorizedRows DEF BorrowInv, OwnRows
        <4>3. OneRecord'
          <5> SUFFICES ASSUME NEW p \in auths', NEW q \in auths',
                              p.user \in Serial, p.user = q.user, p.work = q.work
                       PROVE  p = q
            BY DEF OneRecord
          <5>1. CASE p.user = user[s] /\ p.work = Pid(s)
            BY <3>1, <5>1, AuthorizedRows
          <5>2. CASE ~(p.user = user[s] /\ p.work = Pid(s))
            <6>1. p \in auths /\ q \in auths
              BY <3>1, <5>2, AuthorizedRows
            <6> QED
              BY <6>1 DEF BorrowInv, OneRecord
          <5> QED
            BY <5>1, <5>2
        <4> QED
          BY <4>2, <4>3
      <3>2. CASE FindRow(s)
        <4>1. /\ UNCHANGED auths /\ Pid(s)' = Pid(s)
              /\ \A id \in found'[s] : \E r \in RowsOf(user[s], Pid(s)) : id = RowId(r)
          BY <1>1, <3>2 DEF FindRow, Existing, TypeOK, Pid
        <4>2. \A id \in found'[s] : id[2] = Pid(s) /\ user[id[1]] = user[s]
          BY <4>1 DEF RowsOf, RowId, BorrowInv, OwnRows
        <4> QED
          BY <1>1, <4>1, <4>2 DEF BorrowInv, OwnRows, OneRecord
      <3>3. CASE ~Authorize(s) /\ ~FindRow(s)
        <4>1. /\ auths' \subseteq auths /\ pc'[s] # "found"
          BY <1>1, <1>3, <3>3 DEF SigninStep, LookUp, LookUpRaises, PluckExpired, Revoke,
                                  SignIn, Abort, TypeOK
        <4> QED
          BY <1>1, <4>1 DEF BorrowInv, OwnRows, OneRecord
      <3> QED
        BY <3>1, <3>2, <3>3
    <2> QED
      BY <2>2, <2>3, <2>4
  <1> QED
    BY <1>2, <1>3

LEMMA NextKeepsBorrowers == BorrowInv /\ [Next]_vars => BorrowInv'
  <1> SUFFICES ASSUME BorrowInv, [Next]_vars
               PROVE  BorrowInv'
    OBVIOUS
  <1>0. AccessInv'
    BY NextKeepsAccess DEF BorrowInv
  <1>1. ASSUME NEW s \in Sessions, SigninStep(s)
        PROVE  BorrowInv'
    <2>1. \A t \in Sessions : Knows(t)'
      BY <1>1, SelfKnows, OtherKnows
    <2> QED
      BY <1>0, <1>1, <2>1, SigninKeepsBorrowers DEF BorrowInv
  <1>2. ASSUME UNCHANGED <<auths, signinVars>>,
               \A w \in Works : work[w] # "absent" /\ work'[w] = "live" => work[w] = "live",
               clock <= clock', clock' \in Nat
        PROVE  BorrowInv'
    <2>1. \A r \in auths : r.work \in Works /\ work[r.work] # "absent"
      BY DEF BorrowInv, AccessInv, RowInv, TInv, TypeOK, Row
    <2>2. clock \in Nat /\ \A s \in Sessions : since[s] \in Nat
      BY LendingAssumption DEF BorrowInv, AccessInv, TInv, TypeOK
    <2>3. Alone' /\ OwnRows' /\ Times' /\ OneRecord'
      BY <1>2, <2>2 DEF BorrowInv, Alone, OwnRows, Times, OneRecord, signinVars, Pid
    <2>4. \A s \in Sessions : Knows(s)'
      BY <1>2, <2>1 DEF BorrowInv, Knows, FoundRight, GrantsFresh, ExpiredRight, Settled,
                        signinVars, Pid, Granted, RowsOf
    <2> QED
      BY <1>0, <2>3, <2>4 DEF BorrowInv
  <1>3. clock \in Nat /\ LifeTypeOK /\ LifeInv
    BY LendingAssumption DEF BorrowInv, AccessInv, TInv, TypeOK
  <1>4. ASSUME NEW w \in Works, WorkStep(w) \/ DestroyCdlGroup(w)
        PROVE  BorrowInv'
    <2>1. UNCHANGED <<auths, signinVars, clock>>
      BY <1>4 DEF WorkStep, DestroyCdlGroup
    <2>2. \A v \in Works : work[v] # "absent" /\ work'[v] = "live" => work[v] = "live"
      BY <1>3, <1>4, LifeStepKeeps DEF WorkStep, DestroyCdlGroup
    <2> QED
      BY <1>2, <1>3, <2>1, <2>2
  <1>5. CASE Tick \/ UNCHANGED vars
    <2>1. UNCHANGED <<auths, signinVars, work>> /\ clock <= clock' /\ clock' \in Nat
      BY <1>3, <1>5 DEF Tick, vars, lifeVars
    <2> QED
      BY <1>2, <2>1
  <1> QED
    BY <1>1, <1>4, <1>5 DEF Next

LEMMA InitBorrowers == Init => BorrowInv
  <1> SUFFICES ASSUME Init PROVE BorrowInv
    OBVIOUS
  <1>1. AccessInv
    BY InitTypeOK DEF Init, LifeInit, AccessInv, TInv, InHand, LifeInv, SeenInv,
                      RowInv
  <1>2. /\ auths = {} /\ clock = 0
        /\ \A s \in Sessions : pc[s] = "idle" /\ next[s] = 1 /\ since[s] = 0
    BY DEF Init
  <1> QED
    BY <1>1, <1>2 DEF BorrowInv, Alone, OwnRows, Times, OneRecord, Active, Knows, FoundRight,
                      GrantsFresh, ExpiredRight, Settled

LEMMA BorrowersAlways == Spec => []BorrowInv
  BY InitBorrowers, NextKeepsBorrowers, PTL DEF Spec

\* A borrower whose sign-ins do not overlap has one row for a work, whoever else
\* signs in meanwhile: find_or_create_by! needs no index then.
THEOREM BorrowersHaveOneRecord == Spec => []OneRecord
  <1>1. BorrowInv => OneRecord
    BY DEF BorrowInv
  <1> QED
    BY <1>1, BorrowersAlways, PTL

\* Once such a borrower is signed in, none of the loans that had run out is left on
\* a live work, whatever scopes named and wherever earlier sign-ins stopped.
THEOREM SigninsSettle == Spec => []SigninSettles
  <1>1. BorrowInv => SigninSettles
    BY DEF BorrowInv, SigninSettles, Knows, Settled
  <1> QED
    BY <1>1, BorrowersAlways, PTL

\* What a sign-in has authorized is not in the query for what it revokes.
THEOREM FreshLoansAreKept == Spec => []FreshLoanKept
  <1>1. BorrowInv => FreshLoanKept
    BY DEF BorrowInv, FreshLoanKept, Knows, ExpiredRight
  <1> QED
    BY <1>1, BorrowersAlways, PTL

\* No step takes a loan from such a borrower before it runs out.
THEOREM OnlyExpiredIsRevoked == Spec => RevokesOnlyExpired
  <1> DEFINE Kept == \A r \in auths :
                        /\ r.user \in Serial
                        /\ ~\E q \in auths' : RowId(q) = RowId(r)
                        => r.expires <= clock
  <1>1. BorrowInv /\ [Next]_vars => [Kept]_vars
    <2> SUFFICES ASSUME BorrowInv, Next, NEW r \in auths, r.user \in Serial,
                        ~\E q \in auths' : RowId(q) = RowId(r)
                 PROVE  r.expires <= clock
      OBVIOUS
    <2>1. PICK s \in Sessions : SigninStep(s)
      <3>1. r \notin auths'
        OBVIOUS
      <3> QED
        BY <3>1 DEF Next, WorkStep, DestroyCdlGroup, Tick
    <2>2. Revoke(s)
      <3>1. ~Authorize(s)
        BY AuthorizedRows
      <3>2. r \notin auths'
        OBVIOUS
      <3> QED
        BY <2>1, <3>1, <3>2 DEF SigninStep, Begin, LookUp, LookUpRaises, FindRow, PluckExpired,
                                SignIn, Abort
    <2>3. r.user = user[s] /\ r.work \in expired[s] /\ pc[s] = "revoke"
      BY <2>2 DEF Revoke, RowsOf
    <2>4. r.expires <= since[s]
      BY <2>3 DEF BorrowInv, Knows, ExpiredRight
    <2>5. since[s] <= clock
      BY DEF BorrowInv, Times
    <2>6. r.expires \in Nat /\ since[s] \in Nat /\ clock \in Nat
      BY LendingAssumption DEF BorrowInv, AccessInv, TInv, TypeOK, Row
    <2> QED
      BY <2>4, <2>5, <2>6
  <1> QED
    BY <1>1, BorrowersAlways, PTL DEF Spec, RevokesOnlyExpired

-----------------------------------------------------------------------------
(* Access has a record *)

\* Nobody is a member of a group that is not born yet.
BornInv ==
    /\ \A w \in Works : group[w] <= born[w]
    /\ \A s \in Sessions : pc[s] \in {"seen", "found"} => seen[s] <= born[Pid(s)]
    /\ \A m \in members : m[3] <= born[m[2]]

RecordInv == BorrowInv /\ BornInv /\ AccessHasRecord

LEMMA LifeStepBears ==
    ASSUME LifeTypeOK, LifeInv, NEW w \in Works,
           \/ Deposit(w)
           \/ BuildStart(w)
           \/ BuildGroup(w)
           \/ BuildEnd(w)
           \/ Withdraw(w)
           \/ DestroyGroup(w),
           \A v \in Works : group[v] <= born[v]
    PROVE  \A v \in Works :
              /\ born[v] \in Nat /\ born'[v] \in Nat /\ born[v] <= born'[v]
              /\ group'[v] <= born'[v]
              /\ work'[v] = "live" =>
                    \/ group'[v] = 0
                    \/ work[v] = "live" /\ group'[v] = group[v]
                    \/ group'[v] = born[v] + 1
  <1> USE DEF LifeTypeOK, LifeInv
  <1>1. CASE Deposit(w)
    BY <1>1 DEF Deposit
  <1>2. CASE BuildStart(w) \/ BuildEnd(w)
    BY <1>2 DEF BuildStart, BuildEnd
  <1>3. CASE BuildGroup(w)
    BY <1>3 DEF BuildGroup
  <1>4. CASE Withdraw(w)
    BY <1>4 DEF Withdraw
  <1>5. CASE DestroyGroup(w)
    BY <1>5 DEF DestroyGroup
  <1> QED
    BY <1>1, <1>2, <1>3, <1>4, <1>5

LEMMA SigninKeepsRecords ==
    ASSUME RecordInv, NEW s \in Sessions, SigninStep(s)
    PROVE  BornInv' /\ AccessHasRecord'
  <1>1. /\ TypeOK /\ BorrowInv
        /\ UNCHANGED <<work, group, born, user>>
        /\ \A t \in Sessions \ {s} : pc'[t] = pc[t] /\ seen'[t] = seen[t] /\ Pid(t)' = Pid(t)
    <2>1. TypeOK
      BY DEF RecordInv, BorrowInv, AccessInv, TInv
    <2> QED
      BY <2>1, OthersStay DEF RecordInv, lifeVars
  <1>2. CASE LookUp(s)
    <2>1. /\ Pid(s) \in Works /\ seen'[s] = group[Pid(s)] /\ Pid(s)' = Pid(s)
          /\ UNCHANGED <<auths, members>>
      BY <1>1, <1>2, PidTyped DEF LookUp, TypeOK, Pid
    <2>2. seen'[s] <= born[Pid(s)]
      BY <2>1 DEF RecordInv, BornInv
    <2>3. BornInv'
      BY <1>1, <2>1, <2>2 DEF RecordInv, BornInv
    <2> QED
      BY <1>1, <2>1, <2>3 DEF RecordInv, AccessHasRecord, IsMember, RowsOf
  <1>3. CASE Authorize(s)
    <2>1. /\ pc[s] = "found" /\ pc'[s] = "next" /\ Pid(s) \in Works
          /\ members' = members \cup {<<user[s], Pid(s), seen[s]>>}
      BY <1>1, <1>3, PidTyped DEF Authorize, Joined, TypeOK, BorrowInv, AccessInv, TInv, InHand
    <2>2. BornInv'
      BY <1>1, <2>1 DEF RecordInv, BornInv
    <2>3. ASSUME NEW u \in Serial, NEW w \in Works, work[w] = "live", IsMember(u, w)'
          PROVE  (RowsOf(u, w))' # {}
      <3>1. CASE u = user[s] /\ w = Pid(s)
        BY <1>1, <1>3, <3>1, AuthorizedRows DEF RowsOf
      <3>2. CASE ~(u = user[s] /\ w = Pid(s))
        <4>1. IsMember(u, w)
          BY <1>1, <2>1, <2>3, <3>2 DEF IsMember
        <4>2. PICK r \in auths : r.user = u /\ r.work = w
          BY <2>3, <4>1 DEF RecordInv, AccessHasRecord, RowsOf
        <4>3. r \in auths'
          BY <1>1, <1>3, <3>2, <4>2, AuthorizedRows
        <4> QED
          BY <4>2, <4>3 DEF RowsOf
      <3> QED
        BY <3>1, <3>2
    <2> QED
      BY <1>1, <2>2, <2>3 DEF AccessHasRecord
  <1>4. CASE Revoke(s)
    <2>1. /\ UNCHANGED <<pc, pids, next, seen>> /\ members' \subseteq members
      BY <1>4 DEF Revoke, Left
    <2>2. BornInv'
      BY <1>1, <2>1 DEF RecordInv, BornInv, Pid
    <2>3. PICK w \in expired[s] :
             IF work[w] = "live"
             THEN /\ auths' = auths \ RowsOf(user[s], w)
                  /\ members' = Left(user[s], w)
             ELSE UNCHANGED <<auths, members>>
      BY <1>4 DEF Revoke
    <2>4. ASSUME NEW u \in Serial, NEW v \in Works, work[v] = "live", IsMember(u, v)'
          PROVE  (RowsOf(u, v))' # {}
      <3>1. IsMember(u, v)
        BY <1>1, <2>1, <2>4 DEF IsMember
      <3>2. PICK r \in auths : r.user = u /\ r.work = v
        BY <2>4, <3>1 DEF RecordInv, AccessHasRecord, RowsOf
      <3>3. r \in auths'
        BY <1>1, <2>3, <2>4, <3>2 DEF RowsOf, Left, IsMember
      <3> QED
        BY <3>2, <3>3 DEF RowsOf
    <2> QED
      BY <1>1, <2>2, <2>4 DEF AccessHasRecord
  <1>5. CASE ~LookUp(s) /\ ~Authorize(s) /\ ~Revoke(s)
    <2>1. /\ UNCHANGED <<auths, members, seen, next>>
          /\ pc'[s] \in {"seen", "found"} => pc[s] \in {"seen", "found"} /\ Pid(s)' = Pid(s)
      BY <1>1, <1>5 DEF SigninStep, Begin, LookUpRaises, FindRow, PluckExpired, SignIn, Abort,
                        TypeOK, Pid
    <2>2. BornInv'
      BY <1>1, <2>1 DEF RecordInv, BornInv
    <2> QED
      BY <1>1, <2>1, <2>2 DEF RecordInv, AccessHasRecord, IsMember, RowsOf
  <1> QED
    BY <1>2, <1>3, <1>4, <1>5

LEMMA NextKeepsRecords == RecordInv /\ [Next]_vars => RecordInv'
  <1> SUFFICES ASSUME RecordInv, [Next]_vars
               PROVE  RecordInv'
    OBVIOUS
  <1>0. BorrowInv' /\ TypeOK /\ LifeInv /\ LifeTypeOK
    BY NextKeepsBorrowers DEF RecordInv, BorrowInv, AccessInv, TInv, TypeOK
  <1>1. ASSUME NEW s \in Sessions, SigninStep(s)
        PROVE  RecordInv'
    BY <1>0, <1>1, SigninKeepsRecords DEF RecordInv
  <1>2. ASSUME NEW w \in Works, WorkStep(w) \/ DestroyCdlGroup(w)
        PROVE  RecordInv'
    <2>1. /\ UNCHANGED <<auths, signinVars>> /\ members' \subseteq members
          /\ \A v \in Works : group[v] <= born[v]
      BY <1>2 DEF WorkStep, DestroyCdlGroup, RecordInv, BornInv
    <2>2. \A v \in Works :
              /\ born[v] \in Nat /\ born'[v] \in Nat /\ born[v] <= born'[v]
              /\ group'[v] <= born'[v]
              /\ work'[v] = "live" =>
                    \/ group'[v] = 0
                    \/ work[v] = "live" /\ group'[v] = group[v]
                    \/ group'[v] = born[v] + 1
      BY <1>0, <1>2, <2>1, LifeStepBears DEF WorkStep, DestroyCdlGroup
    <2>3. \A s \in Sessions :
             /\ seen[s] \in Nat
             /\ pc[s] \in {"seen", "found"} => Pid(s) \in Works
      BY <1>0, PidTyped DEF RecordInv, BorrowInv, AccessInv, TInv, InHand, TypeOK
    <2>4. \A m \in members : m[2] \in Works /\ m[3] \in Nat /\ m[3] <= born[m[2]]
      BY <1>0 DEF TypeOK, RecordInv, BornInv
    <2>5. BornInv'
      <3>1. \A s \in Sessions :
               pc'[s] \in {"seen", "found"} => seen'[s] <= born'[Pid(s)']
        <4> SUFFICES ASSUME NEW s \in Sessions, pc'[s] \in {"seen", "found"}
                     PROVE  seen'[s] <= born'[Pid(s)']
          OBVIOUS
        <4>1. /\ Pid(s)' = Pid(s) /\ Pid(s) \in Works /\ seen'[s] = seen[s]
              /\ seen[s] <= born[Pid(s)] /\ seen[s] \in Nat
          BY <2>1, <2>3 DEF signinVars, Pid, RecordInv, BornInv
        <4> QED
          BY <2>2, <4>1
      <3>2. \A m \in members' : m[3] <= born'[m[2]]
        <4> SUFFICES ASSUME NEW m \in members' PROVE m[3] <= born'[m[2]]
          OBVIOUS
        <4>1. m[2] \in Works /\ m[3] \in Nat /\ m[3] <= born[m[2]]
          BY <2>1, <2>4
        <4> QED
          BY <2>2, <4>1
      <3> QED
        BY <2>2, <3>1, <3>2 DEF BornInv
    <2>6. ASSUME NEW u \in Serial, NEW v \in Works, work'[v] = "live", IsMember(u, v)'
          PROVE  (RowsOf(u, v))' # {}
      <3>1. /\ group'[v] # 0 /\ <<u, v, group'[v]>> \in members
        BY <2>1, <2>6 DEF IsMember
      <3>2. group'[v] <= born[v]
        BY <2>4, <3>1
      <3>3. work[v] = "live" /\ group'[v] = group[v]
        BY <2>2, <2>6, <3>1, <3>2
      <3>4. IsMember(u, v)
        BY <3>1, <3>3 DEF IsMember
      <3>5. RowsOf(u, v) # {}
        BY <3>3, <3>4 DEF RecordInv, AccessHasRecord
      <3> QED
        BY <2>1, <3>5 DEF RowsOf
    <2> QED
      BY <1>0, <2>5, <2>6 DEF RecordInv, AccessHasRecord
  <1>3. CASE Tick \/ UNCHANGED vars
    <2>1. UNCHANGED <<lifeVars, auths, members, signinVars>>
      BY <1>3 DEF Tick, vars
    <2> QED
      BY <1>0, <2>1 DEF RecordInv, BornInv, AccessHasRecord, IsMember, RowsOf, Pid, lifeVars,
                        signinVars
  <1> QED
    BY <1>1, <1>2, <1>3 DEF Next

\* Such a borrower has no access to a live work without a row that a later sign-in
\* finds and revokes, although the group may be made anew in between.
THEOREM AccessHasItsRecord == Spec => []AccessHasRecord
  <1>1. Init => RecordInv
    BY InitBorrowers DEF Init, LifeInit, RecordInv, BornInv, AccessHasRecord, IsMember
  <1>2. RecordInv => AccessHasRecord
    BY DEF RecordInv
  <1> QED
    BY <1>1, <1>2, NextKeepsRecords, PTL DEF Spec

=============================================================================
