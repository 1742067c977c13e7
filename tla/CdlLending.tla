----------------------------- MODULE CdlLending -----------------------------
(***************************************************************************)
(* Controlled Digital Lending: what a borrower's sign-in does to the       *)
(* work_authorizations table and to the memberships of the works' groups   *)
(* (WorkAuthorization.handle_signin_for!, authorize!, revoke!), any number *)
(* of sign-ins interleaved with each other, with the clock, and with the   *)
(* deposit and the withdrawal of works.                                    *)
(*                                                                         *)
(* A sign-in is a web request: between its queries other requests and jobs *)
(* run.  A database transaction is one step, except that the SELECT of     *)
(* find_or_create_by! is a step of its own: no unique index and no lock    *)
(* ties it to the INSERT or UPDATE that follows.                           *)
(***************************************************************************)
EXTENDS CdlGroupLife, Sequences

CONSTANTS
    Users,
    Overlapping,    \* users who may have two sign-ins in progress at once
    Sessions,       \* sign-in requests, each made once
    Scopes,         \* the lists of pids that OpenID scopes may name
    Loan,           \* the validity of an authorization (1.day)
    MaxTime         \* bound on the clock

ASSUME LendingAssumption ==
    /\ Overlapping \subseteq Users
    /\ Scopes \subseteq Seq(Works)
    /\ Loan \in Nat \ {0}
    /\ MaxTime \in Nat

VARIABLES
    auths,      \* rows of work_authorizations
    members,    \* <<user, work, incarnation>>: user holds role :member of it
    pc,         \* where each sign-in is
    user,       \* whose sign-in it is
    since,      \* the clock when handle_signin_for! was called
    pids,       \* the pids its scope names, in order
    next,       \* how far pids.each has come
    seen,       \* the group (incarnation) looked up for the current pid
    found,      \* the row id looked up for it: {} or a singleton
    expired,    \* pids left to revoke
    clock

signinVars == <<pc, user, since, pids, next, seen, found, expired>>
vars == <<lifeVars, auths, members, signinVars, clock>>

Row == [by : Sessions, user : Users, work : Works, expires : Nat]
LoanRow(s, u, w, t) == [by |-> s, user |-> u, work |-> w, expires |-> t]
RowId(r) == <<r.by, r.work>>
RowsOf(u, w) == {r \in auths : r.user = u /\ r.work = w}

Stages == {"idle", "next", "seen", "found", "revoke", "done", "raised",
           "aborted"}
Active == {"next", "seen", "found", "revoke"}

TypeOK ==
    /\ LifeTypeOK
    /\ auths \in SUBSET Row
    /\ members \in SUBSET (Users \X Works \X Nat)
    /\ pc \in [Sessions -> Stages]
    /\ user \in [Sessions -> Users]
    /\ since \in [Sessions -> Nat]
    /\ pids \in [Sessions -> Seq(Works)]
    /\ next \in [Sessions -> Nat \ {0}]
    /\ seen \in [Sessions -> Nat]
    /\ found \in [Sessions -> SUBSET (Sessions \X Works)]
    /\ expired \in [Sessions -> SUBSET Works]
    /\ clock \in 0..MaxTime

Init ==
    /\ LifeInit
    /\ auths = {}
    /\ members = {}
    /\ pc = [s \in Sessions |-> "idle"]
    /\ user \in [Sessions -> Users]
    /\ since = [s \in Sessions |-> 0]
    /\ pids = [s \in Sessions |-> <<>>]
    /\ next = [s \in Sessions |-> 1]
    /\ seen = [s \in Sessions |-> 0]
    /\ found = [s \in Sessions |-> {}]
    /\ expired = [s \in Sessions |-> {}]
    /\ clock = 0

-----------------------------------------------------------------------------
(* The sign-in request *)

\* from_omniauth found or saved the user; extract_pids_from read the scope.
Begin(s) ==
    /\ pc[s] = "idle"
    /\ \/ user[s] \in Overlapping
       \/ \A t \in Sessions : user[t] = user[s] => pc[t] \notin Active
    /\ \E scope \in Scopes : pids' = [pids EXCEPT ![s] = scope]
    /\ pc' = [pc EXCEPT ![s] = "next"]
    /\ since' = [since EXCEPT ![s] = clock]
    /\ UNCHANGED <<lifeVars, auths, members, user, next, seen, found, expired,
                   clock>>

\* The pid in hand, and those already authorized.
Pid(s) == pids[s][next[s]]
Granted(s) == {pids[s][i] : i \in 1..(next[s] - 1)}

CanAuthorize(w) == work[w] = "live" /\ group[w] # 0

\* The work and the group of the next pid are read; both are there.
LookUp(s) ==
    /\ pc[s] = "next" /\ next[s] <= Len(pids[s])
    /\ CanAuthorize(Pid(s))
    /\ seen' = [seen EXCEPT ![s] = group[Pid(s)]]
    /\ pc' = [pc EXCEPT ![s] = "seen"]
    /\ UNCHANGED <<lifeVars, auths, members, user, since, pids, next, found, expired,
                   clock>>

\* One of them is missing: WorkNotFoundError and GroupNotFoundError cannot be
\* constructed from nil, and the NoMethodError is not the error rescued.
LookUpRaises(s) ==
    /\ pc[s] = "next" /\ next[s] <= Len(pids[s])
    /\ ~CanAuthorize(Pid(s))
    /\ pc' = [pc EXCEPT ![s] = "raised"]
    /\ UNCHANGED <<lifeVars, auths, members, user, since, pids, next, seen, found,
                   expired, clock>>

\* The definitions marked "variant" are not used: each is a mistake that breaks
\* one of the properties below.
NoneExisting(u, w) == {}                                            \* variant
Existing(u, w) == RowsOf(u, w)

\* The SELECT of find_or_create_by!(user_id:, work_pid:).
FindRow(s) ==
    /\ pc[s] = "seen"
    /\ LET rows == Existing(user[s], Pid(s))
       IN  \/ rows = {} /\ found' = [found EXCEPT ![s] = {}]
           \/ \E r \in rows : found' = [found EXCEPT ![s] = {RowId(r)}]
    /\ pc' = [pc EXCEPT ![s] = "found"]
    /\ UNCHANGED <<lifeVars, auths, members, user, since, pids, next, seen, expired,
                   clock>>

Unrenewed(r, t) == r                                                \* variant
Renewed(r, t) == LoanRow(r.by, r.user, r.work, t)

NotJoined(s) == members                                             \* variant
Joined(s) == members \cup {<<user[s], Pid(s), seen[s]>>}

\* The rest of authorize!: insert the row, or update the one found (an UPDATE
\* by id: nothing happens if it was deleted meanwhile), then add the member to
\* the group object looked up before, whether or not it still exists.
Authorize(s) ==
    /\ pc[s] = "found"
    /\ auths' = IF found[s] = {}
                THEN auths \cup {LoanRow(s, user[s], Pid(s), since[s] + Loan)}
                ELSE {IF RowId(r) \in found[s]
                      THEN Renewed(r, since[s] + Loan)
                      ELSE r : r \in auths}
    /\ members' = Joined(s)
    /\ next' = [next EXCEPT ![s] = @ + 1]
    /\ pc' = [pc EXCEPT ![s] = "next"]
    /\ UNCHANGED <<lifeVars, user, since, pids, seen, found, expired, clock>>

ExpiredBefore(r, t) == r.expires < t                                \* variant
IsExpired(r, t) == r.expires <= t

ExpiredRows(s) == {r \in auths : r.user = user[s] /\ IsExpired(r, since[s])}
\* variant: every pid the scope did not name
UnnamedPids(s) == {w \in Works : RowsOf(user[s], w) # {}} \ Granted(s)
ExpiredPids(s) == {r.work : r \in ExpiredRows(s)}

\* where(user_id, expires_at <= revoke_expirations_before).pluck(:work_pid)
PluckExpired(s) ==
    /\ pc[s] = "next" /\ next[s] > Len(pids[s])
    /\ expired' = [expired EXCEPT ![s] = ExpiredPids(s)]
    /\ pc' = [pc EXCEPT ![s] = "revoke"]
    /\ UNCHANGED <<lifeVars, auths, members, user, since, pids, next, seen, found,
                   clock>>

NotLeft(u, w) == members                                            \* variant
Left(u, w) == members \ {<<u, w, group[w]>>}

\* revoke! of one pid, in the order the rows come: all rows of user and work go
\* and the member leaves the group, unless the work can no longer be found.
Revoke(s) ==
    /\ pc[s] = "revoke"
    /\ \E w \in expired[s] :
          /\ IF work[w] = "live"
             THEN /\ auths' = auths \ RowsOf(user[s], w)
                  /\ members' = Left(user[s], w)
             ELSE UNCHANGED <<auths, members>>
          /\ expired' = [expired EXCEPT ![s] = @ \ {w}]
    /\ UNCHANGED <<lifeVars, pc, user, since, pids, next, seen, found, clock>>

\* handle_signin_for! returns and the session is signed in.
SignIn(s) ==
    /\ pc[s] = "revoke" /\ expired[s] = {}
    /\ pc' = [pc EXCEPT ![s] = "done"]
    /\ UNCHANGED <<lifeVars, auths, members, user, since, pids, next, seen, found,
                   expired, clock>>

\* The request dies between two transactions (an error, a restart).
Abort(s) ==
    /\ pc[s] \in Active
    /\ pc' = [pc EXCEPT ![s] = "aborted"]
    /\ UNCHANGED <<lifeVars, auths, members, user, since, pids, next, seen, found,
                   expired, clock>>

-----------------------------------------------------------------------------
(* The rest of the system *)

\* DestroyCdlGroupJob: after_destroy of the group removes every member.
DestroyCdlGroup(w) ==
    /\ DestroyGroup(w)
    /\ members' = members \ {m \in members : m[2] = w /\ m[3] = group[w]}
    /\ UNCHANGED <<auths, signinVars, clock>>

WorkStep(w) ==
    /\ \/ Deposit(w)
       \/ BuildStart(w)
       \/ BuildGroup(w)
       \/ BuildEnd(w)
       \/ Withdraw(w)
    /\ UNCHANGED <<auths, members, signinVars, clock>>

Tick ==
    /\ clock < MaxTime
    /\ clock' = clock + 1
    /\ UNCHANGED <<lifeVars, auths, members, signinVars>>

SigninStep(s) ==
    \/ Begin(s)
    \/ LookUp(s)
    \/ LookUpRaises(s)
    \/ FindRow(s)
    \/ Authorize(s)
    \/ PluckExpired(s)
    \/ Revoke(s)
    \/ SignIn(s)
    \/ Abort(s)

Next ==
    \/ \E s \in Sessions : SigninStep(s)
    \/ \E w \in Works : WorkStep(w) \/ DestroyCdlGroup(w)
    \/ Tick

Spec == Init /\ [][Next]_vars

-----------------------------------------------------------------------------
(* Properties *)

Serial == Users \ Overlapping
IsMember(u, w) == group[w] # 0 /\ <<u, w, group[w]>> \in members

\* Whoever has a row for a work that is still there is a member of the group
\* that opens it, however sign-ins, group jobs and withdrawals interleave:
\* authorize! and revoke! change row and membership in one transaction.
RecordGivesAccess ==
    \A r \in auths : work[r.work] = "live" => IsMember(r.user, r.work)

\* A borrower whose sign-ins do not overlap has access to a live work only with
\* a row on record, which a later sign-in can find and revoke.
AccessHasRecord ==
    \A u \in Serial, w \in Works :
        work[w] = "live" /\ IsMember(u, w) => RowsOf(u, w) # {}

\* find_or_create_by! keeps one row per such borrower and work: an extra row
\* would keep an old expiry and take a renewed loan away.
OneRecord ==
    \A r1, r2 \in auths :
        r1.user \in Serial /\ r1.user = r2.user /\ r1.work = r2.work => r1 = r2

\* Once such a borrower is signed in, no loan that had run out when the sign-in
\* began is left on a live work (the loop over expired pids is complete).
SigninSettles ==
    \A s \in Sessions, r \in auths :
        /\ pc[s] = "done"
        /\ user[s] \in Serial
        /\ r.user = user[s]
        /\ r.expires <= since[s]
        => work[r.work] # "live"

\* What such a sign-in has just authorized is not among what it then revokes:
\* "We re-authorized the above pids, so it should not be in this query."
FreshLoanKept ==
    \A s \in Sessions :
        user[s] \in Serial /\ pc[s] = "revoke" => Granted(s) \cap expired[s] = {}

\* No step takes a row away from such a borrower before it has expired.
RevokesOnlyExpired ==
    [][\A r \in auths :
          /\ r.user \in Serial
          /\ ~\E q \in auths' : RowId(q) = RowId(r)
          => r.expires <= clock]_vars

-----------------------------------------------------------------------------
(* What comments say and the code does not do *)

\* User#hyrax_groups "looks up the Hyrax::Groups the user is a member of": every
\* membership is of a group that exists.
MembersOfExistingGroups == \A m \in members : m[3] = group[m[2]]

=============================================================================
