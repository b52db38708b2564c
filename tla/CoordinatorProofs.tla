-------------------------- MODULE CoordinatorProofs --------------------------
(***************************************************************************)
(* Proofs about Coordinator, for every number of contributors, devices,    *)
(* issues and leases, every policy and every bound.                        *)
(*                                                                         *)
(* The inductive invariant is IInv.  All of it follows one observation:    *)
(* exactly one action, Grant, makes a lease active, and it asks for a      *)
(* person without an active lease and a work without a lease; every other  *)
(* step lets a lease row only "evolve" (Evolves), keeping its device, its  *)
(* work and its generation, and clears the pointer of the work in the same *)
(* step in which it ends the lease (Pointers).                             *)
(*                                                                         *)
(* IInv has two parts, because Publication's steps keep only the first:    *)
(* CInv, kept by looser steps too (Follows, PointersStay), and Strict.     *)
(***************************************************************************)
EXTENDS Coordinator, TLAPS

\* Evidence under review is never on a lease that may still run, and what awaits
\* review has some.  An approval of it is of its commit.
RowOK(r) ==
  /\ r.reviewed => /\ r.state \notin {"none", "offered", "running"}
                   /\ r.approved \in {NoVersion, r.sha}
  /\ r.state = "awaiting_review" => r.reviewed
RowsOK == \A l \in Leases : RowOK(lease[l])

\* A lease row is settled exactly when it is under review or over.
SettledOK(r) == r.state # "none" => (r.settled <=> r.reviewed \/ r.state \notin Active)

\* An allocated lease has a device and a work.
Born ==
  \A l \in Leases : lease[l].state # "none" =>
    lease[l].device \in Devices /\ lease[l].work \in Works

\* A row that a release may still end: it was allocated, and was not submitted.
Endable(r) == r.state \notin {"none", "submitted"}

\* The lease a work points to is one of that work.
PointerKnown ==
  \A w \in Works : work[w].active # NoLease =>
    Endable(lease[work[w].active]) /\ lease[work[w].active].work = w

\* The converse of ActiveIsCurrent: it is an active one.
PointerIsLive ==
  \A w \in Works : work[w].active # NoLease => lease[work[w].active].state \in Active

\* What an open transaction still has to do concerns rows that can be ended.
TxnOK ==
  /\ txn.op = "poll" => txn.device \in Devices
  /\ txn.op = "sweep" /\ txn.device # NoDevice => txn.device \in Devices /\ txn.work \in Works
  /\ \A l \in txn.leases : Endable(lease[l])

Safe == RowsOK /\ Born /\ ActiveIsCurrent /\ PointerKnown /\ OneActivePerUser

\* What the handlers of this module keep, and those of pull request webhooks too.
CInv == TypeOK /\ TxnOK /\ Safe

\* What only the handlers of this module keep: a webhook about a pull request ends a
\* lease unsettled, and leaves its work pointing to it (see PublicationProofs).
Strict == (\A l \in Leases : SettledOK(lease[l])) /\ PointerIsLive

IInv == CInv /\ Strict
-----------------------------------------------------------------------------
(* Steps of one lease row *)

\* How any step but an allocation may change the row r of an allocated lease.
Follows(r, q) ==
  /\ q.device = r.device /\ q.work = r.work /\ q.generation = r.generation
  /\ q.kind = r.kind /\ q.base = r.base
  /\ q.state # "none"
  /\ q.state \in Active => r.state \in Active
  /\ r.state = "submitted" => q.state = "submitted"
  /\ RowOK(r) => /\ RowOK(q)
                 /\ r.reviewed => /\ q.reviewed /\ q.sha = r.sha /\ q.usage = r.usage
                                  /\ q.approved \in {r.approved, q.sha}

\* How the handlers of this module do: none of them submits, and all of them settle.
Evolves(r, q) ==
  /\ Follows(r, q)
  /\ q.state = "submitted" => r.state = "submitted"
  /\ RowOK(r) /\ SettledOK(r) => SettledOK(q)

Loose ==
  \A l \in Leases :
    lease'[l] = lease[l] \/ (lease[l].state # "none" /\ Follows(lease[l], lease'[l]))
Quiet ==
  \A l \in Leases :
    lease'[l] = lease[l] \/ (lease[l].state # "none" /\ Evolves(lease[l], lease'[l]))

\* A work's pointer stays, or is cleared when the lease ends.
PointersStay ==
  \A w \in Works :
    /\ work'[w].generation = work[w].generation
    /\ \/ work'[w].active = work[w].active
       \/ work'[w].active = NoLease /\ lease'[work[w].active].state \notin Active

\* A lease that ends leaves no pointer to it.
PointersFollow ==
  \A l \in Leases : lease[l].state \in Active /\ lease'[l].state \notin Active =>
    work'[lease[l].work].active # l

Pointers == PointersStay /\ PointersFollow

\* Zero is an age, a commit number and a recovery time, whatever the bounds.
LEMMA Zeros ==
  /\ 0 \in 0..MaxAge
  /\ NoVersion \in 0..MaxVersion /\ \A v \in Versions : v \in 0..MaxVersion
  /\ 0 \in 0..RecoveryWindow /\ RecoveryWindow \in 0..RecoveryWindow
BY BoundsAssumption DEF MaxAge, NoVersion, Versions

\* The states the actions assign are lease states.
LEMMA AssignedStates ==
  /\ Active \subseteq LeaseStates
  /\ {"running", "blocked", "awaiting_review", "dibbed", "publishing", "offered"} \subseteq Active
  /\ {"released", "reclaimed", "reassigned", "cancelled"} \subseteq LeaseStates
  /\ {"released", "reclaimed", "reassigned", "cancelled"} \cap Active = {}
BY DEF LeaseStates, Active

\* Commits of a lease's branch are commits.
LEMMA LeaseCommits == \A l \in Leases, v \in Versions : <<l, v>> \in Commits
BY DEF Commits
-----------------------------------------------------------------------------
(* What the two kinds of steps preserve *)

\* Steps in which rows only evolve preserve the invariants: those that every step keeps,
LEMMA LooseIsSafe ==
  ASSUME CInv, Loose, PointersStay,
         \A w \in Works : work'[w].active # NoLease =>
           lease'[work'[w].active].state # "submitted",
         lease' \in [Leases -> LeaseRows], work' \in [Works -> WorkRows]
  PROVE  Safe'
<1>1. RowsOK'
  BY DEF CInv, Safe, Loose, RowsOK, Follows
<1>2. Born'
  BY DEF CInv, Safe, Loose, Born, Follows
<1>3. \A l \in Leases : lease'[l].state \in Active =>
        /\ lease[l].state \in Active
        /\ lease'[l].device = lease[l].device
        /\ lease'[l].work = lease[l].work
        /\ lease'[l].generation = lease[l].generation
  BY DEF Loose, Follows
<1>4. ActiveIsCurrent'
  <2> SUFFICES ASSUME NEW l \in Leases, lease'[l].state \in Active
               PROVE  /\ work'[lease'[l].work].active = l
                      /\ work'[lease'[l].work].generation = lease'[l].generation
    BY DEF ActiveIsCurrent
  <2>1. lease[l].work \in Works
    BY <1>3 DEF CInv, Safe, Born, Active
  <2>2. work[lease[l].work].active = l /\ work[lease[l].work].generation = lease[l].generation
    BY <1>3 DEF CInv, Safe, ActiveIsCurrent
  <2> QED BY <1>3, <2>1, <2>2 DEF PointersStay
<1>5. PointerKnown'
  <2> SUFFICES ASSUME NEW w \in Works, work'[w].active # NoLease
               PROVE  /\ Endable(lease'[work'[w].active])
                      /\ lease'[work'[w].active].work = w
    BY DEF PointerKnown
  <2>1. work'[w].active = work[w].active
    BY DEF PointersStay
  <2>2. work[w].active \in Leases
    BY <2>1 DEF CInv, TypeOK, WorkRows
  <2>3. Endable(lease[work[w].active]) /\ lease[work[w].active].work = w
    BY <2>1 DEF CInv, Safe, PointerKnown
  <2> QED BY <2>1, <2>2, <2>3 DEF Loose, Follows, Endable
<1>6. OneActivePerUser'
  BY <1>3 DEF CInv, Safe, OneActivePerUser, Holder
<1> QED BY <1>1, <1>2, <1>4, <1>5, <1>6 DEF Safe

\* and those that only the handlers of Coordinator keep.
LEMMA QuietIsSafe ==
  ASSUME CInv, Quiet, Pointers,
         lease' \in [Leases -> LeaseRows], work' \in [Works -> WorkRows]
  PROVE  Safe' /\ (Strict => Strict')
<1>1. Loose
  BY DEF Quiet, Loose, Evolves
<1>2. \A w \in Works : work'[w].active # NoLease =>
        /\ work'[w].active = work[w].active /\ work[w].active \in Leases
        /\ Endable(lease[work[w].active]) /\ lease[work[w].active].work = w
  BY DEF CInv, TypeOK, WorkRows, Safe, PointerKnown, Pointers, PointersStay
<1>3. \A w \in Works : work'[w].active # NoLease => lease'[work'[w].active].state # "submitted"
  BY <1>2 DEF Quiet, Evolves, Endable
<1>5. Safe'
  BY <1>1, <1>3, LooseIsSafe DEF Pointers, PointersStay, PointersFollow
<1>6. ASSUME Strict PROVE Strict'
  <2>1. \A l \in Leases : SettledOK(lease'[l])
    BY <1>6 DEF Strict, Quiet, Evolves, CInv, Safe, RowsOK
  <2>2. \A w \in Works : work'[w].active # NoLease => lease'[work'[w].active].state \in Active
    BY <1>2, <1>6 DEF Strict, PointerIsLive, Pointers, PointersFollow
  <2> QED BY <2>1, <2>2 DEF Strict, PointerIsLive
<1> QED BY <1>5, <1>6

\* A step that moves no pointer, and in which no lease ends, preserves them.
LEMMA NoLeaseEnds ==
  ASSUME CInv, Quiet, lease' \in [Leases -> LeaseRows], work' \in [Works -> WorkRows],
         \A w \in Works : /\ work'[w].generation = work[w].generation
                          /\ work'[w].active = work[w].active,
         \A l \in Leases : lease[l].state \in Active => lease'[l].state \in Active
  PROVE  PointersStay /\ Safe' /\ (Strict => Strict')
<1>1. Pointers
  BY DEF Pointers, PointersStay, PointersFollow
<1> QED BY <1>1, QuietIsSafe DEF Pointers

\* So does a step that changes one row of an active lease, which stays active.
LEMMA OneRow ==
  ASSUME CInv, NEW l \in Leases, NEW q \in LeaseRows,
         lease' = [lease EXCEPT ![l] = q],
         lease[l].state \in Active, q.state \in Active, Evolves(lease[l], q),
         work' \in [Works -> WorkRows],
         \A w \in Works : /\ work'[w].generation = work[w].generation
                          /\ work'[w].active = work[w].active
  PROVE  lease' \in [Leases -> LeaseRows] /\ Quiet /\ PointersStay /\ Safe' /\ (Strict => Strict')
<1>1. lease' \in [Leases -> LeaseRows]
  BY DEF CInv, TypeOK
<1>2. \A k \in Leases : lease'[k] = IF k = l THEN q ELSE lease[k]
  BY DEF CInv, TypeOK
<1>3. Quiet
  BY <1>2 DEF Quiet, Active
<1>4. \A k \in Leases : lease[k].state \in Active => lease'[k].state \in Active
  BY <1>2
<1> QED BY <1>1, <1>3, <1>4, NoLeaseEnds

\* So does a step that changes neither leases nor works.
LEMMA NoRow ==
  ASSUME CInv, UNCHANGED <<lease, work>>
  PROVE  Quiet /\ PointersStay /\ Safe' /\ (Strict => Strict')
<1>1. Quiet
  BY DEF Quiet
<1> QED BY <1>1, NoLeaseEnds DEF CInv, TypeOK

\* A transaction that ends leaves nothing to do.
LEMMA ClosedTxn ==
  ASSUME txn' = Closed
  PROVE  txn' \in Transactions /\ TxnOK'
BY DEF Closed, Transactions, TxnOK
-----------------------------------------------------------------------------
(* Accounting and release *)

\* Settling any lease row keeps both token counters natural numbers.
LEMMA SettledType ==
  ASSUME TypeOK, NEW r \in LeaseRows
  PROVE  Settled(r) \in [reserved : Nat, spent : Nat]
<1>1. Observed(r.usage) \in Nat /\ r.reservation \in Nat
  BY DEF LeaseRows, UsageRows, Unknown, Observed
<1>2. Charge(r) \in Nat
  BY <1>1 DEF Charge, Greatest
<1>3. Greatest(0, ledger.reserved - r.reservation) \in Nat
  BY <1>1 DEF Greatest, TypeOK
<1> QED BY <1>2, <1>3 DEF Settled, TypeOK

\* Ending a lease row settles it and keeps what it was allocated for.
LEMMA EndedRow ==
  ASSUME NEW r \in LeaseRows, Endable(r),
         NEW terminal \in {"released", "reclaimed", "reassigned", "cancelled"}
  PROVE  LET q == [r EXCEPT !.state = terminal, !.settled = TRUE, !.age = 0] IN
         q \in LeaseRows /\ q.state = terminal /\ Evolves(r, q)
<1> DEFINE q == [r EXCEPT !.state = terminal, !.settled = TRUE, !.age = 0]
<1>0. terminal \in LeaseStates /\ terminal \notin Active /\ terminal # "none"
  BY DEF LeaseStates, Active
<1>1. q \in LeaseRows
  BY <1>0, Zeros DEF LeaseRows
<1>2. /\ q.device = r.device /\ q.work = r.work /\ q.generation = r.generation
      /\ q.kind = r.kind /\ q.base = r.base /\ q.approved = r.approved
      /\ q.state = terminal /\ q.settled = TRUE /\ q.reviewed = r.reviewed
      /\ q.sha = r.sha /\ q.usage = r.usage
  BY DEF LeaseRows
<1>3. Evolves(r, q)
  BY <1>0, <1>2 DEF Evolves, Follows, RowOK, SettledOK, Endable
<1> QED BY <1>1, <1>2, <1>3

\* EndLease writes well-typed rows, and only lease l changes.
LEMMA EndLeaseRows ==
  ASSUME TypeOK, NEW l \in Leases, Endable(lease[l]),
         NEW terminal \in {"released", "reclaimed", "reassigned", "cancelled"},
         EndLease(l, terminal)
  PROVE  /\ lease' \in [Leases -> LeaseRows]
         /\ ledger' \in [reserved : Nat, spent : Nat]
         /\ Quiet
         /\ \A k \in Leases : k # l => lease'[k] = lease[k]
         /\ lease'[l].state \notin Active
<1> DEFINE q == [lease[l] EXCEPT !.state = terminal, !.settled = TRUE, !.age = 0]
<1>1. lease[l] \in LeaseRows
  BY DEF TypeOK
<1>2. lease' = [lease EXCEPT ![l] = q]
  BY DEF EndLease, TypeOK
<1>3. q \in LeaseRows /\ q.state = terminal /\ Evolves(lease[l], q)
  BY <1>1, EndedRow
<1>4. ledger' \in [reserved : Nat, spent : Nat]
  BY <1>1, SettledType DEF EndLease
<1>5. lease' \in [Leases -> LeaseRows]
  BY <1>2, <1>3 DEF TypeOK
<1>6. \A k \in Leases : lease'[k] = IF k = l THEN q ELSE lease[k]
  BY <1>2 DEF TypeOK
<1>7. Quiet
  BY <1>3, <1>6 DEF Quiet, Endable
<1> QED BY <1>3, <1>4, <1>5, <1>6, <1>7, AssignedStates

\* Coordinator.release writes well-typed rows, and clears the pointer of the work
\* in the same step in which it ends the lease.
LEMMA ReleaseIsSafe ==
  ASSUME CInv, NEW l \in Leases, Endable(lease[l]),
         NEW terminal \in {"released", "reclaimed", "reassigned", "cancelled"},
         NEW requeue \in BOOLEAN, Release(l, terminal, requeue)
  PROVE  /\ lease' \in [Leases -> LeaseRows]
         /\ work' \in [Works -> WorkRows]
         /\ ledger' \in [reserved : Nat, spent : Nat]
         /\ submission' \in [Leases -> SubmissionRows]
         /\ Quiet /\ PointersStay /\ Safe' /\ (Strict => Strict')
<1> DEFINE w == lease[l].work
<1>0. TypeOK /\ w \in Works
  BY DEF CInv, Safe, Born, Endable
<1>1. EndLease(l, terminal)
  BY DEF Release
<1>2. /\ lease' \in [Leases -> LeaseRows]
      /\ ledger' \in [reserved : Nat, spent : Nat]
      /\ Quiet
      /\ \A k \in Leases : k # l => lease'[k] = lease[k]
      /\ lease'[l].state \notin Active
  BY <1>0, <1>1, EndLeaseRows
<1>3. /\ work' \in [Works -> WorkRows]
      /\ submission' \in [Leases -> SubmissionRows]
      /\ \A v \in Works : /\ work'[v].generation = work[v].generation
                          /\ \/ work'[v].active = work[v].active
                             \/ work'[v].active = NoLease /\ work[v].active = l
      /\ work'[w].active # l
  <2>1. CASE work[w].active # l
    BY <1>0, <2>1 DEF Release, TypeOK
  <2>2. CASE work[w].active = l
    <3> DEFINE row == [work[w] EXCEPT !.active = NoLease,
                                      !.state = StateAfterRelease(l, requeue)]
    <3>1. work' = [work EXCEPT ![w] = row]
      BY <1>0, <2>2 DEF Release, TypeOK
    <3>2. StateAfterRelease(l, requeue) \in WorkStates
      BY DEF StateAfterRelease, WorkStates, Allocatable
    <3>3. work[w] \in WorkRows
      BY <1>0 DEF TypeOK
    <3>4. row \in WorkRows /\ row.generation = work[w].generation /\ row.active = NoLease
      BY <3>2, <3>3 DEF WorkRows
    <3>5. work' \in [Works -> WorkRows]
      BY <1>0, <3>1, <3>4 DEF TypeOK
    <3>6. \A v \in Works : work'[v] = IF v = w THEN row ELSE work[v]
      BY <1>0, <3>1 DEF TypeOK
    <3>7. submission' \in [Leases -> SubmissionRows]
      <4>1. ReopenRound(l, requeue)
        BY <2>2 DEF Release
      <4>2. \A k \in Leases : [submission[k] EXCEPT !.state = "changes_requested", !.since = 0]
                                \in SubmissionRows
        <5>1. 0 \in 0..MaxAffinity /\ "changes_requested" \in SubmissionStates
          BY BoundsAssumption DEF SubmissionStates
        <5> QED BY <1>0, <5>1 DEF TypeOK, SubmissionRows
      <4>3. \A k \in Leases : [submission EXCEPT ![k].state = "changes_requested",
                                                 ![k].since = 0]
                                \in [Leases -> SubmissionRows]
        <5> TAKE k \in Leases
        <5> DEFINE reopened == [submission[k] EXCEPT !.state = "changes_requested", !.since = 0]
        <5>1. submission \in [Leases -> SubmissionRows]
          BY <1>0 DEF TypeOK
        <5>2. [submission EXCEPT ![k].state = "changes_requested", ![k].since = 0]
                = [submission EXCEPT ![k] = reopened]
          BY <5>1
        <5>3. [submission EXCEPT ![k] = reopened] \in [Leases -> SubmissionRows]
          BY <4>2, <5>1
        <5> QED BY <5>2, <5>3
      <4> QED BY <1>0, <4>1, <4>3 DEF ReopenRound, TypeOK, SubmissionsOf
    <3>8. NoLease # l
      BY DEF NoLease, Leases
    <3> HIDE DEF row
    <3>9. work'[w].active # l
      BY <1>0, <3>4, <3>6, <3>8
    <3>10. \A v \in Works : /\ work'[v].generation = work[v].generation
                            /\ \/ work'[v].active = work[v].active
                               \/ work'[v].active = NoLease /\ work[v].active = l
      BY <2>2, <3>4, <3>6
    <3> QED BY <3>5, <3>7, <3>9, <3>10
  <2> QED BY <2>1, <2>2
<1>4. Pointers
  <2>1. \A k \in Leases : lease[k].state \in Active /\ lease'[k].state \notin Active => k = l
    BY <1>2
  <2> QED BY <1>2, <1>3, <2>1 DEF Pointers, PointersStay, PointersFollow
<1> QED BY <1>2, <1>3, <1>4, QuietIsSafe DEF Pointers
-----------------------------------------------------------------------------
(* Allocation *)

\* The row of a lease that was not allocated yet is well typed.
LEMMA UnbornRow == UnbornLease \in LeaseRows
<1>1. NoUsage \in UsageRows
  BY DEF NoUsage, UsageRows
<1>2. NoCommit \in Commits
  BY DEF Commits
<1>3. 0 \in 0..LastPhase
  BY BoundsAssumption
<1>4. "none" \in LeaseStates
  BY DEF LeaseStates
<1> QED BY <1>1, <1>2, <1>3, <1>4, Zeros DEF UnbornLease, LeaseRows

\* A newly allocated lease row is well typed, is not settled and is not reviewed.
LEMMA NewLeaseRow ==
  ASSUME TypeOK, NEW d \in Devices, NEW w \in Works, NEW kind \in {"initial", "revision"},
         NEW base \in Commits, NEW feedback \in SUBSET Users
  PROVE  LET q == NewLease(d, w, kind, base, feedback) IN
         /\ q \in LeaseRows
         /\ q.state \in {"offered", "running"} /\ q.device = d /\ q.work = w
         /\ q.generation = work[w].generation + 1
         /\ RowOK(q) /\ SettledOK(q)
<1> DEFINE q == NewLease(d, w, kind, base, feedback)
           state == IF d \in Automatic THEN "running" ELSE "offered"
<1>1. Amount(d) \in Nat
  BY DevicesAssumption DEF Amount, Least, TypeOK, PolicyRows
<1>2. work[w].generation + 1 \in Nat
  BY DEF TypeOK, WorkRows
<1>3. state \in {"offered", "running"} /\ state \in LeaseStates /\ state \in Active
  BY DEF LeaseStates, Active
<1>5. UnbornLease \in LeaseRows
  BY UnbornRow
<1>6. q = [UnbornLease EXCEPT
             !.state = state, !.device = d, !.work = w,
             !.generation = work[w].generation + 1,
             !.reservation = Amount(d), !.kind = kind, !.base = base, !.feedback = feedback]
  BY DEF NewLease
<1> HIDE DEF state
<1>7. q \in LeaseRows
  <2>1. ASSUME NEW g \in Nat, NEW amount \in Nat
        PROVE  [UnbornLease EXCEPT
                  !.state = state, !.device = d, !.work = w, !.generation = g,
                  !.reservation = amount, !.kind = kind, !.base = base,
                  !.feedback = feedback] \in LeaseRows
    BY <1>3, <1>5 DEF LeaseRows
  <2> HIDE DEF q
  <2>2. PICK g \in Nat, amount \in Nat : g = work[w].generation + 1 /\ amount = Amount(d)
    BY <1>1, <1>2
  <2> QED BY <1>6, <2>1, <2>2
<1>8. /\ q.state = state /\ q.device = d /\ q.work = w
      /\ q.generation = work[w].generation + 1
      /\ q.settled = FALSE /\ q.reviewed = FALSE
  <2>1. UnbornLease.settled = FALSE /\ UnbornLease.reviewed = FALSE
    BY DEF UnbornLease
  <2> QED BY <1>5, <1>6, <2>1 DEF LeaseRows
<1>9. RowOK(q) /\ SettledOK(q)
  BY <1>3, <1>8 DEF RowOK, SettledOK
<1> QED BY <1>3, <1>7, <1>8, <1>9

\* What Grant writes, whichever of its two cases applies.
LEMMA GrantRows ==
  ASSUME CInv, NEW l \in Leases, NEW d \in Devices, NEW w \in Works, Grant(l, d, w)
  PROVE  /\ ledger' \in [reserved : Nat, spent : Nat]
         /\ submission' \in [Leases -> SubmissionRows]
         /\ \E q \in LeaseRows :
              /\ lease' = [lease EXCEPT ![l] = q]
              /\ q.state \in {"offered", "running"} /\ q.device = d /\ q.work = w
              /\ q.generation = work[w].generation + 1
              /\ RowOK(q) /\ SettledOK(q)
         /\ \E row \in WorkRows :
              /\ work' = [work EXCEPT ![w] = row]
              /\ row.active = l /\ row.generation = work[w].generation + 1
<1>0. TypeOK
  BY DEF CInv
<1>1. ledger' \in [reserved : Nat, spent : Nat]
  <2>1. Amount(d) \in Nat
    BY <1>0, DevicesAssumption DEF Amount, Least, TypeOK, PolicyRows
  <2>2. ledger \in [reserved : Nat, spent : Nat]
    BY <1>0 DEF TypeOK
  <2>3. ledger' = [ledger EXCEPT !.reserved = @ + Amount(d)]
    BY DEF Grant
  <2> HIDE DEF Amount
  <2> QED BY <2>1, <2>2, <2>3
<1>2. work[w] \in WorkRows /\ work[w].generation + 1 \in Nat /\ "in_progress" \in WorkStates
  BY <1>0 DEF TypeOK, WorkRows, WorkStates
<1>3. CASE work[w].state = "queued"
  <2> DEFINE q == NewLease(d, w, "initial", work[w].checkpoint, {})
             row == [work[w] EXCEPT !.active = l, !.state = "in_progress", !.generation = @ + 1]
  <2>1. lease' = [lease EXCEPT ![l] = q] /\ submission' = submission
    BY <1>3 DEF Grant
  <2>2. work' = [work EXCEPT ![w] = row]
    BY <1>0, <1>3 DEF Grant, TypeOK
  <2>3. row \in WorkRows /\ row.active = l /\ row.generation = work[w].generation + 1
    BY <1>2 DEF WorkRows
  <2>4. work[w].checkpoint \in Commits
    BY <1>2 DEF WorkRows
  <2>5. /\ q \in LeaseRows
        /\ q.state \in {"offered", "running"} /\ q.device = d /\ q.work = w
        /\ q.generation = work[w].generation + 1
        /\ RowOK(q) /\ SettledOK(q)
    BY <1>0, <2>4, NewLeaseRow
  <2> QED BY <1>0, <1>1, <2>1, <2>2, <2>3, <2>5 DEF TypeOK
<1>4. CASE work[w].state = "revision_requested"
  <2>1. PICK k \in SubmissionsOf(w) :
          /\ lease' = [lease EXCEPT ![l] =
               NewLease(d, w, "revision", submission[k].head,
                        UNION {lease[b].feedback : b \in Latest(w)})]
          /\ work' = [work EXCEPT ![w].active = l, ![w].state = "in_progress",
                                  ![w].generation = @ + 1,
                                  ![w].checkpoint = submission[k].head]
          /\ submission' = [submission EXCEPT ![k].state = "revising", ![k].since = 0]
    BY <1>4 DEF Grant
  <2> DEFINE inherited == UNION {lease[b].feedback : b \in Latest(w)}
             q == NewLease(d, w, "revision", submission[k].head, inherited)
             row == [work[w] EXCEPT !.active = l, !.state = "in_progress", !.generation = @ + 1,
                                    !.checkpoint = submission[k].head]
             revising == [submission[k] EXCEPT !.state = "revising", !.since = 0]
  <2>2. k \in Leases /\ submission[k] \in SubmissionRows
    BY <1>0 DEF SubmissionsOf, TypeOK
  <2>3. submission[k].head \in Commits
    BY <2>2 DEF SubmissionRows
  <2>4. inherited \in SUBSET Users
    BY <1>0 DEF Latest, LeasesOf, TypeOK, LeaseRows
  <2>5. /\ q \in LeaseRows
        /\ q.state \in {"offered", "running"} /\ q.device = d /\ q.work = w
        /\ q.generation = work[w].generation + 1
        /\ RowOK(q) /\ SettledOK(q)
    BY <1>0, <2>3, <2>4, NewLeaseRow
  <2>6. row \in WorkRows /\ row.active = l /\ row.generation = work[w].generation + 1
    BY <1>2, <2>3 DEF WorkRows
  <2>7. work' = [work EXCEPT ![w] = row]
    BY <1>0, <2>1 DEF TypeOK
  <2>8. revising \in SubmissionRows
    <3>1. "revising" \in SubmissionStates /\ 0 \in 0..MaxAffinity
      BY BoundsAssumption DEF SubmissionStates
    <3> QED BY <2>2, <3>1 DEF SubmissionRows
  <2>9. submission' = [submission EXCEPT ![k] = revising]
    BY <1>0, <2>1, <2>2 DEF TypeOK
  <2>10. submission' \in [Leases -> SubmissionRows]
    BY <1>0, <2>2, <2>8, <2>9 DEF TypeOK
  <2> QED BY <1>0, <1>1, <2>1, <2>5, <2>6, <2>7, <2>10
<1> QED BY <1>3, <1>4 DEF Grant

\* Coordinator.allocate preserves the invariants: the new lease is the only active
\* one of its holder, who had none, and of its work, which had none.
LEMMA AllocateIsSafe ==
  ASSUME CInv, NEW d \in Devices, NEW w \in Works, Allocate(d, w)
  PROVE  /\ lease' \in [Leases -> LeaseRows]
         /\ work' \in [Works -> WorkRows]
         /\ ledger' \in [reserved : Nat, spent : Nat]
         /\ submission' \in [Leases -> SubmissionRows]
         /\ Safe' /\ (Strict => Strict')
         /\ \A k \in Leases : lease[k].state # "none" => lease'[k] = lease[k]
         /\ \A k \in Leases : lease[k].state = "none" => ~lease[k].reviewed
<1>0. /\ TypeOK /\ work[w].active = NoLease
      /\ HeldBy(UserOf[d]) = {}
  BY DEF CInv, Allocate, CanAllocate
<1>1. PICK l \in Leases : lease[l].state = "none" /\ Grant(l, d, w)
  BY DEF Allocate, NextLease, Unborn
<1>2. PICK q \in LeaseRows :
        /\ lease' = [lease EXCEPT ![l] = q]
        /\ q.state \in {"offered", "running"} /\ q.device = d /\ q.work = w
        /\ q.generation = work[w].generation + 1
        /\ RowOK(q) /\ SettledOK(q)
  BY <1>1, GrantRows
<1>3. PICK row \in WorkRows :
        /\ work' = [work EXCEPT ![w] = row]
        /\ row.active = l /\ row.generation = work[w].generation + 1
  BY <1>1, GrantRows
<1>4. /\ ledger' \in [reserved : Nat, spent : Nat]
      /\ submission' \in [Leases -> SubmissionRows]
  BY <1>1, GrantRows
<1>5. \A k \in Leases : lease'[k] = IF k = l THEN q ELSE lease[k]
  BY <1>0, <1>2 DEF TypeOK
<1>6. \A v \in Works : work'[v] = IF v = w THEN row ELSE work[v]
  BY <1>0, <1>3 DEF TypeOK
<1>7. lease' \in [Leases -> LeaseRows] /\ work' \in [Works -> WorkRows]
  BY <1>0, <1>2, <1>3 DEF TypeOK
<1>8. RowsOK'
  BY <1>2, <1>5 DEF CInv, Safe, RowsOK
<1>9. Born'
  BY <1>2, <1>5 DEF CInv, Safe, Born
<1>10. \A k \in Leases : lease[k].state \in Active => lease[k].work # w
  <2> SUFFICES ASSUME NEW k \in Leases, lease[k].state \in Active, lease[k].work = w
               PROVE  FALSE
    OBVIOUS
  <2>1. work[w].active = k
    BY DEF CInv, Safe, ActiveIsCurrent
  <2> QED BY <1>0, <2>1 DEF NoLease, Leases
<1>11. ActiveIsCurrent'
  <2> SUFFICES ASSUME NEW k \in Leases, lease'[k].state \in Active
               PROVE  /\ work'[lease'[k].work].active = k
                      /\ work'[lease'[k].work].generation = lease'[k].generation
    BY DEF ActiveIsCurrent
  <2>1. CASE k = l
    BY <1>2, <1>3, <1>5, <1>6, <2>1
  <2>2. CASE k # l
    <3>1. lease'[k] = lease[k] /\ lease[k].work \in Works
      BY <1>5, <2>2 DEF CInv, Safe, Born, Active
    <3>2. work'[lease[k].work] = work[lease[k].work]
      BY <1>6, <1>10, <3>1
    <3> QED BY <3>1, <3>2 DEF CInv, Safe, ActiveIsCurrent
  <2> QED BY <2>1, <2>2
<1>12. PointerKnown' /\ (PointerIsLive => PointerIsLive')
  <2>1. ASSUME NEW v \in Works, work'[v].active # NoLease
        PROVE  /\ Endable(lease'[work'[v].active]) /\ lease'[work'[v].active].work = v
               /\ PointerIsLive => lease'[work'[v].active].state \in Active
    <3>1. CASE v = w
      BY <1>2, <1>3, <1>5, <1>6, <3>1, AssignedStates DEF Endable
    <3>2. CASE v # w
      <4>1. work'[v] = work[v]
        BY <1>6, <3>2
      <4>2. work[v].active \in Leases
        BY <1>0, <2>1, <4>1 DEF TypeOK, WorkRows
      <4>3. Endable(lease[work[v].active]) /\ lease[work[v].active].work = v
        BY <2>1, <4>1 DEF CInv, Safe, PointerKnown
      <4>4. lease'[work[v].active] = lease[work[v].active]
        BY <1>1, <1>5, <4>2, <4>3 DEF Endable
      <4> QED BY <2>1, <4>1, <4>3, <4>4 DEF PointerIsLive
    <3> QED BY <3>1, <3>2
  <2> QED BY <2>1 DEF PointerKnown, PointerIsLive
<1>13. OneActivePerUser'
  <2>1. \A k \in Leases : lease[k].state \in Active => UserOf[lease[k].device] # UserOf[d]
    BY <1>0 DEF HeldBy, Holder
  <2>2. \A k \in Leases : k # l => lease'[k] = lease[k]
    BY <1>5
  <2>3. lease'[l].device = d
    BY <1>2, <1>5
  <2> QED BY <2>1, <2>2, <2>3 DEF CInv, Safe, OneActivePerUser, Holder
<1>14. /\ \A k \in Leases : lease[k].state # "none" => lease'[k] = lease[k]
       /\ \A k \in Leases : lease[k].state = "none" => ~lease[k].reviewed
  BY <1>1, <1>5 DEF CInv, Safe, RowsOK, RowOK
<1>15. Strict => Strict'
  BY <1>2, <1>5, <1>12 DEF Strict
<1> QED BY <1>4, <1>7, <1>8, <1>9, <1>11, <1>12, <1>13, <1>14, <1>15 DEF Safe
-----------------------------------------------------------------------------
(* The steps of Next.  Each keeps every row typed and the invariants true. *)

\* What every step has to keep: types, invariants, and evidence under review.  Lease
\* rows only evolve, unless one is allocated.
Kept ==
  /\ TypeOK' /\ TxnOK' /\ Safe' /\ (Strict => Strict')
  /\ (Quiet /\ PointersStay) \/ \E d \in Devices, w \in Works : Allocate(d, w)
  /\ \A l \in Leases : lease[l].reviewed =>
       /\ lease'[l].reviewed
       /\ lease'[l].sha = lease[l].sha /\ lease'[l].usage = lease[l].usage

\* Rows that only evolve keep the evidence under review, and stay allocated.
LEMMA QuietKeepsEvidence ==
  ASSUME CInv, Quiet
  PROVE  /\ \A l \in Leases : lease[l].reviewed =>
              /\ lease'[l].reviewed
              /\ lease'[l].sha = lease[l].sha /\ lease'[l].usage = lease[l].usage
         /\ \A l \in Leases : Endable(lease[l]) => Endable(lease'[l])
BY DEF CInv, Safe, RowsOK, Quiet, Evolves, Follows, Endable

\* A step of one request, outside of any open transaction, that changes one active
\* lease's row and perhaps what its work shows.
LEMMA RowStep ==
  ASSUME CInv, txn = Closed, NEW l \in Leases, NEW q \in LeaseRows,
         lease' = [lease EXCEPT ![l] = q],
         lease[l].state \in Active, q.state \in Active, Evolves(lease[l], q),
         work' \in [Works -> WorkRows],
         \A w \in Works : /\ work'[w].generation = work[w].generation
                          /\ work'[w].active = work[w].active,
         ledger' \in [reserved : Nat, spent : Nat],
         job' \in [Leases -> [state : JobStates, sha : 0..MaxVersion]],
         UNCHANGED <<peopleVars, submission, txn>>
  PROVE  Kept
<1>1. lease' \in [Leases -> LeaseRows] /\ Quiet /\ PointersStay /\ Safe' /\ (Strict => Strict')
  BY OneRow
<1>2. txn' \in Transactions /\ TxnOK'
  BY ClosedTxn
<1>3. TypeOK'
  BY <1>1, <1>2 DEF CInv, TypeOK, peopleVars
<1> QED BY <1>1, <1>2, <1>3, QuietKeepsEvidence DEF Kept

\* Requests that change nothing but one lease's row.
LEMMA LeaseOnlyStep ==
  ASSUME CInv, txn = Closed, NEW l \in Leases, NEW q \in LeaseRows,
         lease' = [lease EXCEPT ![l] = q],
         lease[l].state \in Active, q.state \in Active, Evolves(lease[l], q),
         UNCHANGED <<peopleVars, work, ledger, submission, job, txn>>
  PROVE  Kept
BY RowStep DEF CInv, TypeOK

\* A heartbeat moves the phase.
LEMMA HeartbeatKeeps ==
  ASSUME CInv, NEW l \in Leases, NEW phase \in 0..LastPhase, Heartbeat(l, phase)
  PROVE  Kept
<1> DEFINE q == [lease[l] EXCEPT !.phase = phase, !.age = 0]
<1>1. /\ txn = Closed /\ lease[l].state = "running"
      /\ UNCHANGED <<peopleVars, work, ledger, submission, job, txn>>
  BY DEF Heartbeat, Reports, Fence
<1>2. lease[l] \in LeaseRows
  BY DEF CInv, TypeOK
<1>3. lease' = [lease EXCEPT ![l] = q]
  BY DEF Heartbeat, CInv, TypeOK
<1>4. q \in LeaseRows
  BY <1>2, Zeros DEF LeaseRows
<1>5. Evolves(lease[l], q) /\ q.state = "running"
  BY <1>1, <1>2 DEF LeaseRows, Evolves, Follows, RowOK, SettledOK
<1> QED BY <1>1, <1>3, <1>4, <1>5, AssignedStates, LeaseOnlyStep

\* A heartbeat that reports usage may block the lease.
LEMMA HeartbeatWithUsageKeeps ==
  ASSUME CInv, NEW l \in Leases, NEW phase \in 0..LastPhase, NEW usage \in Usages,
         HeartbeatWithUsage(l, phase, usage)
  PROVE  Kept
<1> DEFINE state == IF Observed(usage) >= lease[l].reservation THEN "blocked"
                                                             ELSE lease[l].state
           q == [lease[l] EXCEPT !.phase = phase, !.age = 0, !.usage = usage, !.state = state]
<1>1. /\ txn = Closed /\ lease[l].state = "running"
      /\ UNCHANGED <<peopleVars, work, ledger, submission, job, txn>>
  BY DEF HeartbeatWithUsage, Reports, Fence
<1>2. lease[l] \in LeaseRows
  BY DEF CInv, TypeOK
<1>3. lease' = [lease EXCEPT ![l] = q]
  BY DEF HeartbeatWithUsage, CInv, TypeOK
<1>4. state \in {"running", "blocked"} /\ state \in LeaseStates /\ state \in Active
  BY <1>1, AssignedStates
<1>5. usage \in UsageRows
  BY InputsAssumption
<1> HIDE DEF state
<1>6. q \in LeaseRows
  BY <1>2, <1>4, <1>5, Zeros DEF LeaseRows
<1>7. /\ q.device = lease[l].device /\ q.work = lease[l].work
      /\ q.generation = lease[l].generation
      /\ q.kind = lease[l].kind /\ q.base = lease[l].base /\ q.approved = lease[l].approved
      /\ q.state = state /\ q.settled = lease[l].settled /\ q.reviewed = lease[l].reviewed
  BY <1>2 DEF LeaseRows
<1>8. Evolves(lease[l], q)
  BY <1>1, <1>4, <1>7, AssignedStates DEF Evolves, Follows, RowOK, SettledOK
<1> QED BY <1>1, <1>3, <1>4, <1>6, <1>7, <1>8, AssignedStates, LeaseOnlyStep

\* A checkpoint moves the work's checkpoint and nothing else of the work.
LEMMA CheckpointKeeps ==
  ASSUME CInv, NEW l \in Leases, NEW v \in Versions, Checkpoint(l, v)
  PROVE  Kept
<1> DEFINE q == [lease[l] EXCEPT !.sha = v, !.age = 0]
           w == lease[l].work
           row == [work[w] EXCEPT !.checkpoint = <<l, v>>]
<1>1. /\ txn = Closed /\ lease[l].state = "running"
      /\ UNCHANGED <<peopleVars, ledger, submission, job, txn>>
  BY DEF Checkpoint, Fence
<1>2. lease[l] \in LeaseRows /\ w \in Works /\ work[w] \in WorkRows
  BY <1>1 DEF CInv, TypeOK, Safe, Born
<1>3. lease' = [lease EXCEPT ![l] = q] /\ work' = [work EXCEPT ![w] = row]
  BY DEF Checkpoint, CInv, TypeOK
<1>4. q \in LeaseRows
  BY <1>2, Zeros DEF LeaseRows
<1>5. Evolves(lease[l], q) /\ q.state = "running"
  BY <1>1, <1>2 DEF LeaseRows, Evolves, Follows, RowOK, SettledOK
<1>6. row \in WorkRows /\ row.active = work[w].active /\ row.generation = work[w].generation
  BY <1>2, LeaseCommits DEF WorkRows
<1>7. /\ work' \in [Works -> WorkRows]
      /\ \A x \in Works : /\ work'[x].generation = work[x].generation
                          /\ work'[x].active = work[x].active
  BY <1>2, <1>3, <1>6 DEF CInv, TypeOK
<1>8. /\ ledger' \in [reserved : Nat, spent : Nat]
      /\ job' \in [Leases -> [state : JobStates, sha : 0..MaxVersion]]
  BY <1>1 DEF CInv, TypeOK
<1> QED BY <1>1, <1>3, <1>4, <1>5, <1>7, <1>8, AssignedStates, RowStep

\* Completion settles the lease in the step that puts it under review.
LEMMA CompleteKeeps ==
  ASSUME CInv, NEW l \in Leases, NEW v \in Versions, NEW usage \in Usages,
         Complete(l, v, usage)
  PROVE  Kept
<1> DEFINE r == [lease[l] EXCEPT !.sha = v, !.usage = usage, !.reviewed = TRUE,
                   !.approved = NoVersion, !.maintainer = NoVersion,
                   !.state = "awaiting_review", !.age = 0]
           q == [r EXCEPT !.settled = TRUE]
           w == lease[l].work
           row == [work[w] EXCEPT !.checkpoint = <<l, v>>, !.state = "review"]
<1>1. /\ txn = Closed /\ lease[l].state = "running"
      /\ ledger' = Settled(r)
      /\ lease' = [lease EXCEPT ![l] = q]
      /\ UNCHANGED <<peopleVars, submission, job, txn>>
  BY DEF Complete, Fence
<1>2. lease[l] \in LeaseRows /\ w \in Works /\ work[w] \in WorkRows
  BY <1>1 DEF CInv, TypeOK, Safe, Born
<1>3. work' = [work EXCEPT ![w] = row]
  BY DEF Complete, CInv, TypeOK
<1>4. usage \in UsageRows /\ "awaiting_review" \in LeaseStates
  BY InputsAssumption DEF LeaseStates, Active
<1>5. r \in LeaseRows
  BY <1>2, <1>4, Zeros DEF LeaseRows
<1>6. q \in LeaseRows
  BY <1>5 DEF LeaseRows
<1>7. /\ q.device = lease[l].device /\ q.work = lease[l].work
      /\ q.generation = lease[l].generation
      /\ q.kind = lease[l].kind /\ q.base = lease[l].base /\ q.approved = NoVersion
      /\ q.state = "awaiting_review" /\ q.settled = TRUE /\ q.reviewed = TRUE
  BY <1>2 DEF LeaseRows
<1>8. Evolves(lease[l], q)
  BY <1>1, <1>7, AssignedStates DEF Evolves, Follows, RowOK, SettledOK
<1>9. row \in WorkRows /\ row.active = work[w].active /\ row.generation = work[w].generation
  <2>1. "review" \in WorkStates
    BY DEF WorkStates
  <2> QED BY <1>2, <2>1, LeaseCommits DEF WorkRows
<1>10. /\ work' \in [Works -> WorkRows]
       /\ \A x \in Works : /\ work'[x].generation = work[x].generation
                           /\ work'[x].active = work[x].active
  BY <1>2, <1>3, <1>9 DEF CInv, TypeOK
<1>11. /\ ledger' \in [reserved : Nat, spent : Nat]
       /\ job' \in [Leases -> [state : JobStates, sha : 0..MaxVersion]]
  BY <1>1, <1>5, SettledType DEF CInv, TypeOK
<1> QED BY <1>1, <1>6, <1>7, <1>8, <1>10, <1>11, AssignedStates, RowStep

\* A worker that reports it is blocked keeps its lease.
LEMMA BlockKeeps ==
  ASSUME CInv, NEW l \in Leases, Block(l)
  PROVE  Kept
<1> DEFINE q == [lease[l] EXCEPT !.state = "blocked", !.age = 0]
<1>1. /\ txn = Closed /\ lease[l].state = "running"
      /\ UNCHANGED <<peopleVars, work, ledger, submission, job, txn>>
  BY DEF Block, Fence
<1>2. lease[l] \in LeaseRows
  BY DEF CInv, TypeOK
<1>3. lease' = [lease EXCEPT ![l] = q]
  BY DEF Block, CInv, TypeOK
<1>4. q \in LeaseRows
  BY <1>2, Zeros, AssignedStates DEF LeaseRows
<1>5. Evolves(lease[l], q) /\ q.state = "blocked"
  BY <1>1, <1>2, AssignedStates DEF LeaseRows, Evolves, Follows, RowOK, SettledOK
<1> QED BY <1>1, <1>3, <1>4, <1>5, AssignedStates, LeaseOnlyStep

\* An accepted offer runs.
LEMMA AcceptKeeps ==
  ASSUME CInv, NEW l \in Leases, Accept(l)
  PROVE  Kept
<1> DEFINE q == [lease[l] EXCEPT !.state = "running", !.age = 0]
<1>1. /\ txn = Closed /\ lease[l].state = "offered"
      /\ UNCHANGED <<peopleVars, work, ledger, submission, job, txn>>
  BY DEF Accept
<1>2. lease[l] \in LeaseRows
  BY DEF CInv, TypeOK
<1>3. lease' = [lease EXCEPT ![l] = q]
  BY DEF Accept, CInv, TypeOK
<1>4. q \in LeaseRows
  BY <1>2, Zeros, AssignedStates DEF LeaseRows
<1>5. Evolves(lease[l], q) /\ q.state = "running"
  BY <1>1, <1>2, AssignedStates DEF LeaseRows, Evolves, Follows, RowOK, SettledOK
<1> QED BY <1>1, <1>3, <1>4, <1>5, AssignedStates, LeaseOnlyStep

\* A handover request keeps the lease with its holder.
LEMMA DibKeeps ==
  ASSUME CInv, NEW l \in Leases, NEW d \in Devices, Dib(l, d)
  PROVE  Kept
<1> DEFINE q == [lease[l] EXCEPT !.state = "dibbed", !.dibDevice = d, !.dibLeft = RecoveryWindow]
<1>1. /\ txn = Closed /\ lease[l].state \in Staleable
      /\ UNCHANGED <<peopleVars, work, ledger, submission, job, txn>>
  BY DEF Dib, Stale
<1>2. lease[l] \in LeaseRows /\ lease[l].state \in Active
  BY <1>1 DEF CInv, TypeOK, Staleable, Active
<1>3. lease' = [lease EXCEPT ![l] = q]
  BY DEF Dib, CInv, TypeOK
<1>4. q \in LeaseRows
  BY <1>2, Zeros, AssignedStates DEF LeaseRows
<1>5. /\ q.device = lease[l].device /\ q.work = lease[l].work
      /\ q.generation = lease[l].generation
      /\ q.kind = lease[l].kind /\ q.base = lease[l].base /\ q.approved = lease[l].approved
      /\ q.state = "dibbed" /\ q.settled = lease[l].settled /\ q.reviewed = lease[l].reviewed
      /\ q.sha = lease[l].sha /\ q.usage = lease[l].usage
  BY <1>2 DEF LeaseRows
<1>6. Evolves(lease[l], q)
  BY <1>2, <1>5, AssignedStates DEF Evolves, Follows, RowOK, SettledOK, Active
<1> QED BY <1>1, <1>2, <1>3, <1>4, <1>5, <1>6, AssignedStates, LeaseOnlyStep

\* A recovered lease goes back to review if its evidence is there, else it runs.
LEMMA RecoverKeeps ==
  ASSUME CInv, NEW l \in Leases, Recover(l)
  PROVE  Kept
<1> DEFINE state == IF lease[l].reviewed THEN "awaiting_review" ELSE "running"
           q == [lease[l] EXCEPT !.state = state, !.age = 0, !.dibDevice = NoDevice,
                                 !.dibLeft = 0]
<1>1. /\ txn = Closed /\ lease[l].state \in {"dibbed", "blocked"} \cup Staleable
      /\ UNCHANGED <<peopleVars, work, ledger, submission, job, txn>>
  BY DEF Recover, Stale
<1>2. lease[l] \in LeaseRows /\ lease[l].state \in Active
  BY <1>1 DEF CInv, TypeOK, Staleable, Active
<1>3. lease' = [lease EXCEPT ![l] = q]
  BY DEF Recover, CInv, TypeOK
<1>4. /\ state \in LeaseStates /\ state \in Active /\ state # "none"
      /\ lease[l].reviewed <=> state = "awaiting_review"
  BY DEF LeaseStates, Active
<1> HIDE DEF state
<1>5. q \in LeaseRows
  BY <1>2, <1>4, Zeros DEF LeaseRows
<1>6. /\ q.device = lease[l].device /\ q.work = lease[l].work
      /\ q.generation = lease[l].generation
      /\ q.kind = lease[l].kind /\ q.base = lease[l].base /\ q.approved = lease[l].approved
      /\ q.state = state /\ q.settled = lease[l].settled /\ q.reviewed = lease[l].reviewed
      /\ q.sha = lease[l].sha /\ q.usage = lease[l].usage
  BY <1>2 DEF LeaseRows
<1>7. lease[l].state # "none"
  BY <1>2 DEF Active
<1>8. Evolves(lease[l], q)
  BY <1>2, <1>4, <1>6, <1>7 DEF Evolves, Follows, RowOK, SettledOK, Active
<1> QED BY <1>1, <1>2, <1>3, <1>4, <1>5, <1>6, <1>8, LeaseOnlyStep

\* An approval is recorded; the last one starts the publication.
LEMMA ApproveKeeps ==
  ASSUME CInv, NEW u \in Users, NEW l \in Leases, NEW v \in Versions, Approve(u, l, v)
  PROVE  Kept
<1> DEFINE r == Approvals(u, l, v)
           w == lease[l].work
<1>1. /\ txn = Closed /\ lease[l].state = "awaiting_review"
      /\ UNCHANGED <<peopleVars, ledger, submission, txn>>
  BY DEF Approve
<1>2. lease[l] \in LeaseRows /\ w \in Works /\ work[w] \in WorkRows
  BY <1>1 DEF CInv, TypeOK, Safe, Born
<1>3. [lease[l] EXCEPT !.approved = v] \in LeaseRows
  BY <1>2, Zeros DEF LeaseRows
<1>4. [lease[l] EXCEPT !.maintainer = v] \in LeaseRows
  BY <1>2, Zeros DEF LeaseRows
<1>5. r \in LeaseRows
  BY <1>3, <1>4 DEF Approvals
<1>6. /\ r.device = lease[l].device /\ r.work = lease[l].work
      /\ r.generation = lease[l].generation
      /\ r.kind = lease[l].kind /\ r.base = lease[l].base
      /\ r.approved \in {lease[l].approved, v} /\ v = lease[l].sha
      /\ r.state = lease[l].state /\ r.settled = lease[l].settled
      /\ r.reviewed = lease[l].reviewed
      /\ r.sha = lease[l].sha /\ r.usage = lease[l].usage
  BY <1>2 DEF Approvals, LeaseRows, Approve
<1>7. CASE ~FullyApproved(r)
  <2>1. lease' = [lease EXCEPT ![l] = r] /\ UNCHANGED <<work, job>>
    BY <1>7 DEF Approve
  <2>2. Evolves(lease[l], r) /\ r.state \in Active
    BY <1>1, <1>6, AssignedStates DEF Evolves, Follows, RowOK, SettledOK
  <2> HIDE DEF r
  <2> QED BY <1>1, <1>5, <2>1, <2>2, AssignedStates, LeaseOnlyStep
<1>8. CASE FullyApproved(r)
  <2> DEFINE q == [r EXCEPT !.state = "publishing"]
             row == [work[w] EXCEPT !.state = "publishing"]
  <2>1. /\ lease' = [lease EXCEPT ![l] = q]
        /\ job' = IF job[l].state = "none"
                  THEN [job EXCEPT ![l] = [state |-> "pending", sha |-> v]] ELSE job
    BY <1>8 DEF Approve
  <2>2. work' = [work EXCEPT ![w] = row]
    BY <1>8 DEF Approve, CInv, TypeOK
  <2> HIDE DEF r
  <2>3. q \in LeaseRows
    BY <1>5, AssignedStates DEF LeaseRows
  <2>4. /\ q.device = r.device /\ q.work = r.work /\ q.generation = r.generation
        /\ q.kind = r.kind /\ q.base = r.base /\ q.approved = r.approved
        /\ q.state = "publishing" /\ q.settled = r.settled /\ q.reviewed = r.reviewed
        /\ q.sha = r.sha /\ q.usage = r.usage
    BY <1>5 DEF LeaseRows
  <2>5. Evolves(lease[l], q)
    BY <1>1, <1>6, <2>4, AssignedStates DEF Evolves, Follows, RowOK, SettledOK
  <2>6. row \in WorkRows /\ row.active = work[w].active /\ row.generation = work[w].generation
    <3>1. "publishing" \in WorkStates
      BY DEF WorkStates
    <3> QED BY <1>2, <3>1 DEF WorkRows
  <2>7. /\ work' \in [Works -> WorkRows]
        /\ \A x \in Works : /\ work'[x].generation = work[x].generation
                            /\ work'[x].active = work[x].active
    BY <1>2, <2>2, <2>6 DEF CInv, TypeOK
  <2>8. job' \in [Leases -> [state : JobStates, sha : 0..MaxVersion]]
    <3>1. [state |-> "pending", sha |-> v] \in [state : JobStates, sha : 0..MaxVersion]
      BY Zeros DEF JobStates
    <3> QED BY <2>1, <3>1 DEF CInv, TypeOK
  <2>9. ledger' \in [reserved : Nat, spent : Nat]
    BY <1>1 DEF CInv, TypeOK
  <2> QED BY <1>1, <2>1, <2>3, <2>4, <2>5, <2>7, <2>8, <2>9, AssignedStates, RowStep
<1> QED BY <1>7, <1>8

\* Pausing a device blocks its running lease, and only that.
LEMMA ToggleDeviceKeeps ==
  ASSUME CInv, NEW d \in Devices, NEW enabled \in BOOLEAN, ToggleDevice(d, enabled)
  PROVE  Kept
<1>1. /\ txn = Closed
      /\ UNCHANGED <<project, member, declined, work, ledger, submission, job, txn>>
  BY DEF ToggleDevice
<1>2. ASSUME NEW r \in LeaseRows, r.state = "running"
      PROVE  LET q == [r EXCEPT !.state = "blocked"] IN
             q \in LeaseRows /\ q.state = "blocked" /\ Evolves(r, q)
  <2> DEFINE q == [r EXCEPT !.state = "blocked"]
  <2>1. q \in LeaseRows
    BY AssignedStates DEF LeaseRows
  <2>2. q.state = "blocked" /\ Evolves(r, q)
    BY <1>2, AssignedStates DEF LeaseRows, Evolves, Follows, RowOK, SettledOK
  <2> QED BY <2>1, <2>2
<1>3. \A l \in Leases :
        /\ lease[l] \in LeaseRows
        /\ lease'[l] = IF ~enabled /\ lease[l].device = d /\ lease[l].state = "running"
                       THEN [lease[l] EXCEPT !.state = "blocked"] ELSE lease[l]
  BY DEF ToggleDevice, CInv, TypeOK
<1>4. \A l \in Leases :
        /\ lease'[l] \in LeaseRows
        /\ lease'[l] = lease[l] \/ (/\ lease[l].state = "running" /\ lease'[l].state = "blocked"
                                    /\ Evolves(lease[l], lease'[l]))
  BY <1>2, <1>3
<1>5. lease' \in [Leases -> LeaseRows]
  BY <1>4 DEF ToggleDevice
<1>6. Quiet
  BY <1>4 DEF Quiet
<1>7. \A l \in Leases : lease[l].state \in Active => lease'[l].state \in Active
  BY <1>4, AssignedStates
<1>8. PointersStay /\ Safe' /\ (Strict => Strict')
  BY <1>1, <1>5, <1>6, <1>7, NoLeaseEnds DEF CInv, TypeOK
<1>9. device' \in [Devices -> [enabled : BOOLEAN, token : {"none", "valid", "revoked"}]]
  BY DEF ToggleDevice, CInv, TypeOK
<1>10. txn' \in Transactions /\ TxnOK'
  BY <1>1, ClosedTxn
<1>11. TypeOK'
  BY <1>1, <1>5, <1>9, <1>10 DEF CInv, TypeOK
<1> QED BY <1>6, <1>8, <1>10, <1>11, QuietKeepsEvidence DEF Kept

\* The clock only ages rows.
LEMMA TickKeeps ==
  ASSUME CInv, Tick
  PROVE  Kept
<1>1. /\ txn = Closed
      /\ UNCHANGED <<peopleVars, work, ledger, job, txn>>
  BY DEF Tick
<1>2. ASSUME NEW r \in LeaseRows
      PROVE  Aged(r) \in LeaseRows /\ (Aged(r) = r \/ (r.state # "none" /\ Evolves(r, Aged(r))))
             /\ Aged(r).state = r.state
  <2> DEFINE age == Least(r.age + 1, MaxAge)
             left == IF r.state = "dibbed" THEN Greatest(0, r.dibLeft - 1) ELSE r.dibLeft
             q == [r EXCEPT !.age = age, !.dibLeft = left]
  <2>1. r.age \in 0..MaxAge /\ r.dibLeft \in 0..RecoveryWindow
    BY DEF LeaseRows
  <2>2. age \in 0..MaxAge
    BY <2>1, BoundsAssumption DEF Least, MaxAge
  <2>3. left \in 0..RecoveryWindow
    BY <2>1, BoundsAssumption DEF Greatest
  <2>4. Aged(r) = IF r.state \in Timed THEN q ELSE r
    BY DEF Aged
  <2> HIDE DEF age, left
  <2>5. q \in LeaseRows
    BY <2>2, <2>3 DEF LeaseRows
  <2>6. /\ q.device = r.device /\ q.work = r.work /\ q.generation = r.generation
        /\ q.kind = r.kind /\ q.base = r.base /\ q.approved = r.approved
        /\ q.state = r.state /\ q.settled = r.settled /\ q.reviewed = r.reviewed
        /\ q.sha = r.sha /\ q.usage = r.usage
    BY DEF LeaseRows
  <2>7. r.state \in Timed => r.state # "none"
    BY DEF Timed, Staleable
  <2>8. r.state \in Timed => Evolves(r, q)
    BY <2>6, <2>7 DEF Evolves, Follows, RowOK, SettledOK
  <2>9. CASE r.state \in Timed
    <3>1. Aged(r) = q
      BY <2>4, <2>9
    <3> QED BY <2>5, <2>6, <2>7, <2>8, <2>9, <3>1
  <2>10. CASE r.state \notin Timed
    BY <2>4, <2>10
  <2> QED BY <2>9, <2>10
<1>3. \A l \in Leases : lease[l] \in LeaseRows /\ lease'[l] = Aged(lease[l])
  BY DEF Tick, CInv, TypeOK
<1>4. lease' \in [Leases -> LeaseRows]
  BY <1>2, <1>3 DEF Tick
<1>5. Quiet /\ \A l \in Leases : lease[l].state \in Active => lease'[l].state \in Active
  BY <1>2, <1>3 DEF Quiet
<1>6. PointersStay /\ Safe' /\ (Strict => Strict')
  BY <1>1, <1>4, <1>5, NoLeaseEnds DEF CInv, TypeOK
<1>7. submission' \in [Leases -> SubmissionRows]
  <2>1. ASSUME NEW s \in SubmissionRows
        PROVE  [s EXCEPT !.since = Least(@ + 1, MaxAffinity)] \in SubmissionRows
    <3>1. Least(s.since + 1, MaxAffinity) \in 0..MaxAffinity
      BY BoundsAssumption DEF SubmissionRows, Least
    <3> QED BY <3>1 DEF SubmissionRows
  <2>2. \A k \in Leases : submission[k] \in SubmissionRows
    BY DEF CInv, TypeOK
  <2>3. submission' = [k \in Leases |->
          IF submission[k].state = "none" THEN submission[k]
          ELSE [submission[k] EXCEPT !.since = Least(@ + 1, MaxAffinity)]]
    BY DEF Tick
  <2> QED BY <2>1, <2>2, <2>3
<1>8. txn' \in Transactions /\ TxnOK'
  BY <1>1, ClosedTxn
<1>9. TypeOK'
  BY <1>1, <1>4, <1>7, <1>8 DEF CInv, TypeOK, peopleVars
<1> QED BY <1>5, <1>6, <1>8, <1>9, QuietKeepsEvidence DEF Kept
-----------------------------------------------------------------------------
(* Steps that end a lease *)

\* What a release leaves to its caller: who is declined, devices, members, and what
\* the transaction still has to do.
LEMMA ReleaseStep ==
  ASSUME CInv, NEW l \in Leases, Endable(lease[l]),
         NEW terminal \in {"released", "reclaimed", "reassigned", "cancelled"},
         NEW requeue \in BOOLEAN, Release(l, terminal, requeue),
         member' \in [Users -> MemberRows],
         device' \in [Devices -> [enabled : BOOLEAN, token : {"none", "valid", "revoked"}]],
         declined' \subseteq Users \X Works,
         txn' \in Transactions, Quiet => TxnOK',
         UNCHANGED <<project, job>>
  PROVE  Kept
<1>1. /\ lease' \in [Leases -> LeaseRows]
      /\ work' \in [Works -> WorkRows]
      /\ ledger' \in [reserved : Nat, spent : Nat]
      /\ submission' \in [Leases -> SubmissionRows]
      /\ Quiet /\ PointersStay /\ Safe' /\ (Strict => Strict')
  BY ReleaseIsSafe
<1>2. TypeOK'
  BY <1>1 DEF CInv, TypeOK
<1> QED BY <1>1, <1>2, QuietKeepsEvidence DEF Kept

\* The work of a released lease, declined for its holder, is a row of the table.
LEMMA DeclinedType ==
  ASSUME CInv, NEW l \in Leases, Endable(lease[l])
  PROVE  declined \cup {<<Holder(l), lease[l].work>>} \subseteq Users \X Works
<1>1. lease[l].device \in Devices /\ lease[l].work \in Works
  BY DEF CInv, Safe, Born, Endable
<1>2. Holder(l) \in Users
  BY <1>1, DevicesAssumption DEF Holder
<1> QED BY <1>1, <1>2 DEF CInv, TypeOK

\* The rest of a sweep or of a cancellation concerns allocated leases.
LEMMA RestOfTransaction ==
  ASSUME CInv, Quiet, NEW leases \in SUBSET txn.leases
  PROVE  /\ leases \in SUBSET Leases
         /\ \A k \in leases : Endable(lease'[k])
<1>1. leases \in SUBSET Leases
  BY DEF CInv, TypeOK, Transactions
<1>2. \A k \in leases : Endable(lease[k])
  BY DEF CInv, TxnOK
<1> QED BY <1>1, <1>2, QuietKeepsEvidence

\* The transaction record of a sweep is well typed.
LEMMA SweepingType ==
  ASSUME NEW leases \in SUBSET Leases
  PROVE  /\ Sweeping(leases) \in Transactions
         /\ Sweeping(leases).op = "sweep" /\ Sweeping(leases).device = NoDevice
         /\ Sweeping(leases).leases = leases
BY DEF Sweeping, Closed, Transactions

\* So is that of a cancellation.
LEMMA CancellingType ==
  ASSUME NEW leases \in SUBSET Leases
  PROVE  /\ Cancelling(leases) \in Transactions
         /\ Cancelling(leases).op \in {"closed", "cancel"}
         /\ Cancelling(leases).leases = leases
BY DEF Cancelling, Closed, Transactions

\* An expired offer is released and declined for its holder.
LEMMA SweepOfferKeeps ==
  ASSUME CInv, NEW l \in Leases, SweepOffer(l)
  PROVE  Kept
<1>1. /\ Endable(lease[l]) /\ Release(l, "released", TRUE)
      /\ declined' = declined \cup {<<Holder(l), lease[l].work>>}
      /\ txn' = Sweeping(txn.leases \ {l})
      /\ UNCHANGED <<project, member, device, job>>
  BY DEF SweepOffer, OfferExpired, Endable
<1>2. declined' \subseteq Users \X Works
  BY <1>1, DeclinedType
<1>3. txn.leases \ {l} \in SUBSET txn.leases /\ txn.leases \ {l} \in SUBSET Leases
  BY DEF CInv, TypeOK, Transactions
<1>4. txn' \in Transactions /\ txn'.op = "sweep" /\ txn'.device = NoDevice
      /\ txn'.leases = txn.leases \ {l}
  BY <1>1, <1>3, SweepingType
<1>5. Quiet => TxnOK'
  BY <1>3, <1>4, RestOfTransaction DEF TxnOK
<1> QED BY <1>1, <1>2, <1>4, <1>5, ReleaseStep DEF CInv, TypeOK

\* An expired recovery window reassigns the lease, and names the device to allocate to.
LEMMA SweepHandoverKeeps ==
  ASSUME CInv, NEW l \in Leases, SweepHandover(l)
  PROVE  Kept
<1> DEFINE rest == txn.leases \ {l}
<1>1. /\ Endable(lease[l]) /\ Release(l, "reassigned", TRUE)
      /\ txn' = [Sweeping(rest) EXCEPT !.device = lease[l].dibDevice, !.work = lease[l].work]
      /\ UNCHANGED <<peopleVars, job>>
  BY DEF SweepHandover, RecoveryExpired, Endable
<1>2. rest \in SUBSET txn.leases /\ rest \in SUBSET Leases
  BY DEF CInv, TypeOK, Transactions
<1>3. lease[l].dibDevice \in Devices \cup {NoDevice} /\ lease[l].work \in Works
  BY <1>1 DEF CInv, TypeOK, LeaseRows, Safe, Born, Endable
<1>4. /\ Sweeping(rest) \in Transactions
      /\ Sweeping(rest).op = "sweep" /\ Sweeping(rest).leases = rest
  BY <1>2, SweepingType
<1> HIDE DEF rest
<1>5. /\ txn' \in Transactions
      /\ txn'.op = "sweep" /\ txn'.leases = rest
      /\ txn'.device = lease[l].dibDevice /\ txn'.work = lease[l].work
  BY <1>1, <1>3, <1>4 DEF Transactions
<1>6. Quiet => TxnOK'
  BY <1>2, <1>3, <1>5, RestOfTransaction DEF TxnOK
<1> QED BY <1>1, <1>5, <1>6, ReleaseStep DEF CInv, TypeOK, peopleVars

\* One round of the loop that cancels every assigned lease of a project.
LEMMA CancelNextKeeps ==
  ASSUME CInv, NEW l \in Leases, CancelNext(l)
  PROVE  Kept
<1>1. /\ Endable(lease[l]) /\ Release(l, "cancelled", FALSE)
      /\ txn' = Cancelling(txn.leases \ {l})
      /\ UNCHANGED <<peopleVars, job>>
  BY DEF CancelNext, CInv, TxnOK
<1>2. txn.leases \ {l} \in SUBSET txn.leases /\ txn.leases \ {l} \in SUBSET Leases
  BY DEF CInv, TypeOK, Transactions
<1>3. /\ txn' \in Transactions /\ txn'.op \in {"closed", "cancel"}
      /\ txn'.leases = txn.leases \ {l}
  BY <1>1, <1>2, CancellingType
<1>4. Quiet => TxnOK'
  BY <1>2, <1>3, RestOfTransaction DEF TxnOK
<1> QED BY <1>1, <1>3, <1>4, ReleaseStep DEF CInv, TypeOK, peopleVars

\* A poll by another device of the holder reclaims an orphaned lease.
LEMMA PollReclaimsKeeps ==
  ASSUME CInv, NEW d \in Devices, PollReclaims(d)
  PROVE  Kept
<1>1. PICK l \in HeldBy(UserOf[d]) : Release(l, "reclaimed", TRUE)
  BY DEF PollReclaims
<1>2. l \in Leases /\ Endable(lease[l])
  BY <1>1 DEF HeldBy, Active, Endable
<1>3. txn' = [Closed EXCEPT !.op = "poll", !.device = d] /\ UNCHANGED <<peopleVars, job>>
  BY DEF PollReclaims
<1>4. /\ txn' \in Transactions /\ TxnOK'
  BY <1>3 DEF Closed, Transactions, TxnOK
<1> QED BY <1>1, <1>2, <1>3, <1>4, ReleaseStep DEF CInv, TypeOK, peopleVars

\* The holder gives the lease up.
LEMMA DenyKeeps ==
  ASSUME CInv, NEW l \in Leases, Deny(l)
  PROVE  Kept
<1>1. /\ Endable(lease[l]) /\ Release(l, "released", TRUE)
      /\ declined' = declined \cup {<<Holder(l), lease[l].work>>}
      /\ txn' = Closed
      /\ UNCHANGED <<project, member, device, job>>
  BY DEF Deny, Active, Endable
<1>2. declined' \subseteq Users \X Works
  BY <1>1, DeclinedType
<1> QED BY <1>1, <1>2, ClosedTxn, ReleaseStep DEF CInv, TypeOK

\* Revoking a device cancels the lease it holds.
LEMMA RevokeDeviceKeeps ==
  ASSUME CInv, NEW d \in Devices, RevokeDevice(d)
  PROVE  Kept
<1>1. /\ txn' = Closed
      /\ UNCHANGED <<project, member, declined, job>>
      /\ device' = [device EXCEPT ![d] = [enabled |-> FALSE, token |-> "revoked"]]
  BY DEF RevokeDevice
<1>2. device' \in [Devices -> [enabled : BOOLEAN, token : {"none", "valid", "revoked"}]]
  BY <1>1 DEF CInv, TypeOK
<1>3. CASE UNCHANGED <<work, lease, ledger, submission>>
  <2>1. TypeOK'
    BY <1>1, <1>2, <1>3, ClosedTxn DEF CInv, TypeOK
  <2> QED BY <1>1, <1>3, <2>1, ClosedTxn, NoRow, QuietKeepsEvidence DEF Kept
<1>4. CASE \E l \in Leases : lease[l].state \in Active /\ Release(l, "cancelled", TRUE)
  <2>1. PICK l \in Leases : Endable(lease[l]) /\ Release(l, "cancelled", TRUE)
    BY <1>4 DEF Active, Endable
  <2> QED BY <1>1, <1>2, <2>1, ClosedTxn, ReleaseStep DEF CInv, TypeOK
<1> QED BY <1>3, <1>4 DEF RevokeDevice

\* Changing a member cancels the lease the member may no longer hold.
LEMMA UpdateMemberKeeps ==
  ASSUME CInv, NEW a \in Users, NEW u \in Users, NEW setting \in MemberSettings,
         UpdateMember(a, u, setting)
  PROVE  Kept
<1> DEFINE row == [role |-> setting.role, verified |-> setting.verified,
                   watching |-> member[u].role = "none" \/ member[u].watching]
<1>1. /\ txn' = Closed
      /\ UNCHANGED <<project, device, declined, job>>
      /\ member' = [member EXCEPT ![u] = row]
  BY DEF UpdateMember
<1>2. member' \in [Users -> MemberRows]
  <2>1. setting \in [role : Roles \cup {"suspended"}, verified : BOOLEAN]
    BY InputsAssumption
  <2>2. setting.role \in MemberRoles /\ setting.verified \in BOOLEAN
    BY <2>1 DEF MemberRoles
  <2>3. member \in [Users -> MemberRows]
    BY DEF CInv, TypeOK
  <2>4. member[u].watching \in BOOLEAN
    BY <2>3 DEF MemberRows
  <2>5. row \in MemberRows
    BY <2>2, <2>4 DEF MemberRows
  <2> QED BY <1>1, <2>3, <2>5
<1>3. CASE UNCHANGED <<work, lease, ledger, submission>>
  <2>1. TypeOK'
    BY <1>1, <1>2, <1>3, ClosedTxn DEF CInv, TypeOK
  <2> QED BY <1>1, <1>3, <2>1, ClosedTxn, NoRow, QuietKeepsEvidence DEF Kept
<1>4. CASE \E l \in HeldBy(u) : Release(l, "cancelled", TRUE)
  <2>1. PICK l \in Leases : Endable(lease[l]) /\ Release(l, "cancelled", TRUE)
    BY <1>4 DEF HeldBy, Active, Endable
  <2> QED BY <1>1, <1>2, <2>1, ClosedTxn, ReleaseStep DEF CInv, TypeOK
<1> QED BY <1>3, <1>4 DEF UpdateMember

\* An issue event changes the work's row and may end its lease.
LEMMA IngestKeeps ==
  ASSUME CInv, NEW w \in Works, NEW e \in IssueEvents, Ingest(w, e)
  PROVE  Kept
<1> DEFINE l == work[w].active
           cancels == l # NoLease /\ (e.changed \/ Withdrawn(e))
           row == [work[w] EXCEPT !.state = IngestedState(@, e), !.labels = e.labels,
                                  !.active = IF cancels THEN NoLease ELSE @]
<1>1. /\ txn' = Closed
      /\ UNCHANGED <<peopleVars, submission, job>>
  BY DEF Ingest
<1>2. work[w] \in WorkRows /\ TypeOK
  BY DEF CInv, TypeOK
<1>3. work' = [work EXCEPT ![w] = row]
  BY <1>2 DEF Ingest, TypeOK
<1>4. IngestedState(work[w].state, e) \in WorkStates
  BY <1>2 DEF IngestedState, WorkStates, Allocatable, WorkRows
<1>5. e.labels \in SUBSET Labels
  BY InputsAssumption DEF EventRows
<1>6. (IF cancels THEN NoLease ELSE work[w].active) \in Leases \cup {NoLease}
  BY <1>2 DEF WorkRows
<1>7. /\ row \in WorkRows /\ row.generation = work[w].generation
      /\ row.active = IF cancels THEN NoLease ELSE work[w].active
  <2> HIDE DEF cancels
  <2> QED BY <1>2, <1>4, <1>5, <1>6 DEF WorkRows
<1> HIDE DEF row
<1>8. /\ work' \in [Works -> WorkRows]
      /\ \A v \in Works : work'[v] = IF v = w THEN row ELSE work[v]
  BY <1>2, <1>3, <1>7 DEF TypeOK
<1>9. CASE cancels
  <2>1. l \in Leases /\ Endable(lease[l]) /\ lease[l].work = w
    BY <1>2, <1>9 DEF WorkRows, CInv, Safe, PointerKnown, NoLease
  <2>2. EndLease(l, "cancelled")
    BY <1>9 DEF Ingest
  <2>3. /\ lease' \in [Leases -> LeaseRows]
        /\ ledger' \in [reserved : Nat, spent : Nat]
        /\ Quiet
        /\ \A k \in Leases : k # l => lease'[k] = lease[k]
        /\ lease'[l].state \notin Active
    BY <1>2, <2>1, <2>2, EndLeaseRows
  <2>4. row.active = NoLease
    BY <1>7, <1>9
  <2>5. Pointers
    <3> HIDE DEF l, cancels
    <3>0. l = work[w].active
      BY DEF l
    <3>1. \A v \in Works :
            /\ work'[v].generation = work[v].generation
            /\ \/ work'[v].active = work[v].active
               \/ work'[v].active = NoLease /\ lease'[work[v].active].state \notin Active
      BY <1>7, <1>8, <2>3, <2>4, <3>0
    <3>2. NoLease # l
      BY <2>1 DEF NoLease, Leases
    <3>3. \A k \in Leases : lease[k].state \in Active /\ lease'[k].state \notin Active =>
            work'[lease[k].work].active # k
      BY <1>8, <2>1, <2>3, <2>4, <3>2
    <3> QED BY <3>1, <3>3 DEF Pointers, PointersStay, PointersFollow
  <2>6. PointersStay /\ Safe' /\ (Strict => Strict')
    BY <1>8, <2>3, <2>5, QuietIsSafe DEF Pointers
  <2>7. TypeOK'
    BY <1>1, <1>8, <2>3, ClosedTxn DEF CInv, TypeOK, peopleVars
  <2> QED BY <1>1, <2>3, <2>6, <2>7, ClosedTxn, QuietKeepsEvidence DEF Kept
<1>10. CASE ~cancels
  <2>1. UNCHANGED <<ledger, lease>>
    BY <1>10 DEF Ingest
  <2>2. \A v \in Works : /\ work'[v].generation = work[v].generation
                         /\ work'[v].active = work[v].active
    BY <1>7, <1>8, <1>10
  <2>3. Quiet
    BY <2>1 DEF Quiet
  <2>4. lease' \in [Leases -> LeaseRows]
    BY <1>2, <2>1 DEF TypeOK
  <2>5. PointersStay /\ Safe' /\ (Strict => Strict')
    BY <1>8, <2>1, <2>2, <2>3, <2>4, NoLeaseEnds
  <2>6. TypeOK'
    BY <1>1, <1>8, <2>1, ClosedTxn DEF CInv, TypeOK, peopleVars
  <2> QED BY <1>1, <2>3, <2>5, <2>6, ClosedTxn, QuietKeepsEvidence DEF Kept
<1> QED BY <1>9, <1>10
-----------------------------------------------------------------------------
(* Steps that allocate *)

\* What an allocation leaves to its caller: the rest of the transaction.
LEMMA AllocateStep ==
  ASSUME CInv, NEW d \in Devices, NEW w \in Works, Allocate(d, w),
         txn' \in Transactions,
         (\A k \in Leases : lease[k].state # "none" => lease'[k] = lease[k]) => TxnOK',
         UNCHANGED <<peopleVars, job>>
  PROVE  Kept
<1>1. /\ lease' \in [Leases -> LeaseRows]
      /\ work' \in [Works -> WorkRows]
      /\ ledger' \in [reserved : Nat, spent : Nat]
      /\ submission' \in [Leases -> SubmissionRows]
      /\ Safe' /\ (Strict => Strict')
      /\ \A k \in Leases : lease[k].state # "none" => lease'[k] = lease[k]
      /\ \A k \in Leases : lease[k].state = "none" => ~lease[k].reviewed
  BY AllocateIsSafe
<1>2. TypeOK'
  BY <1>1 DEF CInv, TypeOK, peopleVars
<1>3. \A k \in Leases : lease[k].reviewed =>
        /\ lease'[k].reviewed
        /\ lease'[k].sha = lease[k].sha /\ lease'[k].usage = lease[k].usage
  BY <1>1
<1> QED BY <1>1, <1>2, <1>3 DEF Kept

\* A sweep tries to allocate handed over work to the device that asked for it.
LEMMA AllocateHandoverKeeps ==
  ASSUME CInv, AllocateHandover
  PROVE  Kept
<1>1. /\ txn.device \in Devices /\ txn.work \in Works
      /\ txn.leases \in SUBSET Leases
      /\ \A k \in txn.leases : Endable(lease[k])
  BY DEF AllocateHandover, CInv, TxnOK, TypeOK, Transactions
<1>2. txn' = Sweeping(txn.leases) /\ UNCHANGED <<peopleVars, job>>
  BY DEF AllocateHandover
<1>3. /\ txn' \in Transactions /\ txn'.op = "sweep" /\ txn'.device = NoDevice
      /\ txn'.leases = txn.leases
  BY <1>1, <1>2, SweepingType
<1>4. (\A k \in Leases : lease[k].state # "none" => lease'[k] = lease[k]) => TxnOK'
  BY <1>1, <1>3 DEF TxnOK, Endable
<1>5. CASE Allocate(txn.device, txn.work)
  BY <1>1, <1>2, <1>3, <1>4, <1>5, AllocateStep
<1>6. CASE UNCHANGED workVars
  <2>1. UNCHANGED <<work, lease, ledger, submission, job>>
    BY <1>6 DEF workVars
  <2>2. TypeOK'
    BY <1>2, <1>3, <2>1 DEF CInv, TypeOK, peopleVars
  <2> QED BY <1>4, <2>1, <2>2, NoRow, QuietKeepsEvidence DEF Kept
<1> QED BY <1>5, <1>6 DEF AllocateHandover

\* A poll takes the oldest work there is for its device.
LEMMA PollAllocatesKeeps ==
  ASSUME CInv, NEW d \in Devices, PollAllocates(d)
  PROVE  Kept
<1>1. PICK w \in Works : Allocate(d, w)
  BY DEF PollAllocates, TakeOldest
<1>2. txn' = Closed /\ UNCHANGED <<peopleVars, job>>
  BY DEF PollAllocates
<1> QED BY <1>1, <1>2, ClosedTxn, AllocateStep

\* So does the rest of a poll that has reclaimed an orphaned lease.
LEMMA PollGoesOnKeeps ==
  ASSUME CInv, PollGoesOn
  PROVE  Kept
<1>1. txn.device \in Devices
  BY DEF PollGoesOn, CInv, TxnOK
<1>2. txn' = Closed /\ UNCHANGED <<peopleVars, job>>
  BY DEF PollGoesOn
<1>3. CASE TakeOldest(txn.device)
  <2>1. PICK w \in Works : Allocate(txn.device, w)
    BY <1>3 DEF TakeOldest
  <2> QED BY <1>1, <1>2, <2>1, ClosedTxn, AllocateStep
<1>4. CASE UNCHANGED workVars
  <2>1. UNCHANGED <<work, lease, ledger, submission, job>>
    BY <1>4 DEF workVars
  <2>2. TypeOK'
    BY <1>2, <2>1, ClosedTxn DEF CInv, TypeOK, peopleVars
  <2> QED BY <1>2, <2>1, <2>2, ClosedTxn, NoRow, QuietKeepsEvidence DEF Kept
<1> QED BY <1>3, <1>4 DEF PollGoesOn
-----------------------------------------------------------------------------
(* Steps that touch no lease *)

\* Steps of people, of the dispatcher and of GitHub that change other rows only.
LEMMA OtherRowsStep ==
  ASSUME CInv, UNCHANGED <<lease, work, ledger, declined, job>>,
         project' \in [active : BOOLEAN, policy : PolicyRows, budget : Nat],
         member' \in [Users -> MemberRows],
         device' \in [Devices -> [enabled : BOOLEAN, token : {"none", "valid", "revoked"}]],
         submission' \in [Leases -> SubmissionRows],
         txn' \in Transactions, TxnOK'
  PROVE  Kept
<1>1. TypeOK'
  BY DEF CInv, TypeOK
<1> QED BY <1>1, NoRow, QuietKeepsEvidence DEF Kept

\* A sweep starts with the leases that are due, all of them allocated.
LEMMA SweepKeeps ==
  ASSUME CInv, Sweep
  PROVE  Kept
<1>1. txn' = Sweeping(Due) /\ UNCHANGED <<peopleVars, workVars>>
  BY DEF Sweep
<1>2. Due \in SUBSET Leases /\ \A k \in Due : Endable(lease[k])
  BY DEF Due, OfferExpired, RecoveryExpired, Endable
<1>3. /\ txn' \in Transactions /\ txn'.op = "sweep" /\ txn'.device = NoDevice
      /\ txn'.leases = Due
  BY <1>1, <1>2, SweepingType
<1>4. TxnOK'
  BY <1>1, <1>2, <1>3 DEF TxnOK, workVars
<1> QED BY <1>1, <1>3, <1>4, OtherRowsStep DEF CInv, TypeOK, peopleVars, workVars

\* A sweep ends with the escalation of revisions nobody may take.
LEMMA EndSweepKeeps ==
  ASSUME CInv, EndSweep
  PROVE  Kept
<1>1. txn' = Closed /\ UNCHANGED <<peopleVars, work, lease, ledger, job>>
  BY DEF EndSweep
<1>2. PICK f \in [Works -> Leases] :
        submission' = [k \in Leases |->
            IF EscalationDue(k) /\ f[lease[k].work] = k THEN Escalated(k)[k]
                                                        ELSE submission[k]]
  BY DEF EndSweep
<1>3. ASSUME NEW k \in Leases
      PROVE  Escalated(k)[k] \in SubmissionRows /\ submission[k] \in SubmissionRows
  <2>1. submission[k] \in SubmissionRows
    BY DEF CInv, TypeOK
  <2>2. Escalated(k)[k] = [submission[k] EXCEPT !.state = "escalated", !.since = 0]
    BY DEF Escalated, CInv, TypeOK
  <2>3. "escalated" \in SubmissionStates /\ 0 \in 0..MaxAffinity
    BY BoundsAssumption DEF SubmissionStates
  <2>4. [submission[k] EXCEPT !.state = "escalated", !.since = 0] \in SubmissionRows
    BY <2>1, <2>3 DEF SubmissionRows
  <2> QED BY <2>1, <2>2, <2>4
<1>4. submission' \in [Leases -> SubmissionRows]
  BY <1>2, <1>3
<1> QED BY <1>1, <1>4, ClosedTxn, OtherRowsStep DEF CInv, TypeOK, peopleVars

\* A new device.
LEMMA CreateDeviceKeeps ==
  ASSUME CInv, NEW d \in Devices, CreateDevice(d)
  PROVE  Kept
<1>1. /\ txn' = Closed
      /\ device' = [device EXCEPT ![d] = [enabled |-> TRUE, token |-> "valid"]]
      /\ UNCHANGED <<project, member, declined, work, lease, submission, ledger, job>>
  BY DEF CreateDevice, workVars
<1>2. device' \in [Devices -> [enabled : BOOLEAN, token : {"none", "valid", "revoked"}]]
  BY <1>1 DEF CInv, TypeOK
<1> QED BY <1>1, <1>2, ClosedTxn, OtherRowsStep DEF CInv, TypeOK

\* A user starts or stops watching the project.
LEMMA WatchKeeps ==
  ASSUME CInv, NEW u \in Users, NEW enabled \in BOOLEAN, Watch(u, enabled)
  PROVE  Kept
<1> DEFINE new == [role |-> "contributor", verified |-> FALSE, watching |-> enabled]
           old == [member[u] EXCEPT !.watching = enabled]
<1>1. /\ txn' = Closed
      /\ member' = [member EXCEPT ![u] = IF member[u].role = "none" THEN new ELSE old]
      /\ UNCHANGED <<project, device, declined, work, lease, submission, ledger, job>>
  BY DEF Watch, workVars, CInv, TypeOK
<1>2. member[u] \in MemberRows /\ member \in [Users -> MemberRows]
  BY DEF CInv, TypeOK
<1>3. new \in MemberRows
  BY DEF MemberRows, MemberRoles, Roles
<1>4. old \in MemberRows
  BY <1>2 DEF MemberRows
<1>5. member' \in [Users -> MemberRows]
  BY <1>1, <1>2, <1>3, <1>4
<1> QED BY <1>1, <1>5, ClosedTxn, OtherRowsStep DEF CInv, TypeOK

\* Only active leases are about to be cancelled.
LEMMA AssignedAreActive ==
  ASSUME CInv
  PROVE  Assigned \in SUBSET Leases /\ \A k \in Assigned : Endable(lease[k])
BY DEF Assigned, CInv, TypeOK, WorkRows, Safe, PointerKnown

\* A maintainer changes the project; its assigned leases may have to be cancelled.
LEMMA UpdateProjectKeeps ==
  ASSUME CInv, NEW u \in Users, NEW policy \in Policies, NEW budget \in Budgets,
         NEW active \in BOOLEAN, UpdateProject(u, policy, budget, active)
  PROVE  Kept
<1>1. /\ project' = [active |-> active, policy |-> policy, budget |-> budget]
      /\ txn' \in {Cancelling(Assigned), Closed}
      /\ UNCHANGED <<ledger, member, device, declined, work, lease, submission, job>>
  BY DEF UpdateProject
<1>2. project' \in [active : BOOLEAN, policy : PolicyRows, budget : Nat]
  BY <1>1, InputsAssumption
<1>3. txn' \in Transactions /\ TxnOK'
  <2>1. CASE txn' = Closed
    BY <2>1, ClosedTxn
  <2>2. CASE txn' = Cancelling(Assigned)
    BY <1>1, <2>2, AssignedAreActive, CancellingType DEF TxnOK
  <2> QED BY <1>1, <2>1, <2>2
<1> QED BY <1>1, <1>2, <1>3, OtherRowsStep DEF CInv, TypeOK

\* The installation is gone: every assigned lease has to be cancelled.
LEMMA RevokeInstallationKeeps ==
  ASSUME CInv, RevokeInstallation
  PROVE  Kept
<1>1. /\ project' = [project EXCEPT !.active = FALSE]
      /\ txn' = Cancelling(Assigned)
      /\ UNCHANGED <<ledger, member, device, declined, work, lease, submission, job>>
  BY DEF RevokeInstallation
<1>2. project' \in [active : BOOLEAN, policy : PolicyRows, budget : Nat]
  BY <1>1 DEF CInv, TypeOK
<1>3. txn' \in Transactions /\ TxnOK'
  BY <1>1, AssignedAreActive, CancellingType DEF TxnOK
<1> QED BY <1>1, <1>2, <1>3, OtherRowsStep DEF CInv, TypeOK

\* A validated issue is queued; its pointer stays.
LEMMA ValidateKeeps ==
  ASSUME CInv, NEW u \in Users, NEW w \in Works, Validate(u, w)
  PROVE  Kept
<1> DEFINE row == [work[w] EXCEPT !.state = "queued"]
<1>1. /\ txn' = Closed
      /\ UNCHANGED <<peopleVars, lease, ledger, submission, job>>
  BY DEF Validate
<1>2. work[w] \in WorkRows /\ work \in [Works -> WorkRows] /\ lease \in [Leases -> LeaseRows]
  BY DEF CInv, TypeOK
<1>3. work' = [work EXCEPT ![w] = row]
  BY <1>2 DEF Validate
<1>4. row \in WorkRows /\ row.active = work[w].active /\ row.generation = work[w].generation
  <2>1. "queued" \in WorkStates
    BY DEF WorkStates, Allocatable
  <2> QED BY <1>2, <2>1 DEF WorkRows
<1>5. /\ work' \in [Works -> WorkRows]
      /\ \A v \in Works : /\ work'[v].generation = work[v].generation
                          /\ work'[v].active = work[v].active
  BY <1>2, <1>3, <1>4
<1>6. Quiet
  BY <1>1 DEF Quiet
<1>7. PointersStay /\ Safe' /\ (Strict => Strict')
  BY <1>1, <1>2, <1>5, <1>6, NoLeaseEnds
<1>8. TypeOK'
  BY <1>1, <1>5, ClosedTxn DEF CInv, TypeOK, peopleVars
<1> QED BY <1>1, <1>6, <1>7, <1>8, ClosedTxn, QuietKeepsEvidence DEF Kept
-----------------------------------------------------------------------------
(* The invariant of the specification *)

\* The empty tables satisfy the invariant.
LEMMA InitIsSafe == Init => IInv
<1> SUFFICES ASSUME Init PROVE IInv
  OBVIOUS
<1>1. project \in [active : BOOLEAN, policy : PolicyRows, budget : Nat]
  BY InputsAssumption DEF Init
<1>2. ledger \in [reserved : Nat, spent : Nat]
  BY DEF Init
<1>3. member \in [Users -> MemberRows]
  BY DevicesAssumption DEF Init
<1>4. device \in [Devices -> [enabled : BOOLEAN, token : {"none", "valid", "revoked"}]]
  BY DEF Init
<1>5. declined \subseteq Users \X Works
  BY DEF Init
<1>6. NoCommit \in Commits /\ 0 \in 0..MaxAffinity
  BY BoundsAssumption DEF Commits
<1>7. work \in [Works -> WorkRows] /\ \A w \in Works : work[w].active = NoLease
  BY <1>6 DEF Init, WorkRows, WorkStates
<1>8. lease \in [Leases -> LeaseRows] /\ \A l \in Leases : lease[l] = UnbornLease
  BY UnbornRow DEF Init
<1>9. submission \in [Leases -> SubmissionRows]
  BY <1>6 DEF Init, SubmissionRows, SubmissionStates
<1>10. job \in [Leases -> [state : JobStates, sha : 0..MaxVersion]]
  BY Zeros DEF Init, JobStates
<1>11. txn = Closed /\ txn \in Transactions
  BY DEF Init, Closed, Transactions
<1>12. TypeOK
  BY <1>1, <1>2, <1>3, <1>4, <1>5, <1>7, <1>8, <1>9, <1>10, <1>11 DEF TypeOK
<1>13. TxnOK
  BY <1>11 DEF TxnOK, Closed
<1>14. \A l \in Leases : lease[l].state = "none" /\ lease[l].reviewed = FALSE
  BY <1>8 DEF UnbornLease
<1>15. Safe
  BY <1>7, <1>14
     DEF Safe, RowsOK, RowOK, Born, ActiveIsCurrent, PointerKnown, OneActivePerUser, Active
<1>16. Strict
  BY <1>7, <1>14 DEF Strict, SettledOK, PointerIsLive
<1> QED BY <1>12, <1>13, <1>15, <1>16 DEF IInv, CInv

\* Every step keeps it, and keeps the evidence under review.
LEMMA NextKeeps == CInv /\ [Next]_vars => Kept
<1> SUFFICES ASSUME CInv, [Next]_vars PROVE Kept
  OBVIOUS
<1>1. CASE Tick
  BY <1>1, TickKeeps
<1>2. CASE Sweep
  BY <1>2, SweepKeeps
<1>3. CASE OpenTransaction
  BY <1>3, SweepOfferKeeps, SweepHandoverKeeps, CancelNextKeeps, AllocateHandoverKeeps,
     EndSweepKeeps, PollGoesOnKeeps DEF OpenTransaction
<1>4. CASE Governance
  <2>1. ASSUME NEW u \in Watchers, NEW enabled \in BOOLEAN, Watch(u, enabled) PROVE Kept
    BY <2>1, WatchKeeps, DevicesAssumption
  <2> QED BY <1>4, <2>1, UpdateMemberKeeps, UpdateProjectKeeps, RevokeInstallationKeeps
          DEF Governance
<1>5. ASSUME NEW l \in Leases, WorkerStep(l) PROVE Kept
  BY <1>5, HeartbeatKeeps, HeartbeatWithUsageKeeps, CheckpointKeeps, CompleteKeeps,
     BlockKeeps DEF WorkerStep
<1>6. ASSUME NEW l \in Leases, HumanStep(l) PROVE Kept
  BY <1>6, AcceptKeeps, DenyKeeps, RecoverKeeps, DibKeeps, ApproveKeeps DEF HumanStep
<1>7. ASSUME NEW d \in Devices, DeviceStep(d) PROVE Kept
  BY <1>7, PollAllocatesKeeps, PollReclaimsKeeps, CreateDeviceKeeps, RevokeDeviceKeeps,
     ToggleDeviceKeeps DEF DeviceStep
<1>8. ASSUME NEW w \in Works, IssueStep(w) PROVE Kept
  BY <1>8, ValidateKeeps, IngestKeeps DEF IssueStep
<1>9. CASE UNCHANGED vars
  <2>1. UNCHANGED <<project, ledger, member, device, declined, work, lease, submission,
                    job, txn>>
    BY <1>9 DEF vars
  <2>2. TypeOK' /\ TxnOK'
    BY <2>1 DEF CInv, TypeOK, TxnOK
  <2> QED BY <2>1, <2>2, NoRow, QuietKeepsEvidence DEF Kept
<1> QED BY <1>1, <1>2, <1>3, <1>4, <1>5, <1>6, <1>7, <1>8, <1>9 DEF Next

\* The inductive invariant holds of every behaviour.
THEOREM Invariance == Spec => []IInv
<1>1. IInv /\ [Next]_vars => IInv'
  BY NextKeeps DEF Kept, IInv, CInv
<1> QED BY InitIsSafe, <1>1, PTL DEF Spec

\* Every row of every table keeps its type: no handler writes a state, a counter or
\* a reference the columns do not allow.
THEOREM TypeCorrect == Spec => []TypeOK
BY Invariance, PTL DEF IInv, CInv

\* A person has at most one active allocation across all their devices, however
\* polling, sweeps, handovers, cancellations and edits interleave.
THEOREM PersonHoldsOne == Spec => []OneActivePerUser
BY Invariance, PTL DEF IInv, CInv, Safe

\* An active lease is the one its work points to, with the work's fencing
\* generation: a fenced-out device can never be taken for the current one.
THEOREM LeaseIsCurrent == Spec => []ActiveIsCurrent
BY Invariance, PTL DEF IInv, CInv, Safe

\* A lease is settled exactly when its evidence is under review or it is over.
THEOREM SettlementIsTimely == Spec => []SettledWhenOver
<1>1. IInv => SettledWhenOver
  BY DEF IInv, Strict, SettledOK, SettledWhenOver
<1> QED BY Invariance, <1>1, PTL

\* The commit and the usage the reviewers read are never replaced.
THEOREM EvidenceIsFrozen == Spec => ReviewIsFrozen
<1>1. IInv /\ [Next]_vars =>
        [\A l \in Leases : lease[l].reviewed =>
           /\ lease'[l].reviewed
           /\ lease'[l].sha = lease[l].sha /\ lease'[l].usage = lease[l].usage]_vars
  BY NextKeeps DEF Kept, IInv
<1> QED BY Invariance, <1>1, PTL DEF Spec, ReviewIsFrozen
=============================================================================
