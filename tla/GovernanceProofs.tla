-------------------------- MODULE GovernanceProofs --------------------------
(***************************************************************************)
(* Further proofs about Coordinator: its accounts, its recovery windows,   *)
(* what it shows of an issue, and whom it lets run and publish.            *)
(*                                                                         *)
(* CoordinatorProofs shows which rows a step may change; this module shows *)
(* what the changes leave true.  GInv adds to IInv what the runs' checks   *)
(* need and do not say: every row of a lease is touched in one of a few    *)
(* ways (Continues, Ends, Starts), and each way keeps each part of GInv.   *)
(* Its Core is kept under CInv alone, which webhooks keep too; what is     *)
(* Shown of an issue only while there are no pull requests.                *)
(***************************************************************************)
EXTENDS CoordinatorProofs, FiniteSetTheorems, WellFoundedInduction

(* Sums over finite sets.  MapThenSumSet is defined by recursion over the subsets  *)
(* of its argument, each time taking out the element that CHOOSE picks.  What the  *)
(* recursion computes is proved here from the fact that the strict subsets of a    *)
(* finite set are well founded (WFMin), with sets of counterexamples.              *)

\* g is the recursive function that sums f over the subsets of U.
Summing(g, f, U) ==
  g = [s \in SUBSET U |-> IF s = {} THEN 0
                          ELSE LET x == CHOOSE x \in s : TRUE IN f[x] + g[s \ {x}]]
Total(f, U) == (CHOOSE g : Summing(g, f, U))[U]

Chosen(s) == CHOOSE x \in s : TRUE
Unfolds(f, s) ==
  Total(f, s) = IF s = {} THEN 0 ELSE f[Chosen(s)] + Total(f, s \ {Chosen(s)})

\* A set of finite sets that is not empty has a member of which no proper subset is in it.
LEMMA Smallest ==
  ASSUME NEW U, NEW T, T # {}, T \subseteq FiniteSubsetsOf(U)
  PROVE  \E s \in T : \A t \in T : t \subseteq s => t = s
<1>1. IsWellFoundedOn(StrictSubsetOrdering(U), FiniteSubsetsOf(U))
  BY FS_StrictSubsetOrderingWellFounded
<1>2. PICK s \in T : \A t \in T : <<t, s>> \notin StrictSubsetOrdering(U)
  BY <1>1, WFMin
<1> QED BY <1>2 DEF StrictSubsetOrdering, FiniteSubsetsOf

\* The defining equation of the sum, for every finite set: the recursive function that
\* CHOOSE picks exists, since a smallest set without it could be given one.
LEMMA Equation ==
  ASSUME NEW f, NEW U, IsFiniteSet(U)
  PROVE  Unfolds(f, U)
<1> DEFINE Bad == {s \in SUBSET U : ~Unfolds(f, s)}
<1> SUFFICES ASSUME Bad # {} PROVE FALSE
  OBVIOUS
<1>1. \A s \in SUBSET U : IsFiniteSet(s)
  BY FS_Subset
<1>2. PICK T \in Bad : \A t \in Bad : t \subseteq T => t = T
  <2>1. Bad \subseteq FiniteSubsetsOf(U)
    BY <1>1 DEF FiniteSubsetsOf
  <2> HIDE DEF Bad
  <2> QED BY <2>1, Smallest
<1> DEFINE h == [s \in SUBSET T |->
                   IF s # T THEN Total(f, s)
                   ELSE IF T = {} THEN 0 ELSE f[Chosen(T)] + Total(f, T \ {Chosen(T)})]
<1>3. \A s \in SUBSET T : s # T => Unfolds(f, s)
  BY <1>2
<1>4. \A s \in SUBSET T : s # {} => Chosen(s) \in s
  BY DEF Chosen
<1>5. \A s \in SUBSET T : h[s] = IF s = {} THEN 0 ELSE f[Chosen(s)] + h[s \ {Chosen(s)}]
  <2> TAKE s \in SUBSET T
  <2>0. s # {} => Chosen(s) \in s /\ s \ {Chosen(s)} \in SUBSET T /\ s \ {Chosen(s)} # T
    BY <1>4
  <2>1. CASE s = T
    BY <2>0, <2>1
  <2>2. CASE s # T
    BY <2>0, <2>2, <1>3 DEF Unfolds
  <2> QED BY <2>1, <2>2
<1> HIDE DEF h
<1>6. DOMAIN h = SUBSET T /\ h = [s \in SUBSET T |-> h[s]]
  BY DEF h
<1>7. Summing(h, f, T)
  <2>1. h = [s \in SUBSET T |-> IF s = {} THEN 0 ELSE f[Chosen(s)] + h[s \ {Chosen(s)}]]
    BY <1>5, <1>6
  <2> QED BY <2>1 DEF Summing, Chosen
<1> DEFINE g == CHOOSE g : Summing(g, f, T)
<1>8. Summing(g, f, T)
  BY <1>7
<1> HIDE DEF g
<1>9. \A s \in SUBSET T : g[s] = IF s = {} THEN 0 ELSE f[Chosen(s)] + g[s \ {Chosen(s)}]
  BY <1>8 DEF Summing, Chosen
<1>10. \A s \in SUBSET T : g[s] = h[s]
  <2> DEFINE Differ == {s \in SUBSET T : g[s] # h[s]}
  <2> SUFFICES ASSUME Differ # {} PROVE FALSE
    OBVIOUS
  <2>1. PICK s \in Differ : \A t \in Differ : t \subseteq s => t = s
    <3>1. Differ \subseteq FiniteSubsetsOf(U)
      BY <1>1 DEF FiniteSubsetsOf
    <3> HIDE DEF Differ
    <3> QED BY <3>1, Smallest
  <2>2. s # {} => s \ {Chosen(s)} \notin Differ /\ s \ {Chosen(s)} \in SUBSET T
    BY <2>1, <1>4
  <2> QED BY <2>1, <2>2, <1>5, <1>9
<1>11. Total(f, T) = h[T]
  BY <1>10 DEF Total, g
<1>12. Unfolds(f, T)
  BY <1>11 DEF h, Unfolds
<1> QED BY <1>12

\* Nothing sums to zero.
LEMMA TotalEmpty ==
  ASSUME NEW f
  PROVE  Total(f, {}) = 0
BY Equation, FS_EmptySet DEF Unfolds

\* A sum of natural numbers is one, and any element may be taken out of it first.
LEMMA TotalRemove ==
  ASSUME NEW U, IsFiniteSet(U), NEW f, \A x \in U : f[x] \in Nat
  PROVE  /\ Total(f, U) \in Nat
         /\ \A x \in U : Total(f, U) = f[x] + Total(f, U \ {x})
<1> DEFINE Ok(s) == /\ Total(f, s) \in Nat
                    /\ \A x \in s : Total(f, s) = f[x] + Total(f, s \ {x})
           Bad == {s \in SUBSET U : ~Ok(s)}
<1> SUFFICES ASSUME Bad # {} PROVE FALSE
  OBVIOUS
<1>1. \A s \in SUBSET U : IsFiniteSet(s)
  BY FS_Subset
<1>2. PICK T \in Bad : \A t \in Bad : t \subseteq T => t = T
  <2>1. Bad \subseteq FiniteSubsetsOf(U)
    BY <1>1 DEF FiniteSubsetsOf
  <2> HIDE DEF Bad
  <2> QED BY <2>1, Smallest
<1>3. \A s \in SUBSET T : s # T => Ok(s)
  BY <1>2
<1>4. T # {}
  <2>1. Ok({})
    BY TotalEmpty
  <2> HIDE DEF Ok
  <2> QED BY <1>2, <2>1
<1>5. PICK y \in T : Total(f, T) = f[y] + Total(f, T \ {y})
  <2>1. Unfolds(f, T) /\ Chosen(T) \in T
    BY <1>1, <1>2, <1>4, Equation DEF Chosen
  <2> QED BY <2>1, <1>4 DEF Unfolds
<1>6. Total(f, T \ {y}) \in Nat
  BY <1>3
<1>7. \A x \in T : Total(f, T) = f[x] + Total(f, T \ {x})
  <2> TAKE x \in T
  <2>1. CASE x = y
    BY <1>5, <2>1
  <2>2. CASE x # y
    <3>1. Total(f, T \ {y}) = f[x] + Total(f, (T \ {y}) \ {x})
      BY <1>3, <2>2
    <3>2. Total(f, T \ {x}) = f[y] + Total(f, (T \ {x}) \ {y})
      BY <1>3, <2>2
    <3>3. (T \ {y}) \ {x} = (T \ {x}) \ {y}
      OBVIOUS
    <3>4. Total(f, (T \ {x}) \ {y}) \in Nat
      BY <1>3
    <3>5. f[x] \in Nat /\ f[y] \in Nat
      BY <1>2
    <3> QED BY <1>5, <3>1, <3>2, <3>3, <3>4, <3>5
  <2> QED BY <2>1, <2>2
<1>8. Total(f, T) \in Nat
  BY <1>2, <1>5, <1>6
<1> QED BY <1>2, <1>7, <1>8

\* A sum depends on the values at its elements only.
LEMMA TotalSame ==
  ASSUME NEW U, IsFiniteSet(U), NEW f, NEW h, \A x \in U : f[x] = h[x]
  PROVE  Total(f, U) = Total(h, U)
<1> DEFINE Bad == {s \in SUBSET U : Total(f, s) # Total(h, s)}
<1> SUFFICES ASSUME Bad # {} PROVE FALSE
  OBVIOUS
<1>1. \A s \in SUBSET U : IsFiniteSet(s)
  BY FS_Subset
<1>2. PICK T \in Bad : \A t \in Bad : t \subseteq T => t = T
  <2>1. Bad \subseteq FiniteSubsetsOf(U)
    BY <1>1 DEF FiniteSubsetsOf
  <2> HIDE DEF Bad
  <2> QED BY <2>1, Smallest
<1>3. T # {}
  BY <1>2, TotalEmpty
<1>4. Chosen(T) \in T /\ Unfolds(f, T) /\ Unfolds(h, T)
  BY <1>1, <1>2, <1>3, Equation DEF Chosen
<1>5. Total(f, T \ {Chosen(T)}) = Total(h, T \ {Chosen(T)})
  BY <1>2, <1>4
<1> QED BY <1>2, <1>3, <1>4, <1>5 DEF Unfolds

\* Zeros sum to zero.
LEMMA TotalZero ==
  ASSUME NEW U, IsFiniteSet(U), NEW f, \A x \in U : f[x] = 0
  PROVE  Total(f, U) = 0
<1> DEFINE Bad == {s \in SUBSET U : Total(f, s) # 0}
<1> SUFFICES ASSUME Bad # {} PROVE FALSE
  OBVIOUS
<1>1. \A s \in SUBSET U : IsFiniteSet(s)
  BY FS_Subset
<1>2. PICK T \in Bad : \A t \in Bad : t \subseteq T => t = T
  <2>1. Bad \subseteq FiniteSubsetsOf(U)
    BY <1>1 DEF FiniteSubsetsOf
  <2> HIDE DEF Bad
  <2> QED BY <2>1, Smallest
<1>3. T # {}
  BY <1>2, TotalEmpty
<1>4. Chosen(T) \in T /\ Unfolds(f, T)
  BY <1>1, <1>2, <1>3, Equation DEF Chosen
<1>5. Total(f, T \ {Chosen(T)}) = 0
  BY <1>2, <1>4
<1> QED BY <1>2, <1>3, <1>4, <1>5 DEF Unfolds
-----------------------------------------------------------------------------
(* The invariants *)

\* The tokens that the unsettled ones of the lease rows reserve.
LedgerSum(rows) ==
  MapThenSumSet(LAMBDA l : rows[l].reservation, {l \in Leases : ~rows[l].settled})

\* A lease that was never allocated reserves nothing.
UnbornRows ==
  \A l \in Leases : lease[l].state = "none" => ~lease[l].settled /\ lease[l].reservation = 0

\* While no pull request is under review no lease is a revision.
FirstRound == \A l \in Leases : lease[l].kind = "initial"

\* What is left of a recovery window and the silence before it make up the whole.
WindowOK(r) == r.state = "dibbed" => r.age + r.dibLeft >= MaxAge
Windows == \A l \in Leases : WindowOK(lease[l])

\* Reviewed evidence has a commit, and whoever approved approved that one.
ApprovalOK(r) ==
  r.reviewed => /\ r.sha # NoVersion
                /\ r.approved \in {NoVersion, r.sha}
                /\ r.maintainer \in {NoVersion, r.sha}
Approved == \A l \in Leases : ApprovalOK(lease[l])

\* A publication is queued for the reviewed commit of its lease.
Queued ==
  \A l \in Leases : job[l].state # "none" =>
    lease[l].reviewed /\ job[l].sha = lease[l].sha

\* Only a sweep and a cancellation have leases left to look at.
TxnLeases == txn.op \in {"closed", "poll"} => txn.leases = {}

\* Only what is under review or over is settled.
Unsettled ==
  \A l \in Leases : lease[l].settled => lease[l].reviewed \/ lease[l].state \notin Active

\* What the whole system keeps, and what only a coordinator without pull requests does.
Core ==
  /\ UnbornRows /\ Unsettled /\ ReservationLedger /\ Windows /\ Approved /\ Queued
  /\ TxnLeases /\ RunningIsAuthorised /\ PublishingIsApproved
Shown == FirstRound /\ WorkShowsLease

GInv == Core /\ Shown
-----------------------------------------------------------------------------
(* The kinds of steps, as far as lease rows, the ledger and the queue go *)

Terminals == {"released", "reclaimed", "reassigned", "cancelled"}

\* The row r of a lease goes on, as q.
Continues(r, q) ==
  /\ q.device = r.device /\ q.work = r.work /\ q.kind = r.kind
  /\ q.reservation = r.reservation /\ q.settled = r.settled /\ q.reviewed = r.reviewed
  /\ \/ q.state = r.state
     \/ r.state \in Active \ {"publishing"} /\ q.state \in Active \ {"publishing"}
  /\ r.reviewed => q.sha = r.sha /\ q.approved = r.approved /\ q.maintainer = r.maintainer
  /\ WindowOK(r) => WindowOK(q)

Continuing ==
  /\ \A l \in Leases : Continues(lease[l], lease'[l])
  /\ UNCHANGED <<ledger, job>>

Ending(l, terminal) ==
  /\ lease[l].state # "none"
  /\ terminal = "reassigned" => RecoveryExpired(l)
  /\ EndLease(l, terminal)
  /\ UNCHANGED job

Starting(l, d, w) ==
  /\ lease[l].state = "none"
  /\ Grant(l, d, w)
  /\ UNCHANGED job

Kinds ==
  \/ Continuing
  \/ \E l \in Leases, v \in Versions, usage \in Usages : Complete(l, v, usage)
  \/ \E u \in Users, l \in Leases, v \in Versions : Approve(u, l, v)
  \/ \E l \in Leases, terminal \in Terminals : Ending(l, terminal)
  \/ \E l \in Leases, d \in Devices, w \in Works : Starting(l, d, w)

\* The row that Complete writes.
LEMMA CompletingRow ==
  ASSUME CInv, Unsettled, NEW l \in Leases, NEW v \in Versions, NEW usage \in Usages,
         Complete(l, v, usage)
  PROVE  /\ \A k \in Leases : k # l => lease'[k] = lease[k]
         /\ lease[l].state = "running" /\ lease[l].settled = FALSE
         /\ lease'[l].state = "awaiting_review" /\ lease'[l].settled = TRUE
         /\ lease'[l].reviewed = TRUE /\ lease'[l].kind = lease[l].kind
         /\ lease'[l].device = lease[l].device /\ lease'[l].work = lease[l].work
         /\ lease'[l].reservation = lease[l].reservation
         /\ lease'[l].sha = v /\ lease'[l].usage = usage
         /\ lease'[l].approved = NoVersion /\ lease'[l].maintainer = NoVersion
<1>1. lease[l] \in LeaseRows /\ lease \in [Leases -> LeaseRows]
  BY DEF CInv, TypeOK
<1>2. /\ lease[l].state = "running"
      /\ lease' = [lease EXCEPT ![l] =
           [[lease[l] EXCEPT !.sha = v, !.usage = usage, !.reviewed = TRUE,
              !.approved = NoVersion, !.maintainer = NoVersion,
              !.state = "awaiting_review", !.age = 0] EXCEPT !.settled = TRUE]]
  BY DEF Complete, Fence
<1>3. lease[l].settled = FALSE
  <2>1. RowOK(lease[l]) /\ lease[l].settled \in BOOLEAN
    BY <1>1 DEF CInv, Safe, RowsOK, LeaseRows
  <2> QED BY <1>2, <2>1 DEF RowOK, Unsettled, Active
<1>4. lease'[l] = [lease[l] EXCEPT !.sha = v, !.usage = usage, !.reviewed = TRUE,
              !.approved = NoVersion, !.maintainer = NoVersion,
              !.state = "awaiting_review", !.age = 0, !.settled = TRUE]
  BY <1>1, <1>2
<1>5. \A k \in Leases : k # l => lease'[k] = lease[k]
  BY <1>1, <1>2
<1> QED BY <1>1, <1>2, <1>3, <1>4, <1>5 DEF LeaseRows

\* The row that Approve writes.
LEMMA ApprovingRow ==
  ASSUME CInv, NEW u \in Users, NEW l \in Leases, NEW v \in Versions, Approve(u, l, v)
  PROVE  LET r == Approvals(u, l, v) IN
         /\ \A k \in Leases : k # l => lease'[k] = lease[k]
         /\ lease[l].state = "awaiting_review" /\ lease[l].reviewed = TRUE
         /\ lease'[l].state \in {"publishing", "awaiting_review"}
         /\ lease'[l].state = "publishing" <=> FullyApproved(r)
         /\ lease'[l].settled = lease[l].settled
         /\ lease'[l].reviewed = TRUE /\ lease'[l].kind = lease[l].kind
         /\ lease'[l].device = lease[l].device /\ lease'[l].work = lease[l].work
         /\ lease'[l].reservation = lease[l].reservation
         /\ lease'[l].sha = lease[l].sha /\ v = lease[l].sha
         /\ lease'[l].usage = lease[l].usage
         /\ lease'[l].approved = r.approved /\ lease'[l].maintainer = r.maintainer
         /\ r.approved \in {lease[l].approved, v}
         /\ r.maintainer \in {lease[l].maintainer, v}
<1> DEFINE r == Approvals(u, l, v)
<1>1. lease[l] \in LeaseRows /\ lease \in [Leases -> LeaseRows]
  BY DEF CInv, TypeOK
<1>2. lease[l].state = "awaiting_review" /\ v = lease[l].sha
  BY DEF Approve
<1>3. lease[l].reviewed = TRUE
  <2>1. RowOK(lease[l]) /\ lease[l].reviewed \in BOOLEAN
    BY <1>1 DEF CInv, Safe, RowsOK, LeaseRows
  <2> QED BY <1>2, <2>1 DEF RowOK
<1>4. /\ r.state = lease[l].state /\ r.settled = lease[l].settled
      /\ r.reviewed = lease[l].reviewed /\ r.kind = lease[l].kind
      /\ r.device = lease[l].device /\ r.work = lease[l].work
      /\ r.reservation = lease[l].reservation
      /\ r.sha = lease[l].sha /\ r.usage = lease[l].usage
      /\ r.approved \in {lease[l].approved, v}
      /\ r.maintainer \in {lease[l].maintainer, v}
      /\ r = [r EXCEPT !.state = "awaiting_review"]
  BY <1>1, <1>2 DEF Approvals, LeaseRows
<1>5. lease' = [lease EXCEPT ![l] =
        [r EXCEPT !.state = IF FullyApproved(r) THEN "publishing" ELSE "awaiting_review"]]
  BY <1>4 DEF Approve
<1>6. lease'[l] = [r EXCEPT !.state = IF FullyApproved(r) THEN "publishing"
                                                         ELSE "awaiting_review"]
  BY <1>1, <1>5
<1>7. r \in LeaseRows
  <2>1. v \in 0..MaxVersion
    BY Zeros
  <2> QED BY <1>1, <2>1 DEF Approvals, LeaseRows
<1>8. \A k \in Leases : k # l => lease'[k] = lease[k]
  BY <1>1, <1>5
<1> HIDE DEF r
<1>9. /\ lease'[l].state = IF FullyApproved(r) THEN "publishing" ELSE "awaiting_review"
      /\ lease'[l].settled = r.settled /\ lease'[l].reviewed = r.reviewed
      /\ lease'[l].kind = r.kind /\ lease'[l].device = r.device /\ lease'[l].work = r.work
      /\ lease'[l].reservation = r.reservation
      /\ lease'[l].sha = r.sha /\ lease'[l].usage = r.usage
      /\ lease'[l].approved = r.approved /\ lease'[l].maintainer = r.maintainer
  BY <1>6, <1>7 DEF LeaseRows
<1> QED BY <1>2, <1>3, <1>4, <1>8, <1>9 DEF r

\* The row that EndLease writes.
LEMMA EndingRow ==
  ASSUME CInv, NEW l \in Leases, NEW terminal \in Terminals, EndLease(l, terminal)
  PROVE  /\ \A k \in Leases : k # l => lease'[k] = lease[k]
         /\ lease'[l].state = terminal /\ terminal \notin Active /\ terminal # "none"
         /\ lease'[l].settled = TRUE
         /\ lease'[l].reviewed = lease[l].reviewed /\ lease'[l].kind = lease[l].kind
         /\ lease'[l].device = lease[l].device /\ lease'[l].work = lease[l].work
         /\ lease'[l].reservation = lease[l].reservation
         /\ lease'[l].sha = lease[l].sha /\ lease'[l].usage = lease[l].usage
         /\ lease'[l].approved = lease[l].approved
         /\ lease'[l].maintainer = lease[l].maintainer
<1>1. lease[l] \in LeaseRows /\ lease \in [Leases -> LeaseRows]
  BY DEF CInv, TypeOK
<1>2. lease' = [lease EXCEPT ![l] = [lease[l] EXCEPT !.state = terminal, !.settled = TRUE,
                                                     !.age = 0]]
  BY <1>1 DEF EndLease
<1>3. lease'[l] = [lease[l] EXCEPT !.state = terminal, !.settled = TRUE, !.age = 0]
  BY <1>1, <1>2
<1>4. \A k \in Leases : k # l => lease'[k] = lease[k]
  BY <1>1, <1>2
<1>5. terminal \notin Active /\ terminal # "none"
  BY DEF Terminals, Active
<1> QED BY <1>1, <1>3, <1>4, <1>5 DEF LeaseRows

\* The row that Grant writes.
LEMMA StartingRow ==
  ASSUME CInv, NEW l \in Leases, NEW d \in Devices, NEW w \in Works, Grant(l, d, w)
  PROVE  /\ \A k \in Leases : k # l => lease'[k] = lease[k]
         /\ lease'[l].state \in {"offered", "running"}
         /\ lease'[l].settled = FALSE /\ lease'[l].reviewed = FALSE
         /\ lease'[l].device = d /\ lease'[l].work = w
         /\ lease'[l].reservation = Amount(d)
         /\ work[w].state = "queued" => lease'[l].kind = "initial"
         /\ work[w].state # "queued" => lease'[l].kind = "revision"
         /\ ledger'.reserved = ledger.reserved + Amount(d) /\ ledger'.spent = ledger.spent
<1>1. lease \in [Leases -> LeaseRows] /\ ledger \in [reserved : Nat, spent : Nat]
  BY DEF CInv, TypeOK
<1>2. PICK kind, base, feedback :
        /\ lease' = [lease EXCEPT ![l] = NewLease(d, w, kind, base, feedback)]
        /\ work[w].state = "queued" => kind = "initial"
        /\ work[w].state # "queued" => kind = "revision"
  <2>1. CASE work[w].state = "queued"
    <3>1. lease' = [lease EXCEPT ![l] = NewLease(d, w, "initial", work[w].checkpoint, {})]
      BY <2>1 DEF Grant
    <3> QED BY <2>1, <3>1
  <2>2. CASE work[w].state = "revision_requested"
    <3>1. PICK k \in SubmissionsOf(w) :
            lease' = [lease EXCEPT ![l] =
              NewLease(d, w, "revision", submission[k].head,
                       UNION {lease[b].feedback : b \in Latest(w)})]
      BY <2>2 DEF Grant
    <3> QED BY <2>2, <3>1
  <2> QED BY <2>1, <2>2 DEF Grant
<1>3. lease'[l] = NewLease(d, w, kind, base, feedback)
  BY <1>1, <1>2
<1>4. \A k \in Leases : k # l => lease'[k] = lease[k]
  BY <1>1, <1>2
<1>5. LET q == NewLease(d, w, kind, base, feedback) IN
      /\ q.state \in {"offered", "running"}
      /\ q.settled = FALSE /\ q.reviewed = FALSE /\ q.device = d /\ q.work = w
      /\ q.reservation = Amount(d) /\ q.kind = kind
  BY DEF NewLease, UnbornLease
<1>6. ledger'.reserved = ledger.reserved + Amount(d) /\ ledger'.spent = ledger.spent
  <2>1. ledger' = [ledger EXCEPT !.reserved = @ + Amount(d)]
    BY DEF Grant
  <2> HIDE DEF Amount
  <2> QED BY <1>1, <2>1
<1> QED BY <1>2, <1>3, <1>4, <1>5, <1>6
-----------------------------------------------------------------------------
(* The ledger *)

\* The sum in ReservationLedger is the sum of a function over a finite set.
LEMMA LedgerIsTotal ==
  ASSUME NEW rows
  PROVE  LedgerSum(rows) = Total([l \in Leases |-> rows[l].reservation],
                                 {l \in Leases : ~rows[l].settled})
<1> DEFINE f == [l \in Leases |-> rows[l].reservation]
           U == {l \in Leases : ~rows[l].settled}
           Sums(g) == g = [s \in SUBSET U |->
                             IF s = {} THEN 0
                             ELSE LET x == CHOOSE x \in s : TRUE
                                  IN  rows[x].reservation + g[s \ {x}]]
<1>1. LedgerSum(rows) = (CHOOSE g : Sums(g))[U]
  BY DEF MapThenSumSet, MapThenFoldSet, LedgerSum
<1>2. ASSUME NEW g PROVE Sums(g) <=> Summing(g, f, U)
  <2>1. \A s \in SUBSET U : s # {} =>
          f[CHOOSE x \in s : TRUE] = rows[CHOOSE x \in s : TRUE].reservation
    OBVIOUS
  <2> HIDE DEF f, U
  <2> QED BY <2>1 DEF Summing
<1> HIDE DEF f, U, Sums
<1>3. (CHOOSE g : Sums(g)) = (CHOOSE g : Summing(g, f, U))
  BY <1>2
<1> QED BY <1>1, <1>3 DEF Total, f, U

\* There are finitely many leases.
LEMMA LeasesAreFinite == \A U \in SUBSET Leases : IsFiniteSet(U)
<1>1. IsFiniteSet(Leases)
  BY FS_Interval, BoundsAssumption DEF Leases
<1> QED BY <1>1, FS_Subset

\* Rows that keep their reservations, and whether they are settled, keep the sum.
LEMMA SumStays ==
  ASSUME NEW rows, NEW news,
         \A l \in Leases : /\ news[l].reservation = rows[l].reservation
                           /\ news[l].settled = rows[l].settled
  PROVE  LedgerSum(news) = LedgerSum(rows)
<1> DEFINE f == [l \in Leases |-> rows[l].reservation]
           h == [l \in Leases |-> news[l].reservation]
<1>1. f = h
  OBVIOUS
<1>2. {l \in Leases : ~rows[l].settled} = {l \in Leases : ~news[l].settled}
  OBVIOUS
<1> HIDE DEF f, h
<1> QED BY <1>1, <1>2, LedgerIsTotal DEF f, h

\* A row that is settled is taken out of the sum, which is natural and held it all.
LEMMA SumSettles ==
  ASSUME NEW rows \in [Leases -> LeaseRows], NEW news, NEW l \in Leases,
         \A k \in Leases : k # l => news[k] = rows[k],
         rows[l].settled = FALSE, news[l].settled = TRUE
  PROVE  /\ LedgerSum(news) \in Nat
         /\ LedgerSum(rows) = rows[l].reservation + LedgerSum(news)
<1> DEFINE f == [k \in Leases |-> rows[k].reservation]
           h == [k \in Leases |-> news[k].reservation]
           U == {k \in Leases : ~rows[k].settled}
           V == {k \in Leases : ~news[k].settled}
<1>1. V = U \ {l} /\ l \in U /\ U \in SUBSET Leases
  OBVIOUS
<1>2. IsFiniteSet(U) /\ IsFiniteSet(V)
  BY <1>1, LeasesAreFinite
<1>3. \A k \in U : f[k] \in Nat
  BY DEF LeaseRows
<1>4. \A k \in V : h[k] = f[k]
  BY <1>1
<1>5. \A k \in V : f[k] \in Nat
  BY <1>1, <1>3
<1>6. f[l] = rows[l].reservation
  OBVIOUS
<1>7. LedgerSum(rows) = Total(f, U) /\ LedgerSum(news) = Total(h, V)
  BY LedgerIsTotal
<1> HIDE DEF f, h, U, V
<1>8. Total(f, U) = f[l] + Total(f, V)
  BY <1>1, <1>2, <1>3, TotalRemove
<1>9. Total(f, V) \in Nat
  BY <1>2, <1>5, TotalRemove
<1>10. Total(h, V) = Total(f, V)
  BY <1>2, <1>4, TotalSame
<1> QED BY <1>6, <1>7, <1>8, <1>9, <1>10

\* A row that reserved nothing and reserves some now adds that to the sum.
LEMMA SumReserves ==
  ASSUME NEW rows \in [Leases -> LeaseRows], NEW news \in [Leases -> LeaseRows],
         NEW l \in Leases,
         \A k \in Leases : k # l => news[k] = rows[k],
         rows[l].settled = FALSE, rows[l].reservation = 0, news[l].settled = FALSE
  PROVE  LedgerSum(news) = LedgerSum(rows) + news[l].reservation
<1> DEFINE last == [news EXCEPT ![l].settled = TRUE]
<1>1. \A k \in Leases : k # l => last[k] = news[k]
  OBVIOUS
<1>2. last[l].settled = TRUE
  BY DEF LeaseRows
<1>3. \A k \in Leases : k # l => last[k] = rows[k]
  BY <1>1
<1> HIDE DEF last
<1>4. LedgerSum(last) \in Nat /\ LedgerSum(news) = news[l].reservation + LedgerSum(last)
  BY <1>1, <1>2, SumSettles
<1>5. LedgerSum(rows) = rows[l].reservation + LedgerSum(last)
  BY <1>2, <1>3, SumSettles
<1>6. news[l].reservation \in Nat
  BY DEF LeaseRows
<1> QED BY <1>4, <1>5, <1>6

\* ReservationLedger in terms of LedgerSum.
LEMMA LedgerInv == ReservationLedger <=> ledger.reserved = LedgerSum(lease)
BY DEF ReservationLedger, LedgerSum, MapThenSumSet, MapThenFoldSet

LEMMA LedgerInvNext == ReservationLedger' <=> ledger'.reserved = LedgerSum(lease')
BY DEF ReservationLedger, LedgerSum, MapThenSumSet, MapThenFoldSet

\* A row that is settled takes its reservation out of the ledger, and adds its charge.
LEMMA LedgerSettles ==
  ASSUME CInv, ReservationLedger, TypeOK', NEW l \in Leases, NEW r,
         \A k \in Leases : k # l => lease'[k] = lease[k],
         lease[l].settled = FALSE, lease'[l].settled = TRUE,
         r.settled = FALSE, r.reservation = lease[l].reservation,
         ledger' = Settled(r)
  PROVE  /\ ReservationLedger'
         /\ ledger'.spent = ledger.spent + Charge(r)
<1>1. lease \in [Leases -> LeaseRows] /\ ledger.reserved \in Nat
  BY DEF CInv, TypeOK
<1>2. LedgerSum(lease') \in Nat /\ LedgerSum(lease) = lease[l].reservation + LedgerSum(lease')
  BY <1>1, SumSettles
<1>3. ledger.reserved = LedgerSum(lease)
  BY LedgerInv
<1>4. lease[l].reservation \in Nat
  BY <1>1 DEF LeaseRows
<1> HIDE DEF Charge
<1>5. /\ ledger'.reserved = Greatest(0, ledger.reserved - lease[l].reservation)
      /\ ledger'.spent = ledger.spent + Charge(r)
  BY DEF Settled
<1>6. ledger'.reserved = LedgerSum(lease')
  BY <1>1, <1>2, <1>3, <1>4, <1>5 DEF Greatest
<1> QED BY <1>5, <1>6, LedgerInvNext

\* What was not reported in full is charged at the reservation or more, unless the
\* lease was never accepted.
LEMMA ChargeIsEnough ==
  ASSUME NEW r, r.usage \in UsageRows, r.reservation \in Nat, ~Known(r.usage), r.state # "offered"
  PROVE  Charge(r) \in Nat /\ Charge(r) >= r.reservation
<1>1. Observed(r.usage) \in Nat
  BY DEF Observed, UsageRows, Unknown
<1> QED BY <1>1 DEF Charge, Greatest
-----------------------------------------------------------------------------
(* What each kind of step does *)

RowInv ==
  UnbornRows /\ Unsettled /\ ReservationLedger /\ Windows /\ Approved /\ Queued

\* The steps that NoEarlyHandover and UnknownIsNotFree allow.
HandsOverLate ==
  \A l \in Leases : lease[l].state # "reassigned" /\ lease'[l].state = "reassigned" =>
    lease[l].age >= StaleAfter + RecoveryWindow
ChargesUnknown ==
  \A l \in Leases :
    /\ lease[l].state \in Active \ {"offered"}
    /\ ~lease[l].settled /\ lease'[l].settled
    /\ ~Known(lease'[l].usage)
    => ledger'.spent >= ledger.spent + lease[l].reservation

RowsKept == RowInv' /\ (Shown => FirstRound') /\ HandsOverLate /\ ChargesUnknown

LEMMA ContinuingRows ==
  ASSUME CInv, Core, TypeOK', Continuing
  PROVE  RowsKept
<1>1. \A l \in Leases : Continues(lease[l], lease'[l])
  BY DEF Continuing
<1>2. UNCHANGED <<ledger, job>>
  BY DEF Continuing
<1>3. "none" \notin Active /\ "reassigned" \notin Active
  BY DEF Active
<1>4. UnbornRows' /\ Unsettled' /\ (Shown => FirstRound')
  BY <1>1, <1>3 DEF Core, UnbornRows, Unsettled, Shown, FirstRound, Continues
<1>5. ReservationLedger'
  <2>1. LedgerSum(lease') = LedgerSum(lease)
    BY <1>1, SumStays DEF Continues
  <2> QED BY <2>1, <1>2, LedgerInv, LedgerInvNext DEF Core
<1>6. Windows'
  BY <1>1 DEF Core, Windows, Continues
<1>7. Approved' /\ Queued'
  <2>1. \A l \in Leases :
          /\ lease'[l].reviewed = lease[l].reviewed
          /\ lease[l].reviewed => /\ lease'[l].sha = lease[l].sha
                                  /\ lease'[l].approved = lease[l].approved
                                  /\ lease'[l].maintainer = lease[l].maintainer
    BY <1>1 DEF Continues
  <2> QED BY <2>1, <1>2 DEF Core, Approved, ApprovalOK, Queued
<1>8. HandsOverLate
  BY <1>1, <1>3 DEF HandsOverLate, Continues
<1>9. ChargesUnknown
  BY <1>1 DEF ChargesUnknown, Continues
<1> QED BY <1>4, <1>5, <1>6, <1>7, <1>8, <1>9 DEF RowsKept, RowInv

LEMMA CompletingRows ==
  ASSUME CInv, Core, TypeOK', NEW l \in Leases, NEW v \in Versions, NEW usage \in Usages,
         Complete(l, v, usage)
  PROVE  RowsKept
<1>1. /\ \A k \in Leases : k # l => lease'[k] = lease[k]
      /\ lease[l].state = "running" /\ lease[l].settled = FALSE
      /\ lease'[l].state = "awaiting_review" /\ lease'[l].settled = TRUE
      /\ lease'[l].reviewed = TRUE /\ lease'[l].kind = lease[l].kind
      /\ lease'[l].reservation = lease[l].reservation
      /\ lease'[l].sha = v /\ lease'[l].usage = usage
      /\ lease'[l].approved = NoVersion /\ lease'[l].maintainer = NoVersion
  BY CompletingRow DEF Core
<1>2. job' = job
  BY DEF Complete
<1>3. UnbornRows' /\ Unsettled' /\ (Shown => FirstRound') /\ Windows'
  BY <1>1 DEF Core, UnbornRows, Unsettled, Shown, FirstRound, Windows, WindowOK
<1>4. Approved'
  <2>1. v # NoVersion
    BY DEF Versions, NoVersion
  <2> QED BY <2>1, <1>1 DEF Core, Approved, ApprovalOK
<1>5. Queued'
  <2>1. lease[l].reviewed = FALSE
    <3>1. RowOK(lease[l]) /\ lease[l].reviewed \in BOOLEAN
      BY DEF CInv, Safe, RowsOK, TypeOK, LeaseRows
    <3> QED BY <1>1, <3>1 DEF RowOK
  <2> QED BY <2>1, <1>1, <1>2 DEF Core, Queued
<1>6. ReservationLedger' /\ ChargesUnknown
  <2>1. PICK r : r = [lease[l] EXCEPT !.sha = v, !.usage = usage, !.reviewed = TRUE,
                        !.approved = NoVersion, !.maintainer = NoVersion,
                        !.state = "awaiting_review", !.age = 0]
    OBVIOUS
  <2>2. lease[l] \in LeaseRows
    BY DEF CInv, TypeOK
  <2>3. /\ r.settled = FALSE /\ r.reservation = lease[l].reservation /\ r.usage = usage
        /\ r.state = "awaiting_review" /\ r.reservation \in Nat
    BY <2>1, <2>2, <1>1 DEF LeaseRows
  <2>4. ledger' = Settled(r)
    BY <2>1 DEF Complete
  <2>5. ReservationLedger' /\ ledger'.spent = ledger.spent + Charge(r)
    BY <2>3, <2>4, <1>1, LedgerSettles DEF Core
  <2>6. usage \in UsageRows
    BY InputsAssumption
  <2>7. ~Known(usage) => Charge(r) \in Nat /\ Charge(r) >= r.reservation
    BY <2>3, <2>6, ChargeIsEnough
  <2>8. ledger.spent \in Nat
    BY DEF CInv, TypeOK
  <2>9. ~Known(usage) => ledger'.spent >= ledger.spent + lease[l].reservation
    BY <2>3, <2>5, <2>7, <2>8
  <2> QED BY <2>5, <2>9, <1>1 DEF ChargesUnknown
<1>7. HandsOverLate
  BY <1>1 DEF HandsOverLate
<1> QED BY <1>3, <1>4, <1>5, <1>6, <1>7 DEF RowsKept, RowInv

LEMMA ApprovingRows ==
  ASSUME CInv, Core, TypeOK', NEW u \in Users, NEW l \in Leases, NEW v \in Versions,
         Approve(u, l, v)
  PROVE  RowsKept
<1>1. /\ \A k \in Leases : k # l => lease'[k] = lease[k]
      /\ lease[l].state = "awaiting_review" /\ lease[l].reviewed = TRUE
      /\ lease'[l].state \in {"publishing", "awaiting_review"}
      /\ lease'[l].settled = lease[l].settled
      /\ lease'[l].reviewed = TRUE /\ lease'[l].kind = lease[l].kind
      /\ lease'[l].reservation = lease[l].reservation
      /\ lease'[l].sha = lease[l].sha /\ v = lease[l].sha
      /\ lease'[l].approved \in {lease[l].approved, v}
      /\ lease'[l].maintainer \in {lease[l].maintainer, v}
  BY ApprovingRow
<1>2. /\ ledger' = ledger
      /\ \/ job' = job
         \/ job[l].state = "none" /\ job' = [job EXCEPT ![l] = [state |-> "pending", sha |-> v]]
  BY DEF Approve
<1>3. UnbornRows' /\ Unsettled' /\ (Shown => FirstRound') /\ Windows'
  BY <1>1 DEF Core, UnbornRows, Unsettled, Shown, FirstRound, Windows, WindowOK
<1>4. Approved'
  BY <1>1 DEF Core, Approved, ApprovalOK
<1>5. Queued'
  <2>1. \A k \in Leases : lease'[k].sha = lease[k].sha /\ (lease[k].reviewed => lease'[k].reviewed)
    BY <1>1
  <2>2. CASE job' = job
    BY <2>1, <2>2 DEF Core, Queued
  <2>3. CASE job' = [job EXCEPT ![l] = [state |-> "pending", sha |-> v]]
    <3>1. DOMAIN job = Leases
      BY DEF CInv, TypeOK
    <3>2. job'[l].sha = v /\ \A k \in Leases : k # l => job'[k] = job[k]
      BY <2>3, <3>1
    <3> QED BY <3>2, <2>1, <1>1 DEF Core, Queued
  <2> QED BY <1>2, <2>2, <2>3
<1>6. ReservationLedger'
  <2>1. LedgerSum(lease') = LedgerSum(lease)
    BY <1>1, SumStays
  <2> QED BY <2>1, <1>2, LedgerInv, LedgerInvNext DEF Core
<1>7. HandsOverLate /\ ChargesUnknown
  BY <1>1 DEF HandsOverLate, ChargesUnknown
<1> QED BY <1>3, <1>4, <1>5, <1>6, <1>7 DEF RowsKept, RowInv

LEMMA EndingRows ==
  ASSUME CInv, Core, TypeOK', NEW l \in Leases, NEW terminal \in Terminals,
         Ending(l, terminal)
  PROVE  RowsKept
<1>1. /\ \A k \in Leases : k # l => lease'[k] = lease[k]
      /\ lease'[l].state = terminal /\ terminal \notin Active /\ terminal # "none"
      /\ lease'[l].settled = TRUE
      /\ lease'[l].reviewed = lease[l].reviewed /\ lease'[l].kind = lease[l].kind
      /\ lease'[l].reservation = lease[l].reservation
      /\ lease'[l].sha = lease[l].sha /\ lease'[l].usage = lease[l].usage
      /\ lease'[l].approved = lease[l].approved
      /\ lease'[l].maintainer = lease[l].maintainer
  BY EndingRow DEF Ending
<1>2. /\ job' = job /\ ledger' = Settled(lease[l])
      /\ terminal = "reassigned" => RecoveryExpired(l)
  BY DEF Ending, EndLease
<1>3. UnbornRows' /\ Unsettled' /\ (Shown => FirstRound') /\ Windows'
  BY <1>1 DEF Core, UnbornRows, Unsettled, Shown, FirstRound, Windows, WindowOK, Active
<1>4. Approved'
  BY <1>1 DEF Core, Approved, ApprovalOK
<1>5. Queued'
  BY <1>1, <1>2 DEF Core, Queued
<1>6. HandsOverLate
  <2>1. ASSUME terminal = "reassigned" PROVE lease[l].age >= StaleAfter + RecoveryWindow
    <3>1. WindowOK(lease[l]) /\ lease[l].age \in Nat
      BY BoundsAssumption DEF Core, Windows, CInv, TypeOK, LeaseRows
    <3> QED BY <3>1, <2>1, <1>2 DEF WindowOK, RecoveryExpired, MaxAge
  <2> QED BY <2>1, <1>1 DEF HandsOverLate
<1>7. CASE lease[l].settled = TRUE
  <2>1. ledger' = ledger
    BY <1>2, <1>7 DEF Settled
  <2>2. LedgerSum(lease') = LedgerSum(lease)
    <3>1. \A k \in Leases : /\ lease'[k].reservation = lease[k].reservation
                            /\ lease'[k].settled = lease[k].settled
      BY <1>1, <1>7
    <3> QED BY <3>1, SumStays
  <2>3. ReservationLedger'
    BY <2>1, <2>2, LedgerInv, LedgerInvNext DEF Core
  <2>4. ChargesUnknown
    BY <1>1, <1>7 DEF ChargesUnknown
  <2> QED BY <2>3, <2>4, <1>3, <1>4, <1>5, <1>6 DEF RowsKept, RowInv
<1>8. CASE lease[l].settled = FALSE
  <2>1. ReservationLedger' /\ ledger'.spent = ledger.spent + Charge(lease[l])
    <3>1. lease[l].reservation = lease[l].reservation
      OBVIOUS
    <3> QED BY <3>1, <1>1, <1>2, <1>8, LedgerSettles DEF Core
  <2>2. lease[l].usage \in UsageRows /\ lease[l].reservation \in Nat /\ ledger.spent \in Nat
    BY DEF CInv, TypeOK, LeaseRows
  <2>3. ~Known(lease[l].usage) /\ lease[l].state # "offered" =>
          ledger'.spent >= ledger.spent + lease[l].reservation
    BY <2>1, <2>2, ChargeIsEnough
  <2>4. ChargesUnknown
    BY <2>3, <1>1 DEF ChargesUnknown
  <2> QED BY <2>1, <2>4, <1>3, <1>4, <1>5, <1>6 DEF RowsKept, RowInv
<1> QED BY <1>7, <1>8 DEF CInv, TypeOK, LeaseRows

\* No work has a revision requested: FirstRound is about a coordinator that has not
\* submitted anything yet.
LEMMA NoRevisions ==
  ASSUME WorkShowsLease, NEW w \in Works
  PROVE  work[w].state # "revision_requested"
BY DEF WorkShowsLease

LEMMA StartingRows ==
  ASSUME CInv, Core, TypeOK', NEW l \in Leases, NEW d \in Devices, NEW w \in Works,
         Starting(l, d, w)
  PROVE  RowsKept
<1>1. Shown => work[w].state = "queued"
  BY NoRevisions DEF Shown, Starting, Grant
<1>2. /\ \A k \in Leases : k # l => lease'[k] = lease[k]
      /\ lease'[l].state \in {"offered", "running"}
      /\ lease'[l].settled = FALSE /\ lease'[l].reviewed = FALSE
      /\ lease'[l].reservation = Amount(d)
      /\ Shown => lease'[l].kind = "initial"
      /\ ledger'.reserved = ledger.reserved + Amount(d) /\ ledger'.spent = ledger.spent
  BY <1>1, StartingRow DEF Starting
<1>3. job' = job /\ lease[l].state = "none"
  BY DEF Starting
<1>4. lease[l].reviewed = FALSE
  <2>1. RowOK(lease[l]) /\ lease[l].reviewed \in BOOLEAN
    BY DEF CInv, Safe, RowsOK, TypeOK, LeaseRows
  <2> QED BY <1>3, <2>1 DEF RowOK
<1>5. UnbornRows' /\ Unsettled' /\ (Shown => FirstRound') /\ Windows'
  BY <1>2 DEF Core, UnbornRows, Unsettled, Shown, FirstRound, Windows, WindowOK
<1>6. Approved' /\ Queued'
  BY <1>2, <1>3, <1>4 DEF Core, Approved, ApprovalOK, Queued
<1>7. HandsOverLate /\ ChargesUnknown
  BY <1>2 DEF HandsOverLate, ChargesUnknown
<1>8. ReservationLedger'
  <2>1. lease[l].settled = FALSE /\ lease[l].reservation = 0
    BY <1>3 DEF Core, UnbornRows, CInv, TypeOK, LeaseRows
  <2>2. lease \in [Leases -> LeaseRows] /\ lease' \in [Leases -> LeaseRows]
    BY DEF CInv, TypeOK
  <2>3. LedgerSum(lease') = LedgerSum(lease) + lease'[l].reservation
    BY <2>1, <2>2, <1>2, SumReserves
  <2> HIDE DEF Amount
  <2> QED BY <2>3, <1>2, LedgerInv, LedgerInvNext DEF Core
<1> QED BY <1>5, <1>6, <1>7, <1>8 DEF RowsKept, RowInv

LEMMA KindsKeepRows ==
  ASSUME CInv, Core, TypeOK', Kinds
  PROVE  RowsKept
BY ContinuingRows, CompletingRows, ApprovingRows, EndingRows, StartingRows DEF Kinds
-----------------------------------------------------------------------------
(* Authority and approval *)

\* A step that changes nobody's authority keeps what runs authorised, if it starts
\* only what it found eligible, and takes out of the transaction only what it ends.
LEMMA AuthorityStays ==
  ASSUME CInv, RunningIsAuthorised, UNCHANGED <<project, member, device>>,
         \A l \in Leases : l \notin txn'.leases /\ lease'[l].state \in Active =>
           \/ /\ l \notin txn.leases /\ lease[l].state \in Active
              /\ lease'[l].device = lease[l].device
              /\ lease'[l].state = "running" => lease[l].state = "running"
           \/ \E w \in Works : Eligible(lease'[l].device, w)
  PROVE  RunningIsAuthorised'
<1> SUFFICES ASSUME NEW l \in Leases, l \notin txn'.leases, lease'[l].state \in Active
             PROVE  /\ project.active
                    /\ member[UserOf[lease'[l].device]].role \in Roles
                    /\ Admits(project.policy.access, member[UserOf[lease'[l].device]])
                    /\ lease'[l].state = "running" => device[lease'[l].device].enabled
  BY DEF RunningIsAuthorised, Holder
<1>1. CASE /\ l \notin txn.leases /\ lease[l].state \in Active
           /\ lease'[l].device = lease[l].device
           /\ lease'[l].state = "running" => lease[l].state = "running"
  BY <1>1 DEF RunningIsAuthorised, Holder
<1>2. CASE \E w \in Works : Eligible(lease'[l].device, w)
  BY <1>2 DEF Eligible, EligibleAs
<1> QED BY <1>1, <1>2

\* The approval that lets a lease be published queues the reviewed commit.
LEMMA QueuedWhenApproved ==
  ASSUME CInv, Core, NEW u \in Users, NEW l \in Leases, NEW v \in Versions, Approve(u, l, v)
  PROVE  /\ lease'[l].state = "publishing" =>
              /\ lease'[l].reviewed
              /\ lease'[l].approved = lease'[l].sha
              /\ project.policy.requireMaintainer => lease'[l].maintainer = lease'[l].sha
              /\ job'[l].state # "none" /\ job'[l].sha = lease'[l].sha
         /\ \A k \in Leases : k # l => lease'[k] = lease[k] /\ job'[k] = job[k]
<1>0. PICK r : r = Approvals(u, l, v)
  OBVIOUS
<1>1. /\ \A k \in Leases : k # l => lease'[k] = lease[k]
      /\ lease'[l].state = "publishing" <=> FullyApproved(r)
      /\ lease[l].reviewed = TRUE /\ lease'[l].reviewed = TRUE
      /\ lease'[l].sha = lease[l].sha /\ v = lease[l].sha
      /\ lease'[l].approved = r.approved /\ lease'[l].maintainer = r.maintainer
      /\ r.approved \in {lease[l].approved, v}
      /\ r.maintainer \in {lease[l].maintainer, v}
  BY <1>0, ApprovingRow
<1>2. /\ FullyApproved(r) =>
           job' = IF job[l].state = "none"
                  THEN [job EXCEPT ![l] = [state |-> "pending", sha |-> v]] ELSE job
      /\ ~FullyApproved(r) => job' = job
  BY <1>0 DEF Approve
<1>3. FullyApproved(r) =>
        /\ r.approved # NoVersion
        /\ project.policy.requireMaintainer => r.maintainer # NoVersion
  BY DEF FullyApproved
<1>4. /\ lease[l].approved \in {NoVersion, lease[l].sha}
      /\ lease[l].maintainer \in {NoVersion, lease[l].sha}
      /\ job[l].state # "none" => job[l].sha = lease[l].sha
  BY <1>1 DEF Core, Approved, ApprovalOK, Queued
<1>5. job \in [Leases -> [state : JobStates, sha : 0..MaxVersion]]
  BY DEF CInv, TypeOK
<1>6. \A k \in Leases : k # l => job'[k] = job[k]
  BY <1>2, <1>5
<1>7. FullyApproved(r) => job'[l].state # "none" /\ job'[l].sha = v
  <2>1. CASE job[l].state = "none" /\ FullyApproved(r)
    <3>1. job'[l] = [state |-> "pending", sha |-> v]
      BY <2>1, <1>2, <1>5
    <3> QED BY <3>1
  <2>2. CASE job[l].state # "none" /\ FullyApproved(r)
    BY <2>2, <1>1, <1>2, <1>4
  <2> QED BY <2>1, <2>2
<1> QED BY <1>1, <1>3, <1>4, <1>6, <1>7

\* A publication is approved when it is queued, and as long as the policy does not
\* change it stays approved.
LEMMA ApprovalStays ==
  ASSUME CInv, Core, Kinds, project'.policy = project.policy,
         \A l \in Leases : l \notin txn'.leases => l \notin txn.leases \/ lease'[l].state \notin Active
  PROVE  PublishingIsApproved'
<1> SUFFICES ASSUME NEW l \in Leases, l \notin txn'.leases, lease'[l].state = "publishing"
             PROVE  /\ lease'[l].reviewed
                    /\ lease'[l].approved = lease'[l].sha
                    /\ project.policy.requireMaintainer => lease'[l].maintainer = lease'[l].sha
                    /\ job'[l].state # "none" /\ job'[l].sha = lease'[l].sha
  BY DEF PublishingIsApproved
<1>0. l \notin txn.leases
  BY DEF Active
<1>1. lease[l].state = "publishing" =>
        /\ lease[l].reviewed
        /\ lease[l].approved = lease[l].sha
        /\ project.policy.requireMaintainer => lease[l].maintainer = lease[l].sha
        /\ job[l].state # "none" /\ job[l].sha = lease[l].sha
  BY <1>0 DEF Core, PublishingIsApproved
<1>2. CASE Continuing
  <2>1. Continues(lease[l], lease'[l]) /\ job' = job
    BY <1>2 DEF Continuing
  <2>2. lease[l].state = "publishing"
    BY <2>1 DEF Continues
  <2> QED BY <1>1, <2>1, <2>2 DEF Continues
<1>3. CASE lease'[l] = lease[l] /\ job'[l] = job[l]
  BY <1>1, <1>3
<1>4. ASSUME NEW k \in Leases, NEW v \in Versions, NEW usage \in Usages, Complete(k, v, usage)
      PROVE  lease'[l] = lease[l] /\ job'[l] = job[l]
  <2>1. lease'[k].state = "awaiting_review" /\ (l # k => lease'[l] = lease[l]) /\ job' = job
    BY <1>4, CompletingRow DEF Core, Complete
  <2> QED BY <2>1
<1>5. ASSUME NEW k \in Leases, NEW terminal \in Terminals, Ending(k, terminal)
      PROVE  lease'[l] = lease[l] /\ job'[l] = job[l]
  <2>1. lease'[k].state \notin Active /\ (l # k => lease'[l] = lease[l]) /\ job' = job
    BY <1>5, EndingRow DEF Ending
  <2> QED BY <2>1 DEF Active
<1>6. ASSUME NEW k \in Leases, NEW d \in Devices, NEW w \in Works, Starting(k, d, w)
      PROVE  lease'[l] = lease[l] /\ job'[l] = job[l]
  <2>1. /\ lease'[k].state \in {"offered", "running"}
        /\ (l # k => lease'[l] = lease[l]) /\ job' = job
    BY <1>6, StartingRow DEF Starting
  <2> QED BY <2>1
<1>7. ASSUME NEW u \in Users, NEW k \in Leases, NEW v \in Versions, Approve(u, k, v)
      PROVE  l = k \/ (lease'[l] = lease[l] /\ job'[l] = job[l])
  BY <1>7, QueuedWhenApproved
<1>8. ASSUME NEW u \in Users, NEW v \in Versions, Approve(u, l, v)
      PROVE  /\ lease'[l].reviewed
             /\ lease'[l].approved = lease'[l].sha
             /\ project.policy.requireMaintainer => lease'[l].maintainer = lease'[l].sha
             /\ job'[l].state # "none" /\ job'[l].sha = lease'[l].sha
  BY <1>8, QueuedWhenApproved
<1> QED BY <1>2, <1>3, <1>4, <1>5, <1>6, <1>7, <1>8 DEF Kinds

\* A step in which every lease goes on.
LEMMA GoesOn ==
  ASSUME CInv, Core, Continuing, UNCHANGED <<project, member, device>>,
         txn.leases \subseteq txn'.leases,
         \A l \in Leases : lease'[l].state = "running" =>
           \/ lease[l].state = "running"
           \/ \E w \in Works : Eligible(lease[l].device, w)
  PROVE  Kinds /\ RunningIsAuthorised' /\ PublishingIsApproved'
<1>1. Kinds
  BY DEF Kinds
<1>2. \A l \in Leases : /\ lease'[l].device = lease[l].device
                        /\ lease'[l].state \in Active => lease[l].state \in Active
  BY DEF Continuing, Continues
<1>3. RunningIsAuthorised'
  BY <1>2, AuthorityStays DEF Core
<1>4. PublishingIsApproved'
  BY <1>1, ApprovalStays
<1> QED BY <1>1, <1>3, <1>4

\* A step that ends one lease.
LEMMA EndsOne ==
  ASSUME CInv, Core, NEW l \in Leases, NEW terminal \in Terminals, Ending(l, terminal),
         UNCHANGED <<project, member, device>>, txn.leases \ {l} \subseteq txn'.leases
  PROVE  Kinds /\ RunningIsAuthorised' /\ PublishingIsApproved'
<1>1. Kinds
  BY DEF Kinds
<1>2. lease'[l].state \notin Active /\ \A k \in Leases : k # l => lease'[k] = lease[k]
  BY EndingRow DEF Ending
<1>3. RunningIsAuthorised'
  BY <1>2, AuthorityStays DEF Core
<1>4. PublishingIsApproved'
  BY <1>1, <1>2, ApprovalStays
<1> QED BY <1>1, <1>3, <1>4

\* A step that allocates.
LEMMA StartsOne ==
  ASSUME CInv, Core, NEW d \in Devices, NEW w \in Works, Allocate(d, w),
         UNCHANGED <<project, member, device, job>>, txn.leases \subseteq txn'.leases
  PROVE  Kinds /\ RunningIsAuthorised' /\ PublishingIsApproved'
<1>1. PICK l \in Leases : lease[l].state = "none" /\ Grant(l, d, w)
  BY DEF Allocate, NextLease, Unborn
<1>2. Kinds
  BY <1>1 DEF Kinds, Starting
<1>3. lease'[l].device = d /\ \A k \in Leases : k # l => lease'[k] = lease[k]
  BY <1>1, StartingRow
<1>4. Eligible(d, w)
  BY DEF Allocate, CanAllocate
<1>5. RunningIsAuthorised'
  BY <1>3, <1>4, AuthorityStays DEF Core
<1>6. PublishingIsApproved'
  BY <1>2, ApprovalStays
<1> QED BY <1>2, <1>5, <1>6
-----------------------------------------------------------------------------
(* What is shown of an issue, and its checkpoint *)

\* The steps that CheckpointIsFenced allows.
Fenced ==
  \A w \in Works : work'[w].checkpoint # work[w].checkpoint =>
    \/ /\ work'[w].checkpoint[1] = work[w].active
       /\ work[w].active # NoLease
    \/ /\ work'[w].generation > work[w].generation
       /\ lease'[work'[w].active].kind = "revision"

SamePointers ==
  \A w \in Works : work'[w].state = work[w].state /\ work'[w].active = work[w].active

LEMMA ShownStays ==
  ASSUME CInv, WorkShowsLease, Continuing, SamePointers
  PROVE  WorkShowsLease'
<1> SUFFICES ASSUME NEW w \in Works
             PROVE  LET l == work'[w].active IN
               /\ l = NoLease <=>
                    work'[w].state \in {"none", "closed", "validation_pending", "queued"}
               /\ l # NoLease =>
                    /\ lease'[l].state \in Active
                    /\ work'[w].state = IF lease'[l].state = "publishing" THEN "publishing"
                                        ELSE IF lease'[l].reviewed THEN "review"
                                        ELSE "in_progress"
  BY DEF WorkShowsLease
<1>1. work'[w].active = work[w].active /\ work'[w].state = work[w].state
  BY DEF SamePointers
<1>2. work[w].active # NoLease => work[w].active \in Leases
  BY DEF CInv, TypeOK, WorkRows
<1>3. ASSUME NEW l \in Leases, lease[l].state \in Active
      PROVE  /\ lease'[l].state \in Active
             /\ lease'[l].state = "publishing" <=> lease[l].state = "publishing"
             /\ lease'[l].reviewed = lease[l].reviewed
  BY <1>3 DEF Continuing, Continues
<1> QED BY <1>1, <1>2, <1>3 DEF WorkShowsLease

LEMMA ShownAfterEnd ==
  ASSUME CInv, WorkShowsLease, NEW l \in Leases, NEW terminal \in Terminals,
         EndLease(l, terminal),
         \A w \in Works :
           \/ /\ work[w].active # l
              /\ work'[w].state = work[w].state /\ work'[w].active = work[w].active
           \/ /\ work'[w].active = NoLease
              /\ work'[w].state \in {"closed", "validation_pending", "queued"}
  PROVE  WorkShowsLease'
<1>1. \A k \in Leases : k # l => lease'[k] = lease[k]
  BY EndingRow
<1>2. \A w \in Works : work[w].active # NoLease => work[w].active \in Leases
  BY DEF CInv, TypeOK, WorkRows
<1> QED BY <1>1, <1>2 DEF WorkShowsLease

LEMMA ReleaseShows ==
  ASSUME CInv, Core, NEW l \in Leases, lease[l].state # "none", NEW terminal \in Terminals,
         NEW requeue \in BOOLEAN, Release(l, terminal, requeue)
  PROVE  (Shown => WorkShowsLease') /\ Fenced
<1>1. EndLease(l, terminal) /\ (Shown => WorkShowsLease)
  BY DEF Release, Shown
<1>2. \A v \in Works : work[v].active = l => v = lease[l].work
  <2>1. l # NoLease
    BY DEF Leases, NoLease
  <2> QED BY <2>1 DEF CInv, Safe, PointerKnown, Endable
<1>3. Shown => StateAfterRelease(l, requeue) \in {"validation_pending", "queued"}
  BY DEF StateAfterRelease, Shown, FirstRound
<1>4. CASE work[lease[l].work].active = l
  <2>1. work' = [work EXCEPT ![lease[l].work].active = NoLease,
                             ![lease[l].work].state = StateAfterRelease(l, requeue)]
    BY <1>4 DEF Release
  <2>2. work \in [Works -> WorkRows] /\ lease[l].work \in Works
    BY DEF CInv, TypeOK, Safe, Born
  <2> HIDE DEF StateAfterRelease
  <2>3. \A v \in Works : v # lease[l].work => work'[v] = work[v]
    BY <2>1, <2>2
  <2>4. work'[lease[l].work] =
          [work[lease[l].work] EXCEPT !.active = NoLease, !.state = StateAfterRelease(l, requeue)]
    BY <2>1, <2>2
  <2>5. /\ work'[lease[l].work].active = NoLease
        /\ work'[lease[l].work].state = StateAfterRelease(l, requeue)
        /\ work'[lease[l].work].checkpoint = work[lease[l].work].checkpoint
    BY <2>2, <2>4 DEF WorkRows
  <2>6. Fenced
    BY <2>3, <2>5 DEF Fenced
  <2>7. Shown => \A w \in Works :
           \/ /\ work[w].active # l
              /\ work'[w].state = work[w].state /\ work'[w].active = work[w].active
           \/ /\ work'[w].active = NoLease
              /\ work'[w].state \in {"closed", "validation_pending", "queued"}
    BY <1>2, <1>3, <2>3, <2>5
  <2> QED BY <1>1, <2>6, <2>7, ShownAfterEnd
<1>5. CASE work[lease[l].work].active # l
  <2>1. work' = work
    BY <1>5 DEF Release
  <2>2. Fenced
    BY <2>1 DEF Fenced
  <2>3. \A w \in Works :
           /\ work[w].active # l
           /\ work'[w].state = work[w].state /\ work'[w].active = work[w].active
    BY <1>2, <1>5, <2>1
  <2> QED BY <1>1, <2>2, <2>3, ShownAfterEnd
<1> QED BY <1>4, <1>5

LEMMA AllocateShows ==
  ASSUME CInv, Core, NEW d \in Devices, NEW w \in Works, Allocate(d, w)
  PROVE  (Shown => WorkShowsLease') /\ Fenced
<1>1. PICK l \in Leases : lease[l].state = "none" /\ Grant(l, d, w)
  BY DEF Allocate, NextLease, Unborn
<1>2. /\ \A k \in Leases : k # l => lease'[k] = lease[k]
      /\ lease'[l].state \in {"offered", "running"} /\ lease'[l].reviewed = FALSE
  BY <1>1, StartingRow
<1>3. work[w].state \in {"queued", "revision_requested"} /\ work[w].active = NoLease
  BY DEF Allocate, CanAllocate, Allocatable
<1>4. work \in [Works -> WorkRows]
  BY DEF CInv, TypeOK
<1>5. PICK c, row :
        /\ work' = [work EXCEPT ![w] = row]
        /\ row = [work[w] EXCEPT !.active = l, !.state = "in_progress", !.generation = @ + 1,
                                 !.checkpoint = c]
        /\ work[w].state = "queued" => c = work[w].checkpoint
  <2>1. CASE work[w].state = "queued"
    <3>1. work' = [work EXCEPT ![w] = [work[w] EXCEPT !.active = l, !.state = "in_progress",
                                                      !.generation = @ + 1]]
      BY <1>1, <1>4, <2>1 DEF Grant
    <3>2. [work[w] EXCEPT !.active = l, !.state = "in_progress", !.generation = @ + 1]
            = [work[w] EXCEPT !.active = l, !.state = "in_progress", !.generation = @ + 1,
                              !.checkpoint = work[w].checkpoint]
      BY <1>4 DEF WorkRows
    <3> QED BY <3>1, <3>2
  <2>2. CASE work[w].state = "revision_requested"
    <3>1. PICK k \in SubmissionsOf(w) :
            work' = [work EXCEPT ![w].active = l, ![w].state = "in_progress",
                                 ![w].generation = @ + 1, ![w].checkpoint = submission[k].head]
      BY <1>1, <2>2 DEF Grant
    <3>2. work' = [work EXCEPT ![w] = [work[w] EXCEPT !.active = l, !.state = "in_progress",
                                          !.generation = @ + 1, !.checkpoint = submission[k].head]]
      BY <1>4, <3>1
    <3> QED BY <2>2, <3>2
  <2> QED BY <1>3, <2>1, <2>2
<1>6. work'[w] = row /\ \A v \in Works : v # w => work'[v] = work[v]
  BY <1>4, <1>5
<1>7. work[w].generation \in Nat
  BY <1>4 DEF WorkRows
<1>8. /\ work'[w].active = l /\ work'[w].state = "in_progress"
      /\ work'[w].generation > work[w].generation
      /\ work'[w].checkpoint = c
  <2>1. /\ row.active = l /\ row.state = "in_progress"
        /\ row.generation = work[w].generation + 1 /\ row.checkpoint = c
    BY <1>4, <1>5 DEF WorkRows
  <2> QED BY <1>6, <1>7, <2>1
<1>9. \A v \in Works : work[v].active # NoLease =>
        work[v].active \in Leases /\ work[v].active # l
  <2> TAKE v \in Works
  <2>1. work[v].active # NoLease => work[v].active \in Leases
    BY <1>4 DEF WorkRows
  <2>2. work[v].active # NoLease => lease[work[v].active].state # "none"
    BY DEF CInv, Safe, PointerKnown, Endable, Active
  <2> QED BY <1>1, <2>1, <2>2
<1>10. Fenced
  <2>1. work[w].state # "queued" => lease'[l].kind = "revision"
    BY <1>1, StartingRow
  <2>2. work'[w].checkpoint # work[w].checkpoint =>
          work'[w].generation > work[w].generation /\ lease'[work'[w].active].kind = "revision"
    BY <1>5, <1>8, <2>1
  <2> QED BY <1>6, <2>2 DEF Fenced
<1>11. ASSUME Shown PROVE WorkShowsLease'
  <2> SUFFICES ASSUME NEW v \in Works
               PROVE  LET k == work'[v].active IN
                 /\ k = NoLease <=>
                      work'[v].state \in {"none", "closed", "validation_pending", "queued"}
                 /\ k # NoLease =>
                      /\ lease'[k].state \in Active
                      /\ work'[v].state = IF lease'[k].state = "publishing" THEN "publishing"
                                          ELSE IF lease'[k].reviewed THEN "review"
                                          ELSE "in_progress"
    BY DEF WorkShowsLease
  <2>1. CASE v = w
    BY <2>1, <1>2, <1>8 DEF Active, NoLease, Leases
  <2>2. CASE v # w
    BY <2>2, <1>2, <1>6, <1>9, <1>11 DEF Shown, WorkShowsLease
  <2> QED BY <2>1, <2>2
<1> QED BY <1>10, <1>11
-----------------------------------------------------------------------------
(* What every step does *)

Governed ==
  /\ Kinds /\ (Shown => WorkShowsLease') /\ TxnLeases' /\ Fenced
  /\ RunningIsAuthorised' /\ PublishingIsApproved'

\* A step in which every lease goes on, and every work keeps its state and pointer.
LEMMA GoesOnStep ==
  ASSUME CInv, Core, Continuing, SamePointers, Fenced, UNCHANGED <<project, member, device>>,
         TxnLeases', txn.leases \subseteq txn'.leases,
         \A l \in Leases : lease'[l].state = "running" =>
           \/ lease[l].state = "running"
           \/ \E w \in Works : Eligible(lease[l].device, w)
  PROVE  Governed
<1>1. Kinds /\ RunningIsAuthorised' /\ PublishingIsApproved'
  BY GoesOn
<1>2. (Shown => WorkShowsLease')
  BY ShownStays DEF Shown
<1> QED BY <1>1, <1>2 DEF Governed

\* A step that releases one lease.
LEMMA ReleasesOne ==
  ASSUME CInv, Core, NEW l \in Leases, lease[l].state # "none", NEW terminal \in Terminals,
         NEW requeue \in BOOLEAN, Release(l, terminal, requeue),
         terminal = "reassigned" => RecoveryExpired(l),
         UNCHANGED <<project, member, device, job>>,
         TxnLeases', txn.leases \ {l} \subseteq txn'.leases
  PROVE  Governed
<1>1. Ending(l, terminal)
  BY DEF Ending, Release
<1>2. Kinds /\ RunningIsAuthorised' /\ PublishingIsApproved'
  BY <1>1, EndsOne
<1>3. (Shown => WorkShowsLease') /\ Fenced
  BY ReleaseShows
<1> QED BY <1>2, <1>3 DEF Governed

\* A step that allocates a lease.
LEMMA AllocatesOne ==
  ASSUME CInv, Core, NEW d \in Devices, NEW w \in Works, Allocate(d, w),
         UNCHANGED <<project, member, device, job>>,
         TxnLeases', txn.leases \subseteq txn'.leases
  PROVE  Governed
BY StartsOne, AllocateShows DEF Governed

\* A step that changes no lease, nor whose it may be.
LEMMA NothingHappens ==
  ASSUME CInv, Core, UNCHANGED <<project, member, device, lease, work, ledger, job>>,
         TxnLeases', txn.leases \subseteq txn'.leases
  PROVE  Governed
<1>1. Continuing
  BY DEF Continuing, Continues
<1>2. SamePointers /\ Fenced
  BY DEF SamePointers, Fenced
<1> QED BY <1>1, <1>2, GoesOnStep

LEMMA ClosedLeases ==
  ASSUME txn' = Closed
  PROVE  TxnLeases' /\ txn'.leases = {}
BY DEF Closed, TxnLeases

\* A step on the row of one lease alone.
LEMMA OneGoesOn ==
  ASSUME CInv, Core, NEW l \in Leases, NEW q, lease' = [lease EXCEPT ![l] = q],
         Continues(lease[l], q), SamePointers, Fenced, txn = Closed, txn' = Closed,
         UNCHANGED <<project, member, device, ledger, job>>,
         q.state = "running" =>
           \/ lease[l].state = "running"
           \/ \E w \in Works : Eligible(lease[l].device, w)
  PROVE  Governed
<1>1. \A k \in Leases : lease'[k] = IF k = l THEN q ELSE lease[k]
  BY DEF CInv, TypeOK
<1>2. \A k \in Leases : Continues(lease[k], lease[k])
  BY DEF Continues
<1>3. Continuing
  BY <1>1, <1>2 DEF Continuing
<1>4. TxnLeases' /\ txn.leases \subseteq txn'.leases
  BY ClosedLeases
<1>5. \A k \in Leases : lease'[k].state = "running" =>
        \/ lease[k].state = "running"
        \/ \E w \in Works : Eligible(lease[k].device, w)
  BY <1>1
<1> QED BY <1>3, <1>4, <1>5, GoesOnStep
-----------------------------------------------------------------------------
(* Worker requests *)

\* What a running lease reports changes its row and its checkpoint alone.
LEMMA RunningRow ==
  ASSUME CInv, NEW l \in Leases, Fence(l)
  PROVE  /\ lease[l] \in LeaseRows /\ lease[l].state = "running" /\ lease[l].reviewed = FALSE
         /\ lease[l].work \in Works /\ work[lease[l].work].active = l
<1>1. lease[l] \in LeaseRows /\ RowOK(lease[l]) /\ lease[l].state = "running"
  BY DEF Fence, CInv, TypeOK, Safe, RowsOK
<1>2. lease[l].reviewed = FALSE
  BY <1>1 DEF RowOK, LeaseRows
<1>3. lease[l].work \in Works
  BY <1>1 DEF CInv, Safe, Born
<1> QED BY <1>1, <1>2, <1>3 DEF Fence

LEMMA HeartbeatGoverned ==
  ASSUME CInv, Core, NEW l \in Leases, NEW phase \in 0..LastPhase, Heartbeat(l, phase)
  PROVE  Governed
<1>1. lease[l] \in LeaseRows /\ lease[l].state = "running" /\ lease[l].reviewed = FALSE
  BY RunningRow DEF Heartbeat, Reports
<1>2. PICK q : q = [lease[l] EXCEPT !.phase = phase, !.age = 0]
  OBVIOUS
<1>3. lease' = [lease EXCEPT ![l] = q]
  BY <1>2 DEF Heartbeat, CInv, TypeOK
<1>4. Continues(lease[l], q) /\ q.state = lease[l].state
  BY <1>1, <1>2 DEF Continues, LeaseRows, WindowOK
<1>5. SamePointers /\ Fenced /\ UNCHANGED <<project, member, device, ledger, job>>
  BY DEF Heartbeat, peopleVars, SamePointers, Fenced
<1>6. txn = Closed /\ txn' = Closed
  BY DEF Heartbeat, Reports
<1> QED BY <1>1, <1>3, <1>4, <1>5, <1>6, OneGoesOn

LEMMA HeartbeatWithUsageGoverned ==
  ASSUME CInv, Core, NEW l \in Leases, NEW phase \in 0..LastPhase, NEW usage \in Usages,
         HeartbeatWithUsage(l, phase, usage)
  PROVE  Governed
<1>1. lease[l] \in LeaseRows /\ lease[l].state = "running" /\ lease[l].reviewed = FALSE
  BY RunningRow DEF HeartbeatWithUsage, Reports
<1>2. PICK state : state = IF Observed(usage) >= lease[l].reservation THEN "blocked" ELSE "running"
  OBVIOUS
<1>3. PICK q : q = [lease[l] EXCEPT !.phase = phase, !.age = 0, !.usage = usage, !.state = state]
  OBVIOUS
<1>4. lease' = [lease EXCEPT ![l] = q]
  BY <1>1, <1>2, <1>3 DEF HeartbeatWithUsage, CInv, TypeOK
<1>5. state \in {"running", "blocked"}
  BY <1>2
<1>6. Continues(lease[l], q)
  BY <1>1, <1>3, <1>5 DEF Continues, LeaseRows, WindowOK, Active
<1>7. SamePointers /\ Fenced /\ UNCHANGED <<project, member, device, ledger, job>>
  BY DEF HeartbeatWithUsage, peopleVars, SamePointers, Fenced
<1>8. txn = Closed /\ txn' = Closed
  BY DEF HeartbeatWithUsage, Reports
<1> QED BY <1>1, <1>4, <1>6, <1>7, <1>8, OneGoesOn

LEMMA CheckpointGoverned ==
  ASSUME CInv, Core, NEW l \in Leases, NEW v \in Versions, Checkpoint(l, v)
  PROVE  Governed
<1>1. /\ lease[l] \in LeaseRows /\ lease[l].state = "running" /\ lease[l].reviewed = FALSE
      /\ lease[l].work \in Works /\ work[lease[l].work].active = l
  BY RunningRow DEF Checkpoint
<1>2. PICK q : q = [lease[l] EXCEPT !.sha = v, !.age = 0]
  OBVIOUS
<1>3. lease' = [lease EXCEPT ![l] = q]
  BY <1>2 DEF Checkpoint, CInv, TypeOK
<1>4. Continues(lease[l], q) /\ q.state = lease[l].state
  BY <1>1, <1>2 DEF Continues, LeaseRows, WindowOK
<1>5. SamePointers /\ Fenced
  <2>1. work \in [Works -> WorkRows]
    BY DEF CInv, TypeOK
  <2>2. PICK row : row = [work[lease[l].work] EXCEPT !.checkpoint = <<l, v>>]
    OBVIOUS
  <2>3. work' = [work EXCEPT ![lease[l].work] = row]
    BY <2>1, <2>2 DEF Checkpoint
  <2>4. /\ row.state = work[lease[l].work].state /\ row.active = work[lease[l].work].active
        /\ row.checkpoint = <<l, v>>
    BY <2>1, <2>2, <1>1 DEF WorkRows
  <2>5. \A w \in Works : work'[w] = IF w = lease[l].work THEN row ELSE work[w]
    BY <2>1, <2>3
  <2>6. l # NoLease
    BY DEF Leases, NoLease
  <2> QED BY <1>1, <2>4, <2>5, <2>6 DEF SamePointers, Fenced
<1>6. txn = Closed /\ txn' = Closed /\ UNCHANGED <<project, member, device, ledger, job>>
  BY DEF Checkpoint, peopleVars
<1> QED BY <1>1, <1>3, <1>4, <1>5, <1>6, OneGoesOn

LEMMA BlockGoverned ==
  ASSUME CInv, Core, NEW l \in Leases, Block(l)
  PROVE  Governed
<1>1. lease[l] \in LeaseRows /\ lease[l].state = "running" /\ lease[l].reviewed = FALSE
  BY RunningRow DEF Block
<1>2. PICK q : q = [lease[l] EXCEPT !.state = "blocked", !.age = 0]
  OBVIOUS
<1>3. lease' = [lease EXCEPT ![l] = q]
  BY <1>2 DEF Block, CInv, TypeOK
<1>4. Continues(lease[l], q) /\ q.state # "running"
  BY <1>1, <1>2 DEF Continues, LeaseRows, WindowOK, Active
<1>5. SamePointers /\ Fenced /\ UNCHANGED <<project, member, device, ledger, job>>
  BY DEF Block, peopleVars, SamePointers, Fenced
<1>6. txn = Closed /\ txn' = Closed
  BY DEF Block
<1> QED BY <1>3, <1>4, <1>5, <1>6, OneGoesOn

\* The final report moves the lease and its work to review together.
LEMMA CompleteGoverned ==
  ASSUME CInv, Core, NEW l \in Leases, NEW v \in Versions, NEW usage \in Usages,
         Complete(l, v, usage)
  PROVE  Governed
<1>0. Fence(l) /\ l # NoLease
  BY DEF Complete, Leases, NoLease
<1>1. lease[l].work \in Works /\ work[lease[l].work].active = l /\ l # NoLease
  BY <1>0, RunningRow
<1>2. /\ \A k \in Leases : k # l => lease'[k] = lease[k]
      /\ lease[l].state = "running" /\ lease'[l].device = lease[l].device
      /\ lease'[l].state = "awaiting_review" /\ lease'[l].reviewed = TRUE
  BY CompletingRow DEF Core
<1>3. txn = Closed /\ txn' = Closed /\ UNCHANGED <<project, member, device>>
  BY DEF Complete, peopleVars
<1>4. TxnLeases' /\ txn.leases = {} /\ txn'.leases = {}
  BY <1>3 DEF Closed, TxnLeases
<1>5. work \in [Works -> WorkRows]
  BY DEF CInv, TypeOK
<1>6. PICK row : row = [work[lease[l].work] EXCEPT !.checkpoint = <<l, v>>, !.state = "review"]
  OBVIOUS
<1>7. work' = [work EXCEPT ![lease[l].work] = row]
  BY <1>5, <1>6 DEF Complete
<1>8. row.state = "review" /\ row.active = l /\ row.checkpoint = <<l, v>>
  BY <1>1, <1>5, <1>6 DEF WorkRows
<1>9. \A w \in Works : work'[w] = IF w = lease[l].work THEN row ELSE work[w]
  BY <1>5, <1>7
<1>10. Kinds
  BY DEF Kinds
<1>11. RunningIsAuthorised'
  <2>1. lease[l].state \in Active /\ lease'[l].state # "running"
    BY <1>2 DEF Active
  <2> QED BY <1>2, <1>3, <1>4, <2>1, AuthorityStays DEF Core
<1>12. PublishingIsApproved'
  BY <1>3, <1>4, <1>10, ApprovalStays
<1>13. Fenced
  BY <1>1, <1>8, <1>9 DEF Fenced
<1>14. ASSUME Shown PROVE WorkShowsLease'
  <2>1. \A w \in Works : work[w].active # NoLease => work[w].active \in Leases
    BY <1>5 DEF WorkRows
  <2>2. \A w \in Works : work[w].active = l => w = lease[l].work
    BY <1>1 DEF CInv, Safe, PointerKnown, Endable
  <2> SUFFICES ASSUME NEW w \in Works
               PROVE  LET k == work'[w].active IN
                 /\ k = NoLease <=>
                      work'[w].state \in {"none", "closed", "validation_pending", "queued"}
                 /\ k # NoLease =>
                      /\ lease'[k].state \in Active
                      /\ work'[w].state = IF lease'[k].state = "publishing" THEN "publishing"
                                          ELSE IF lease'[k].reviewed THEN "review"
                                          ELSE "in_progress"
    BY DEF WorkShowsLease
  <2>3. CASE w = lease[l].work
    BY <2>3, <1>1, <1>2, <1>8, <1>9 DEF Active
  <2>4. CASE w # lease[l].work
    BY <2>1, <2>2, <2>4, <1>2, <1>9, <1>14 DEF Shown, WorkShowsLease
  <2> QED BY <2>3, <2>4
<1> QED BY <1>4, <1>10, <1>11, <1>12, <1>13, <1>14 DEF Governed
-----------------------------------------------------------------------------
(* The contributor's requests *)

LEMMA AcceptGoverned ==
  ASSUME CInv, Core, NEW l \in Leases, Accept(l)
  PROVE  Governed
<1>1. lease[l] \in LeaseRows /\ lease[l].state = "offered" /\ lease[l].work \in Works
  BY DEF Accept, CInv, TypeOK, Safe, Born
<1>2. PICK q : q = [lease[l] EXCEPT !.state = "running", !.age = 0]
  OBVIOUS
<1>3. lease' = [lease EXCEPT ![l] = q]
  BY <1>2 DEF Accept, CInv, TypeOK
<1>4. Continues(lease[l], q)
  BY <1>1, <1>2 DEF Continues, LeaseRows, WindowOK, Active
<1>5. SamePointers /\ Fenced /\ UNCHANGED <<project, member, device, ledger, job>>
  BY DEF Accept, peopleVars, SamePointers, Fenced
<1>6. txn = Closed /\ txn' = Closed /\ Eligible(lease[l].device, lease[l].work)
  BY DEF Accept
<1> QED BY <1>1, <1>3, <1>4, <1>5, <1>6, OneGoesOn

LEMMA DibGoverned ==
  ASSUME CInv, Core, NEW l \in Leases, NEW d \in Devices, Dib(l, d)
  PROVE  Governed
<1>1. /\ lease[l] \in LeaseRows /\ lease[l].state \in Active \ {"publishing"}
      /\ lease[l].age >= StaleAfter
  BY DEF Dib, Stale, Staleable, Active, CInv, TypeOK
<1>2. PICK q : q = [lease[l] EXCEPT !.state = "dibbed", !.dibDevice = d,
                                    !.dibLeft = RecoveryWindow]
  OBVIOUS
<1>3. lease' = [lease EXCEPT ![l] = q]
  BY <1>2 DEF Dib, CInv, TypeOK
<1>4. /\ q.device = lease[l].device /\ q.work = lease[l].work /\ q.kind = lease[l].kind
      /\ q.reservation = lease[l].reservation /\ q.settled = lease[l].settled
      /\ q.reviewed = lease[l].reviewed /\ q.sha = lease[l].sha
      /\ q.approved = lease[l].approved /\ q.maintainer = lease[l].maintainer
      /\ q.state = "dibbed" /\ q.age = lease[l].age /\ q.dibLeft = RecoveryWindow
  BY <1>1, <1>2 DEF LeaseRows
<1>5. WindowOK(q)
  <2>1. q.age \in Nat
    BY <1>1, <1>4, BoundsAssumption DEF LeaseRows
  <2> QED BY <2>1, <1>1, <1>4, BoundsAssumption DEF WindowOK, MaxAge
<1>6. Continues(lease[l], q)
  BY <1>1, <1>4, <1>5 DEF Continues, Active
<1>7. SamePointers /\ Fenced /\ UNCHANGED <<project, member, device, ledger, job>>
  BY DEF Dib, peopleVars, SamePointers, Fenced
<1>8. txn = Closed /\ txn' = Closed
  BY DEF Dib
<1> QED BY <1>3, <1>4, <1>6, <1>7, <1>8, OneGoesOn

LEMMA RecoverGoverned ==
  ASSUME CInv, Core, NEW l \in Leases, Recover(l)
  PROVE  Governed
<1>1. /\ lease[l] \in LeaseRows /\ lease[l].state \in Active \ {"publishing"}
      /\ lease[l].work \in Works
  BY DEF Recover, Stale, Staleable, Active, CInv, TypeOK, Safe, Born
<1>2. PICK state : state = IF lease[l].reviewed THEN "awaiting_review" ELSE "running"
  OBVIOUS
<1>3. PICK q : q = [lease[l] EXCEPT !.state = state, !.age = 0, !.dibDevice = NoDevice,
                                    !.dibLeft = 0]
  OBVIOUS
<1>4. lease' = [lease EXCEPT ![l] = q]
  BY <1>2, <1>3 DEF Recover, CInv, TypeOK
<1>5. state \in {"running", "awaiting_review"}
  BY <1>2
<1>6. Continues(lease[l], q)
  BY <1>1, <1>3, <1>5 DEF Continues, LeaseRows, WindowOK, Active
<1>7. SamePointers /\ Fenced /\ UNCHANGED <<project, member, device, ledger, job>>
  BY DEF Recover, peopleVars, SamePointers, Fenced
<1>8. txn = Closed /\ txn' = Closed /\ Eligible(lease[l].device, lease[l].work)
  BY DEF Recover
<1> QED BY <1>1, <1>4, <1>6, <1>7, <1>8, OneGoesOn

LEMMA DenyGoverned ==
  ASSUME CInv, Core, NEW l \in Leases, Deny(l)
  PROVE  Governed
<1>1. lease[l].state # "none" /\ Release(l, "released", TRUE)
  BY DEF Deny, Active
<1>2. txn = Closed /\ txn' = Closed /\ UNCHANGED <<project, member, device, job>>
  BY DEF Deny
<1>3. TxnLeases' /\ txn.leases = {}
  BY <1>2, ClosedLeases DEF Closed
<1> QED BY <1>1, <1>2, <1>3, ReleasesOne DEF Terminals

\* An approval shows the work as publishing when it is the last one.
LEMMA ApproveGoverned ==
  ASSUME CInv, Core, NEW u \in Users, NEW l \in Leases, NEW v \in Versions, Approve(u, l, v)
  PROVE  Governed
<1>1. /\ \A k \in Leases : k # l => lease'[k] = lease[k]
      /\ lease[l].state = "awaiting_review" /\ lease[l].reviewed = TRUE
      /\ lease'[l].state \in {"publishing", "awaiting_review"}
      /\ lease'[l].reviewed = TRUE /\ lease'[l].device = lease[l].device
  BY ApprovingRow
<1>2. lease[l].work \in Works /\ work[lease[l].work].active = l /\ l # NoLease
  BY <1>1 DEF Approve, CInv, Safe, Born, Leases, NoLease
<1>3. txn = Closed /\ txn' = Closed /\ UNCHANGED <<project, member, device>>
  BY DEF Approve, peopleVars
<1>4. TxnLeases' /\ txn.leases = {} /\ txn'.leases = {}
  BY <1>3 DEF Closed, TxnLeases
<1>5. Kinds
  BY DEF Kinds
<1>6. RunningIsAuthorised'
  <2>1. lease[l].state \in Active /\ lease'[l].state # "running"
    BY <1>1 DEF Active
  <2> QED BY <1>1, <1>3, <1>4, <2>1, AuthorityStays DEF Core
<1>7. PublishingIsApproved'
  BY <1>3, <1>4, <1>5, ApprovalStays
<1>8. work \in [Works -> WorkRows]
  BY DEF CInv, TypeOK
<1>9. PICK r : r = Approvals(u, l, v)
  OBVIOUS
<1>10. /\ lease'[l].state = "publishing" <=> FullyApproved(r)
       /\ FullyApproved(r) => work' = [work EXCEPT ![lease[l].work].state = "publishing"]
       /\ ~FullyApproved(r) => work' = work
  BY <1>9, ApprovingRow DEF Approve
<1>11. /\ work'[lease[l].work].active = l
       /\ work'[lease[l].work].checkpoint = work[lease[l].work].checkpoint
       /\ FullyApproved(r) => work'[lease[l].work].state = "publishing"
       /\ ~FullyApproved(r) => work'[lease[l].work].state = work[lease[l].work].state
       /\ \A w \in Works : w # lease[l].work => work'[w] = work[w]
  <2>1. CASE FullyApproved(r)
    <3>1. PICK row : row = [work[lease[l].work] EXCEPT !.state = "publishing"]
      OBVIOUS
    <3>2. work' = [work EXCEPT ![lease[l].work] = row]
      BY <2>1, <3>1, <1>8, <1>10
    <3>3. /\ row.active = l /\ row.state = "publishing"
          /\ row.checkpoint = work[lease[l].work].checkpoint
      BY <3>1, <1>2, <1>8 DEF WorkRows
    <3> QED BY <2>1, <3>2, <3>3, <1>2, <1>8
  <2>2. CASE ~FullyApproved(r)
    BY <2>2, <1>2, <1>10
  <2> QED BY <2>1, <2>2
<1>12. Fenced
  BY <1>11 DEF Fenced
<1>13. ASSUME Shown PROVE WorkShowsLease'
  <2>1. \A w \in Works : work[w].active # NoLease => work[w].active \in Leases
    BY <1>8 DEF WorkRows
  <2>2. \A w \in Works : work[w].active = l => w = lease[l].work
    BY <1>2 DEF CInv, Safe, PointerKnown, Endable
  <2>3. work[lease[l].work].state = "review"
    BY <1>1, <1>2, <1>13 DEF Shown, WorkShowsLease
  <2> SUFFICES ASSUME NEW w \in Works
               PROVE  LET k == work'[w].active IN
                 /\ k = NoLease <=>
                      work'[w].state \in {"none", "closed", "validation_pending", "queued"}
                 /\ k # NoLease =>
                      /\ lease'[k].state \in Active
                      /\ work'[w].state = IF lease'[k].state = "publishing" THEN "publishing"
                                          ELSE IF lease'[k].reviewed THEN "review"
                                          ELSE "in_progress"
    BY DEF WorkShowsLease
  <2>4. CASE w = lease[l].work
    BY <2>3, <2>4, <1>1, <1>2, <1>10, <1>11 DEF Active
  <2>5. CASE w # lease[l].work
    BY <2>1, <2>2, <2>5, <1>1, <1>11, <1>13 DEF Shown, WorkShowsLease
  <2> QED BY <2>4, <2>5
<1> QED BY <1>4, <1>5, <1>6, <1>7, <1>12, <1>13 DEF Governed
-----------------------------------------------------------------------------
(* The clock, sweeps and polls *)

\* As a row ages its recovery window shrinks by what its silence grows.
LEMMA AgedContinues ==
  ASSUME NEW r \in LeaseRows
  PROVE  Continues(r, Aged(r)) /\ Aged(r).state = r.state
<1>1. CASE r.state \in Timed
  <2>1. PICK age, left :
          /\ age = Least(r.age + 1, MaxAge)
          /\ left = IF r.state = "dibbed" THEN Greatest(0, r.dibLeft - 1) ELSE r.dibLeft
    OBVIOUS
  <2>2. Aged(r) = [r EXCEPT !.age = age, !.dibLeft = left]
    BY <1>1, <2>1 DEF Aged
  <2>3. PICK q : q = Aged(r)
    OBVIOUS
  <2>4. /\ q.device = r.device /\ q.work = r.work /\ q.kind = r.kind
        /\ q.reservation = r.reservation /\ q.settled = r.settled
        /\ q.reviewed = r.reviewed /\ q.sha = r.sha
        /\ q.approved = r.approved /\ q.maintainer = r.maintainer
        /\ q.state = r.state /\ q.age = age /\ q.dibLeft = left
    BY <2>2, <2>3 DEF LeaseRows
  <2>5. WindowOK(r) => WindowOK(q)
    <3>1. SUFFICES ASSUME r.state = "dibbed", r.age + r.dibLeft >= MaxAge
                   PROVE  age + left >= MaxAge
      BY <2>4 DEF WindowOK
    <3>2. MaxAge \in Nat /\ r.age \in 0..MaxAge /\ r.dibLeft \in 0..RecoveryWindow
      BY BoundsAssumption DEF MaxAge, LeaseRows
    <3>3. RecoveryWindow \in Nat
      BY BoundsAssumption
    <3>4. left = Greatest(0, r.dibLeft - 1)
      BY <2>1, <3>1
    <3> QED BY <2>1, <3>1, <3>2, <3>3, <3>4 DEF Least, Greatest
  <2> QED BY <2>3, <2>4, <2>5 DEF Continues
<1>2. CASE r.state \notin Timed
  <2>1. Aged(r) = r
    BY <1>2 DEF Aged
  <2> QED BY <2>1 DEF Continues
<1> QED BY <1>1, <1>2

LEMMA TickGoverned ==
  ASSUME CInv, Core, Tick
  PROVE  Governed
<1>1. \A l \in Leases : Continues(lease[l], lease'[l]) /\ lease'[l].state = lease[l].state
  <2> TAKE l \in Leases
  <2>1. lease[l] \in LeaseRows /\ lease'[l] = Aged(lease[l])
    BY DEF Tick, CInv, TypeOK
  <2> QED BY <2>1, AgedContinues
<1>2. /\ txn = Closed /\ txn' = Closed
      /\ UNCHANGED <<project, member, device, work, ledger, job>>
  BY DEF Tick, peopleVars
<1>3. Continuing /\ SamePointers /\ Fenced
  BY <1>1, <1>2 DEF Continuing, SamePointers, Fenced
<1>4. TxnLeases' /\ txn.leases \subseteq txn'.leases
  BY <1>2, ClosedLeases
<1> QED BY <1>1, <1>2, <1>3, <1>4, GoesOnStep

LEMMA SweepGoverned ==
  ASSUME CInv, Core, Sweep
  PROVE  Governed
<1>1. /\ txn = Closed /\ txn' = Sweeping(Due)
      /\ UNCHANGED <<project, member, device, lease, work, ledger, job>>
  BY DEF Sweep, peopleVars, workVars
<1>2. Due \in SUBSET Leases
  BY DEF Due
<1>3. TxnLeases' /\ txn.leases \subseteq txn'.leases
  BY <1>1, <1>2, SweepingType DEF Closed, TxnLeases
<1> QED BY <1>1, <1>3, NothingHappens

LEMMA SweepOfferGoverned ==
  ASSUME CInv, Core, NEW l \in Leases, SweepOffer(l)
  PROVE  Governed
<1>1. /\ lease[l].state # "none" /\ Release(l, "released", TRUE)
      /\ txn' = Sweeping(txn.leases \ {l})
      /\ UNCHANGED <<project, member, device, job>>
  BY DEF SweepOffer, OfferExpired
<1>2. txn.leases \ {l} \in SUBSET Leases
  BY DEF CInv, TypeOK, Transactions
<1>3. TxnLeases' /\ txn.leases \ {l} \subseteq txn'.leases
  BY <1>1, <1>2, SweepingType DEF TxnLeases
<1> QED BY <1>1, <1>3, ReleasesOne DEF Terminals

LEMMA SweepHandoverGoverned ==
  ASSUME CInv, Core, NEW l \in Leases, SweepHandover(l)
  PROVE  Governed
<1>1. PICK rest : rest = txn.leases \ {l}
  OBVIOUS
<1>2. /\ lease[l].state # "none" /\ Release(l, "reassigned", TRUE) /\ RecoveryExpired(l)
      /\ txn' = [Sweeping(rest) EXCEPT !.device = lease[l].dibDevice, !.work = lease[l].work]
      /\ UNCHANGED <<project, member, device, job>>
  BY <1>1 DEF SweepHandover, RecoveryExpired, peopleVars
<1>3. rest \in SUBSET Leases
  BY <1>1 DEF CInv, TypeOK, Transactions
<1>4. /\ Sweeping(rest) \in Transactions
      /\ Sweeping(rest).op = "sweep" /\ Sweeping(rest).leases = rest
  BY <1>3, SweepingType
<1>5. txn'.op = "sweep" /\ txn'.leases = rest
  BY <1>2, <1>4 DEF Transactions
<1>6. TxnLeases' /\ txn.leases \ {l} \subseteq txn'.leases
  BY <1>1, <1>5 DEF TxnLeases
<1> QED BY <1>2, <1>6, ReleasesOne DEF Terminals

LEMMA CancelNextGoverned ==
  ASSUME CInv, Core, NEW l \in Leases, CancelNext(l)
  PROVE  Governed
<1>1. /\ lease[l].state # "none" /\ Release(l, "cancelled", FALSE)
      /\ txn' = Cancelling(txn.leases \ {l})
      /\ UNCHANGED <<project, member, device, job>>
  BY DEF CancelNext, CInv, TxnOK, Endable, peopleVars
<1>2. txn.leases \ {l} \in SUBSET Leases
  BY DEF CInv, TypeOK, Transactions
<1>3. txn'.leases = txn.leases \ {l} /\ txn'.op \in {"closed", "cancel"}
  BY <1>1, <1>2, CancellingType
<1>4. TxnLeases'
  BY <1>1 DEF Cancelling, Closed, TxnLeases
<1> QED BY <1>1, <1>3, <1>4, ReleasesOne DEF Terminals

LEMMA AllocateHandoverGoverned ==
  ASSUME CInv, Core, AllocateHandover
  PROVE  Governed
<1>1. /\ txn.device \in Devices /\ txn.work \in Works /\ txn.leases \in SUBSET Leases
      /\ txn' = Sweeping(txn.leases) /\ UNCHANGED <<project, member, device, job>>
  BY DEF AllocateHandover, CInv, TxnOK, TypeOK, Transactions, peopleVars
<1>2. TxnLeases' /\ txn.leases \subseteq txn'.leases
  BY <1>1, SweepingType DEF TxnLeases
<1>3. CASE Allocate(txn.device, txn.work)
  BY <1>1, <1>2, <1>3, AllocatesOne
<1>4. CASE UNCHANGED workVars
  BY <1>1, <1>2, <1>4, NothingHappens DEF workVars
<1> QED BY <1>3, <1>4 DEF AllocateHandover

LEMMA EndSweepGoverned ==
  ASSUME CInv, Core, EndSweep
  PROVE  Governed
<1>1. /\ txn = Sweeping({}) /\ txn' = Closed
      /\ UNCHANGED <<project, member, device, lease, work, ledger, job>>
  BY DEF EndSweep, peopleVars
<1>2. TxnLeases' /\ txn.leases \subseteq txn'.leases
  BY <1>1, ClosedLeases, SweepingType
<1> QED BY <1>1, <1>2, NothingHappens

LEMMA PollAllocatesGoverned ==
  ASSUME CInv, Core, NEW d \in Devices, PollAllocates(d)
  PROVE  Governed
<1>1. PICK w \in Works : Allocate(d, w)
  BY DEF PollAllocates, TakeOldest
<1>2. txn = Closed /\ txn' = Closed /\ UNCHANGED <<project, member, device, job>>
  BY DEF PollAllocates, peopleVars
<1>3. TxnLeases' /\ txn.leases \subseteq txn'.leases
  BY <1>2, ClosedLeases
<1> QED BY <1>1, <1>2, <1>3, AllocatesOne

LEMMA PollReclaimsGoverned ==
  ASSUME CInv, Core, NEW d \in Devices, PollReclaims(d)
  PROVE  Governed
<1>1. PICK l \in Leases : lease[l].state # "none" /\ Release(l, "reclaimed", TRUE)
  BY DEF PollReclaims, HeldBy, Active
<1>2. /\ txn = Closed /\ txn' = [Closed EXCEPT !.op = "poll", !.device = d]
      /\ UNCHANGED <<project, member, device, job>>
  BY DEF PollReclaims, peopleVars
<1>3. TxnLeases' /\ txn.leases \ {l} \subseteq txn'.leases
  BY <1>2 DEF Closed, TxnLeases
<1> QED BY <1>1, <1>2, <1>3, ReleasesOne DEF Terminals

LEMMA PollGoesOnGoverned ==
  ASSUME CInv, Core, PollGoesOn
  PROVE  Governed
<1>1. /\ txn.device \in Devices /\ txn.leases = {}
      /\ txn' = Closed /\ UNCHANGED <<project, member, device, job>>
  BY DEF PollGoesOn, CInv, TxnOK, Core, TxnLeases, peopleVars
<1>2. TxnLeases' /\ txn.leases \subseteq txn'.leases
  BY <1>1, ClosedLeases
<1>3. CASE TakeOldest(txn.device)
  <2>1. PICK w \in Works : Allocate(txn.device, w)
    BY <1>3 DEF TakeOldest
  <2> QED BY <1>1, <1>2, <2>1, AllocatesOne
<1>4. CASE UNCHANGED workVars
  BY <1>1, <1>2, <1>4, NothingHappens DEF workVars
<1> QED BY <1>3, <1>4 DEF PollGoesOn
-----------------------------------------------------------------------------
(* Devices, members and the project *)

\* A step that leaves rows alone, but perhaps not whose they may be.
LEMMA NoRowChanges ==
  ASSUME CInv, Core, UNCHANGED <<lease, work, ledger, job>>, project'.policy = project.policy,
         txn = Closed, txn' = Closed, RunningIsAuthorised'
  PROVE  Governed
<1>1. Continuing
  BY DEF Continuing, Continues
<1>2. SamePointers /\ Fenced
  BY DEF SamePointers, Fenced
<1>3. (Shown => WorkShowsLease')
  BY <1>1, <1>2, ShownStays DEF Shown
<1>4. Kinds
  BY <1>1 DEF Kinds
<1>5. PublishingIsApproved'
  BY <1>4, ApprovalStays
<1>6. TxnLeases'
  BY ClosedLeases
<1> QED BY <1>2, <1>3, <1>4, <1>5, <1>6 DEF Governed

\* A step that cancels one lease, and may take the authority of others.
LEMMA CancelsOne ==
  ASSUME CInv, Core, NEW l \in Leases, lease[l].state # "none",
         Release(l, "cancelled", TRUE), UNCHANGED <<project, job>>,
         txn = Closed, txn' = Closed, RunningIsAuthorised'
  PROVE  Governed
<1>1. Kinds
  BY DEF Kinds, Ending, Release, Terminals
<1>2. (Shown => WorkShowsLease') /\ Fenced
  BY ReleaseShows DEF Terminals
<1>3. PublishingIsApproved'
  BY <1>1, ApprovalStays
<1>4. TxnLeases'
  BY ClosedLeases
<1> QED BY <1>1, <1>2, <1>3, <1>4 DEF Governed

\* Outside a transaction every active lease is authorised.
LEMMA AllAuthorised ==
  ASSUME Core, txn = Closed, NEW l \in Leases, lease[l].state \in Active
  PROVE  /\ project.active
         /\ member[UserOf[lease[l].device]].role \in Roles
         /\ Admits(project.policy.access, member[UserOf[lease[l].device]])
         /\ lease[l].state = "running" => device[lease[l].device].enabled
BY DEF Core, RunningIsAuthorised, Holder, Closed

LEMMA CreateDeviceGoverned ==
  ASSUME CInv, Core, NEW d \in Devices, CreateDevice(d)
  PROVE  Governed
<1>1. /\ txn = Closed /\ txn' = Closed
      /\ device' = [device EXCEPT ![d] = [enabled |-> TRUE, token |-> "valid"]]
      /\ UNCHANGED <<project, member, work, lease, ledger, job>>
  BY DEF CreateDevice, workVars
<1>2. \A e \in Devices : device[e].enabled => device'[e].enabled
  BY <1>1 DEF CInv, TypeOK
<1>3. \A l \in Leases : lease[l].state \in Active => lease[l].device \in Devices
  BY DEF CInv, Safe, Born, Active
<1>4. RunningIsAuthorised'
  BY <1>1, <1>2, <1>3, AllAuthorised DEF RunningIsAuthorised, Holder
<1> QED BY <1>1, <1>4, NoRowChanges

LEMMA ToggleDeviceGoverned ==
  ASSUME CInv, Core, NEW d \in Devices, NEW enabled \in BOOLEAN, ToggleDevice(d, enabled)
  PROVE  Governed
<1>1. /\ txn = Closed /\ txn' = Closed
      /\ device' = [device EXCEPT ![d].enabled = enabled]
      /\ lease' = [l \in Leases |->
           IF ~enabled /\ lease[l].device = d /\ lease[l].state = "running"
           THEN [lease[l] EXCEPT !.state = "blocked"] ELSE lease[l]]
      /\ UNCHANGED <<project, member, work, ledger, job>>
  BY DEF ToggleDevice
<1>2. ASSUME NEW l \in Leases
      PROVE  /\ Continues(lease[l], lease'[l])
             /\ lease'[l].device = lease[l].device
             /\ lease'[l].state \in Active => lease[l].state \in Active
             /\ lease'[l].state = "running" =>
                  lease[l].state = "running" /\ (lease[l].device = d => enabled)
  <2>1. lease[l] \in LeaseRows
    BY DEF CInv, TypeOK
  <2>2. CASE ~enabled /\ lease[l].device = d /\ lease[l].state = "running"
    <3>1. lease'[l] = [lease[l] EXCEPT !.state = "blocked"]
      BY <1>1, <2>2
    <3>2. PICK q : q = lease'[l]
      OBVIOUS
    <3>3. /\ q.device = lease[l].device /\ q.work = lease[l].work /\ q.kind = lease[l].kind
          /\ q.reservation = lease[l].reservation /\ q.settled = lease[l].settled
          /\ q.reviewed = lease[l].reviewed /\ q.sha = lease[l].sha
          /\ q.approved = lease[l].approved /\ q.maintainer = lease[l].maintainer
          /\ q.state = "blocked"
      BY <2>1, <3>1, <3>2 DEF LeaseRows
    <3> QED BY <2>2, <3>2, <3>3 DEF Continues, WindowOK, Active
  <2>3. CASE ~(~enabled /\ lease[l].device = d /\ lease[l].state = "running")
    <3>1. lease'[l] = lease[l]
      BY <1>1, <2>3
    <3> QED BY <2>3, <3>1 DEF Continues
  <2> QED BY <2>2, <2>3
<1>3. \A e \in Devices : device'[e].enabled = IF e = d THEN enabled ELSE device[e].enabled
  BY <1>1 DEF CInv, TypeOK
<1>4. \A l \in Leases : lease[l].state \in Active => lease[l].device \in Devices
  BY DEF CInv, Safe, Born, Active
<1>5. RunningIsAuthorised'
  <2> SUFFICES ASSUME NEW l \in Leases, lease'[l].state \in Active
               PROVE  /\ project.active
                      /\ member[UserOf[lease'[l].device]].role \in Roles
                      /\ Admits(project.policy.access, member[UserOf[lease'[l].device]])
                      /\ lease'[l].state = "running" => device'[lease'[l].device].enabled
    BY <1>1 DEF RunningIsAuthorised, Holder
  <2>1. lease[l].state \in Active /\ lease'[l].device = lease[l].device
    BY <1>2
  <2> QED BY <2>1, <1>1, <1>2, <1>3, <1>4, AllAuthorised
<1>6. Continuing /\ SamePointers /\ Fenced
  BY <1>1, <1>2 DEF Continuing, SamePointers, Fenced
<1>7. (Shown => WorkShowsLease') /\ Kinds
  BY <1>6, ShownStays DEF Shown, Kinds
<1>8. PublishingIsApproved' /\ TxnLeases'
  BY <1>1, <1>7, ApprovalStays, ClosedLeases
<1> QED BY <1>5, <1>6, <1>7, <1>8 DEF Governed

\* A person holds one lease, so revoking a device ends every lease on it.
LEMMA RevokeDeviceGoverned ==
  ASSUME CInv, Core, NEW d \in Devices, RevokeDevice(d)
  PROVE  Governed
<1>1. /\ txn = Closed /\ txn' = Closed
      /\ UNCHANGED <<project, member, job>>
      /\ device' = [device EXCEPT ![d] = [enabled |-> FALSE, token |-> "revoked"]]
  BY DEF RevokeDevice
<1>2. \A e \in Devices : e # d => device'[e] = device[e]
  BY <1>1 DEF CInv, TypeOK
<1>3. \A l \in Leases : lease[l].state \in Active => lease[l].device \in Devices
  BY DEF CInv, Safe, Born, Active
<1>4. CASE /\ {l \in Leases : lease[l].device = d /\ lease[l].state \in Active} = {}
           /\ UNCHANGED <<work, lease, ledger, submission>>
  <2>1. \A l \in Leases : lease[l].state \in Active => lease[l].device # d
    BY <1>4
  <2>2. RunningIsAuthorised'
    BY <1>1, <1>2, <1>3, <1>4, <2>1, AllAuthorised DEF RunningIsAuthorised, Holder
  <2> QED BY <1>1, <1>4, <2>2, NoRowChanges
<1>5. CASE \E l \in Leases : /\ lease[l].device = d /\ lease[l].state \in Active
                             /\ Release(l, "cancelled", TRUE)
  <2>1. PICK l \in Leases : /\ lease[l].device = d /\ lease[l].state \in Active
                            /\ Release(l, "cancelled", TRUE)
    BY <1>5
  <2>2. lease'[l].state \notin Active /\ \A k \in Leases : k # l => lease'[k] = lease[k]
    BY <2>1, EndingRow DEF Release, Terminals
  <2>3. \A k \in Leases : k # l /\ lease[k].state \in Active => lease[k].device # d
    BY <2>1 DEF CInv, Safe, OneActivePerUser, Holder
  <2>4. RunningIsAuthorised'
    <3> SUFFICES ASSUME NEW k \in Leases, lease'[k].state \in Active
                 PROVE  /\ project.active
                        /\ member[UserOf[lease'[k].device]].role \in Roles
                        /\ Admits(project.policy.access, member[UserOf[lease'[k].device]])
                        /\ lease'[k].state = "running" => device'[lease'[k].device].enabled
      BY <1>1 DEF RunningIsAuthorised, Holder
    <3>1. k # l /\ lease'[k] = lease[k]
      BY <2>2
    <3> QED BY <3>1, <1>2, <1>3, <2>3, <1>1, AllAuthorised
  <2>5. lease[l].state # "none"
    BY <2>1 DEF Active
  <2> QED BY <1>1, <2>1, <2>4, <2>5, CancelsOne
<1> QED BY <1>4, <1>5 DEF RevokeDevice

LEMMA WatchGoverned ==
  ASSUME CInv, Core, NEW u \in Users, NEW enabled \in BOOLEAN, Watch(u, enabled)
  PROVE  Governed
<1>1. /\ txn = Closed /\ txn' = Closed
      /\ UNCHANGED <<project, device, work, lease, ledger, job>>
  BY DEF Watch, workVars
<1>2. \A x \in Users : member[x].role # "none" =>
        member'[x].role = member[x].role /\ member'[x].verified = member[x].verified
  <2>1. member \in [Users -> MemberRows]
    BY DEF CInv, TypeOK
  <2>2. CASE member[u].role = "none"
    <3>1. PICK row : member' = [member EXCEPT ![u] = row]
      BY <2>1, <2>2 DEF Watch
    <3> QED BY <2>1, <2>2, <3>1
  <2>3. CASE member[u].role # "none"
    <3>1. PICK row : row = [member[u] EXCEPT !.watching = enabled]
      OBVIOUS
    <3>2. member' = [member EXCEPT ![u] = row]
      BY <2>1, <2>3, <3>1 DEF Watch
    <3>3. row.role = member[u].role /\ row.verified = member[u].verified
      BY <2>1, <3>1 DEF MemberRows
    <3> QED BY <2>1, <3>2, <3>3
  <2> QED BY <2>2, <2>3
<1>3. \A l \in Leases : lease[l].state \in Active => UserOf[lease[l].device] \in Users
  BY DevicesAssumption DEF CInv, Safe, Born, Active
<1>4. RunningIsAuthorised'
  <2> SUFFICES ASSUME NEW l \in Leases, lease[l].state \in Active
               PROVE  /\ project.active
                      /\ member'[UserOf[lease[l].device]].role \in Roles
                      /\ Admits(project.policy.access, member'[UserOf[lease[l].device]])
                      /\ lease[l].state = "running" => device[lease[l].device].enabled
    BY <1>1 DEF RunningIsAuthorised, Holder
  <2>1. member[UserOf[lease[l].device]].role # "none"
    BY <1>1, AllAuthorised DEF Roles, Reviewers, Privileged
  <2> QED BY <2>1, <1>1, <1>2, <1>3, AllAuthorised DEF Admits
<1> QED BY <1>1, <1>4, NoRowChanges

\* A person holds one lease, so the one that is lost is the only one to look at.
LEMMA UpdateMemberGoverned ==
  ASSUME CInv, Core, NEW a \in Users, NEW u \in Users, NEW setting \in MemberSettings,
         UpdateMember(a, u, setting)
  PROVE  Governed
<1>1. PICK row : /\ row = [role |-> setting.role, verified |-> setting.verified,
                           watching |-> member[u].role = "none" \/ member[u].watching]
                 /\ member' = [member EXCEPT ![u] = row]
  BY DEF UpdateMember
<1>2. PICK lost :
        /\ lost = {l \in HeldBy(u) : ~EligibleAs(row, lease[l].device, lease[l].work)}
        /\ \/ lost = {} /\ UNCHANGED <<work, lease, ledger, submission>>
           \/ \E l \in lost : Release(l, "cancelled", TRUE)
  BY <1>1 DEF UpdateMember
<1>3. txn = Closed /\ txn' = Closed /\ UNCHANGED <<project, device, job>>
  BY DEF UpdateMember
<1>4. member'[u] = row /\ \A x \in Users : x # u => member'[x] = member[x]
  BY <1>1 DEF CInv, TypeOK
<1>5. \A l \in Leases : lease[l].state \in Active => UserOf[lease[l].device] \in Users
  BY DevicesAssumption DEF CInv, Safe, Born, Active
<1>6. ASSUME NEW l \in Leases, lease[l].state \in Active, l \notin lost
      PROVE  /\ project.active
             /\ member'[UserOf[lease[l].device]].role \in Roles
             /\ Admits(project.policy.access, member'[UserOf[lease[l].device]])
             /\ lease[l].state = "running" => device[lease[l].device].enabled
  <2>1. CASE UserOf[lease[l].device] = u
    <3>1. EligibleAs(row, lease[l].device, lease[l].work)
      BY <1>2, <1>6, <2>1 DEF HeldBy, Holder
    <3> QED BY <1>4, <2>1, <3>1 DEF EligibleAs
  <2>2. CASE UserOf[lease[l].device] # u
    BY <1>3, <1>4, <1>5, <1>6, <2>2, AllAuthorised
  <2> QED BY <2>1, <2>2
<1>7. CASE lost = {} /\ UNCHANGED <<work, lease, ledger, submission>>
  <2>1. RunningIsAuthorised'
    BY <1>3, <1>6, <1>7 DEF RunningIsAuthorised, Holder
  <2> QED BY <1>3, <1>7, <2>1, NoRowChanges
<1>8. CASE \E l \in lost : Release(l, "cancelled", TRUE)
  <2>1. PICK l \in lost : Release(l, "cancelled", TRUE)
    BY <1>8
  <2>2. l \in Leases /\ lease[l].state \in Active /\ Holder(l) = u
    BY <1>2, <2>1 DEF HeldBy
  <2>3. lease'[l].state \notin Active /\ \A k \in Leases : k # l => lease'[k] = lease[k]
    BY <2>1, <2>2, EndingRow DEF Release, Terminals
  <2>4. \A k \in lost : k = l
    BY <1>2, <2>2 DEF HeldBy, CInv, Safe, OneActivePerUser
  <2>5. RunningIsAuthorised'
    <3> SUFFICES ASSUME NEW k \in Leases, lease'[k].state \in Active
                 PROVE  /\ project.active
                        /\ member'[UserOf[lease'[k].device]].role \in Roles
                        /\ Admits(project.policy.access, member'[UserOf[lease'[k].device]])
                        /\ lease'[k].state = "running" => device[lease'[k].device].enabled
      BY <1>3 DEF RunningIsAuthorised, Holder
    <3>1. k # l /\ lease'[k] = lease[k]
      BY <2>3
    <3> QED BY <3>1, <2>4, <1>6
  <2>6. lease[l].state # "none"
    BY <2>2 DEF Active
  <2> QED BY <1>3, <2>1, <2>2, <2>5, <2>6, CancelsOne
<1> QED BY <1>2, <1>7, <1>8

\* Every active lease is assigned, so a cancellation looks at all of them.
LEMMA ActiveIsAssigned ==
  ASSUME CInv, NEW l \in Leases, lease[l].state \in Active
  PROVE  l \in Assigned
<1>1. lease[l].work \in Works /\ work[lease[l].work].active = l /\ l # NoLease
  BY DEF CInv, Safe, Born, ActiveIsCurrent, Active, Leases, NoLease
<1> QED BY <1>1 DEF Assigned

LEMMA CancelsAll ==
  ASSUME CInv, Core, txn' = Cancelling(Assigned),
         UNCHANGED <<lease, work, ledger, job>>
  PROVE  Governed
<1>1. txn'.leases = Assigned
  BY AssignedAreActive, CancellingType
<1>2. RunningIsAuthorised' /\ PublishingIsApproved'
  BY <1>1, ActiveIsAssigned DEF RunningIsAuthorised, PublishingIsApproved, Active
<1>3. Continuing /\ SamePointers /\ Fenced
  BY DEF Continuing, Continues, SamePointers, Fenced
<1>4. (Shown => WorkShowsLease') /\ Kinds
  BY <1>3, ShownStays DEF Shown, Kinds
<1>5. TxnLeases'
  BY DEF Cancelling, Closed, TxnLeases
<1> QED BY <1>2, <1>3, <1>4, <1>5 DEF Governed

LEMMA UpdateProjectGoverned ==
  ASSUME CInv, Core, NEW u \in Users, NEW policy \in Policies, NEW budget \in Budgets,
         NEW active \in BOOLEAN, UpdateProject(u, policy, budget, active)
  PROVE  Governed
<1>1. /\ txn = Closed
      /\ project' = [active |-> active, policy |-> policy, budget |-> budget]
      /\ \/ txn' = Cancelling(Assigned)
         \/ txn' = Closed /\ policy = project.policy /\ active
      /\ UNCHANGED <<ledger, member, device, work, lease, job>>
  BY DEF UpdateProject
<1>2. CASE txn' = Cancelling(Assigned)
  BY <1>1, <1>2, CancelsAll
<1>3. CASE txn' = Closed /\ policy = project.policy /\ active
  <2>1. project'.active /\ project'.policy = project.policy
    BY <1>1, <1>3
  <2>2. RunningIsAuthorised'
    BY <1>1, <2>1, AllAuthorised DEF RunningIsAuthorised, Holder
  <2> QED BY <1>1, <1>3, <2>1, <2>2, NoRowChanges
<1> QED BY <1>1, <1>2, <1>3

LEMMA RevokeInstallationGoverned ==
  ASSUME CInv, Core, RevokeInstallation
  PROVE  Governed
BY CancelsAll DEF RevokeInstallation
-----------------------------------------------------------------------------
(* Issues *)

LEMMA ValidateGoverned ==
  ASSUME CInv, Core, NEW u \in Users, NEW w \in Works, Validate(u, w)
  PROVE  Governed
<1>1. /\ txn = Closed /\ txn' = Closed /\ work[w].state = "validation_pending"
      /\ work' = [work EXCEPT ![w].state = "queued"]
      /\ UNCHANGED <<project, member, device, lease, ledger, job>>
  BY DEF Validate, peopleVars
<1>2. work \in [Works -> WorkRows]
  BY DEF CInv, TypeOK
<1>3. /\ \A v \in Works : v # w => work'[v] = work[v]
      /\ work'[w] = [work[w] EXCEPT !.state = "queued"]
  BY <1>1, <1>2
<1>4. /\ work'[w].state = "queued" /\ work'[w].active = work[w].active
      /\ work'[w].checkpoint = work[w].checkpoint
  BY <1>2, <1>3 DEF WorkRows
<1>5. Fenced
  BY <1>3, <1>4 DEF Fenced
<1>6. (Shown => WorkShowsLease')
  BY <1>1, <1>3, <1>4 DEF Shown, WorkShowsLease
<1>7. Continuing
  BY <1>1 DEF Continuing, Continues
<1>8. Kinds /\ RunningIsAuthorised' /\ PublishingIsApproved'
  BY <1>1, <1>7, GoesOn
<1>9. TxnLeases'
  BY <1>1, ClosedLeases
<1> QED BY <1>5, <1>6, <1>8, <1>9 DEF Governed

\* An edited, closed or excluded issue that loses its lease shows none; any other
\* keeps showing what it did.
LEMMA IngestedShows ==
  ASSUME NEW s, NEW e
  PROVE  /\ e.changed \/ Withdrawn(e) =>
              IngestedState(s, e) \in {"closed", "validation_pending", "queued"}
         /\ s \in {"none", "closed", "validation_pending", "queued"} =>
              IngestedState(s, e) \in {"closed", "validation_pending", "queued"}
         /\ ~(e.changed \/ Withdrawn(e)) /\ s \in {"publishing", "review", "in_progress"} =>
              IngestedState(s, e) = s
<1>1. ASSUME e.changed \/ Withdrawn(e)
      PROVE  IngestedState(s, e) \in {"closed", "validation_pending", "queued"}
  BY <1>1 DEF IngestedState, Withdrawn
<1>2. ASSUME s \in {"none", "closed", "validation_pending", "queued"}
      PROVE  IngestedState(s, e) \in {"closed", "validation_pending", "queued"}
  BY <1>2 DEF IngestedState
<1>3. ASSUME ~(e.changed \/ Withdrawn(e)), s \in {"publishing", "review", "in_progress"}
      PROVE  IngestedState(s, e) = s
  BY <1>3 DEF IngestedState, Withdrawn
<1> QED BY <1>1, <1>2, <1>3

LEMMA IngestGoverned ==
  ASSUME CInv, Core, NEW w \in Works, NEW e \in IssueEvents, Ingest(w, e)
  PROVE  Governed
<1>1. PICK l, cancels :
        /\ l = work[w].active
        /\ cancels = (l # NoLease /\ (e.changed \/ Withdrawn(e)))
        /\ work' = [work EXCEPT ![w].state = IngestedState(@, e), ![w].labels = e.labels,
                                ![w].active = IF cancels THEN NoLease ELSE @]
        /\ \/ cancels /\ EndLease(l, "cancelled")
           \/ ~cancels /\ UNCHANGED <<ledger, lease>>
  BY DEF Ingest
<1>2. txn = Closed /\ txn' = Closed /\ UNCHANGED <<project, member, device, job>>
  BY DEF Ingest, peopleVars
<1>3. TxnLeases' /\ txn.leases = {}
  BY <1>2, ClosedLeases DEF Closed
<1>4. work \in [Works -> WorkRows]
  BY DEF CInv, TypeOK
<1>5. PICK s, p : /\ s = IngestedState(work[w].state, e)
                  /\ p = IF cancels THEN NoLease ELSE work[w].active
  OBVIOUS
<1>6. work' = [work EXCEPT ![w] = [work[w] EXCEPT !.state = s, !.labels = e.labels, !.active = p]]
  BY <1>1, <1>4, <1>5
<1>7. /\ \A v \in Works : v # w => work'[v] = work[v]
      /\ work'[w] = [work[w] EXCEPT !.state = s, !.labels = e.labels, !.active = p]
  BY <1>4, <1>6
<1>8. /\ work'[w].state = s /\ work'[w].active = p
      /\ work'[w].checkpoint = work[w].checkpoint
  BY <1>4, <1>7 DEF WorkRows
<1>9. Fenced
  BY <1>7, <1>8 DEF Fenced
<1>10. CASE cancels
  <2>1. l \in Leases /\ lease[l].state # "none" /\ lease[l].work = w
    BY <1>1, <1>4, <1>10 DEF WorkRows, CInv, Safe, PointerKnown, Endable, Active
  <2>2. EndLease(l, "cancelled") /\ p = NoLease
    BY <1>1, <1>5, <1>10
  <2>3. s \in {"closed", "validation_pending", "queued"}
    BY <1>1, <1>5, <1>10, IngestedShows
  <2>4. \A v \in Works : v # w => work[v].active # l
    BY <2>1 DEF CInv, Safe, PointerKnown, Endable, Leases, NoLease
  <2>5. (Shown => WorkShowsLease')
    <3>1. \A v \in Works :
           \/ /\ work[v].active # l
              /\ work'[v].state = work[v].state /\ work'[v].active = work[v].active
           \/ /\ work'[v].active = NoLease
              /\ work'[v].state \in {"closed", "validation_pending", "queued"}
      BY <1>7, <1>8, <2>2, <2>3, <2>4
    <3> QED BY <2>1, <2>2, <3>1, ShownAfterEnd DEF Shown, Terminals
  <2>6. Ending(l, "cancelled")
    BY <1>2, <2>1, <2>2 DEF Ending
  <2>7. Kinds /\ RunningIsAuthorised' /\ PublishingIsApproved'
    BY <1>2, <1>3, <2>1, <2>6, EndsOne DEF Terminals
  <2> QED BY <1>3, <1>9, <2>5, <2>7 DEF Governed
<1>11. CASE ~cancels
  <2>1. UNCHANGED <<ledger, lease>> /\ p = work[w].active
    BY <1>1, <1>5, <1>11
  <2>2. Continuing
    BY <1>2, <2>1 DEF Continuing, Continues
  <2>3. Kinds /\ RunningIsAuthorised' /\ PublishingIsApproved'
    BY <1>2, <1>3, <2>1, <2>2, GoesOn
  <2>4. ASSUME Shown PROVE WorkShowsLease'
    <3>1. CASE work[w].active = NoLease
      <4>1. s \in {"closed", "validation_pending", "queued"}
        BY <1>5, <3>1, <2>4, IngestedShows DEF Shown, WorkShowsLease
      <4> QED BY <1>7, <1>8, <2>1, <3>1, <4>1, <2>4 DEF Shown, WorkShowsLease
    <3>2. CASE work[w].active # NoLease
      <4>1. ~(e.changed \/ Withdrawn(e))
        BY <1>1, <1>11, <3>2
      <4>2. work[w].state \in {"publishing", "review", "in_progress"}
        BY <3>2, <2>4 DEF Shown, WorkShowsLease
      <4>3. s = work[w].state
        BY <1>5, <4>1, <4>2, IngestedShows
      <4>4. SamePointers
        BY <1>7, <1>8, <2>1, <4>3 DEF SamePointers
      <4> QED BY <2>2, <4>4, <2>4, ShownStays DEF Shown
    <3> QED BY <3>1, <3>2
  <2> QED BY <1>3, <1>9, <2>3, <2>4 DEF Governed
<1> QED BY <1>1, <1>10, <1>11
-----------------------------------------------------------------------------
(* The theorems *)

LEMMA NextGoverned == CInv /\ Core /\ [Next]_vars => Governed
<1> SUFFICES ASSUME CInv, Core, [Next]_vars PROVE Governed
  OBVIOUS
<1>1. CASE Tick
  BY <1>1, TickGoverned
<1>2. CASE Sweep
  BY <1>2, SweepGoverned
<1>3. CASE OpenTransaction
  BY <1>3, SweepOfferGoverned, SweepHandoverGoverned, CancelNextGoverned,
     AllocateHandoverGoverned, EndSweepGoverned, PollGoesOnGoverned DEF OpenTransaction
<1>4. CASE Governance
  <2>1. ASSUME NEW u \in Watchers, NEW enabled \in BOOLEAN, Watch(u, enabled) PROVE Governed
    BY <2>1, WatchGoverned, DevicesAssumption
  <2> QED BY <1>4, <2>1, UpdateMemberGoverned, UpdateProjectGoverned,
             RevokeInstallationGoverned DEF Governance
<1>5. ASSUME NEW l \in Leases, WorkerStep(l) PROVE Governed
  BY <1>5, HeartbeatGoverned, HeartbeatWithUsageGoverned, CheckpointGoverned,
     CompleteGoverned, BlockGoverned DEF WorkerStep
<1>6. ASSUME NEW l \in Leases, HumanStep(l) PROVE Governed
  BY <1>6, AcceptGoverned, DenyGoverned, RecoverGoverned, DibGoverned, ApproveGoverned
     DEF HumanStep
<1>7. ASSUME NEW d \in Devices, DeviceStep(d) PROVE Governed
  BY <1>7, PollAllocatesGoverned, PollReclaimsGoverned, CreateDeviceGoverned,
     RevokeDeviceGoverned, ToggleDeviceGoverned DEF DeviceStep
<1>8. ASSUME NEW w \in Works, IssueStep(w) PROVE Governed
  BY <1>8, ValidateGoverned, IngestGoverned DEF IssueStep
<1>9. CASE UNCHANGED vars
  <2>1. UNCHANGED <<project, ledger, member, device, work, lease, job, txn>>
    BY <1>9 DEF vars
  <2>2. TxnLeases'
    BY <2>1 DEF Core, TxnLeases
  <2> QED BY <2>1, <2>2, NothingHappens
<1> QED BY <1>1, <1>2, <1>3, <1>4, <1>5, <1>6, <1>7, <1>8, <1>9 DEF Next

\* Every step of the coordinator keeps the core, and is one the action properties allow;
\* what is shown it keeps while there are no pull requests.
LEMMA NextKeepsCore ==
  ASSUME CInv, Core, [Next]_vars
  PROVE  Core' /\ (Shown => Shown') /\ HandsOverLate /\ ChargesUnknown /\ Fenced
<1>1. TypeOK'
  BY NextKeeps DEF Kept
<1>2. Governed
  BY NextGoverned
<1>3. RowsKept
  BY <1>1, <1>2, KindsKeepRows DEF Governed
<1> QED BY <1>2, <1>3 DEF Governed, RowsKept, RowInv, Core, Shown

LEMMA NextKeepsRows ==
  IInv /\ GInv /\ [Next]_vars => GInv' /\ HandsOverLate /\ ChargesUnknown /\ Fenced
BY NextKeepsCore DEF IInv, GInv

LEMMA InitIsGoverned == Init => GInv
<1> SUFFICES ASSUME Init PROVE GInv
  OBVIOUS
<1>1. \A l \in Leases : /\ lease[l].state = "none" /\ lease[l].settled = FALSE
                        /\ lease[l].reservation = 0 /\ lease[l].kind = "initial"
                        /\ lease[l].reviewed = FALSE
  BY DEF Init, UnbornLease
<1>2. UnbornRows /\ Unsettled /\ FirstRound /\ Windows /\ Approved
  BY <1>1 DEF UnbornRows, Unsettled, FirstRound, Windows, WindowOK, Approved, ApprovalOK
<1>3. Queued
  BY DEF Init, Queued
<1>4. TxnLeases
  BY DEF Init, Closed, TxnLeases
<1>5. RunningIsAuthorised /\ PublishingIsApproved
  BY <1>1 DEF RunningIsAuthorised, PublishingIsApproved, Active
<1>6. WorkShowsLease
  BY DEF Init, WorkShowsLease
<1>7. ReservationLedger
  <2>1. {l \in Leases : ~lease[l].settled} = Leases
    BY <1>1
  <2> DEFINE f == [l \in Leases |-> lease[l].reservation]
  <2>2. \A l \in Leases : f[l] = 0
    BY <1>1
  <2>3. LedgerSum(lease) = Total(f, Leases)
    BY <2>1, LedgerIsTotal
  <2>4. IsFiniteSet(Leases)
    BY LeasesAreFinite
  <2> HIDE DEF f
  <2>5. Total(f, Leases) = 0
    BY <2>2, <2>4, TotalZero
  <2>6. ledger.reserved = 0
    BY DEF Init
  <2> QED BY <2>3, <2>5, <2>6, LedgerInv
<1> QED BY <1>2, <1>3, <1>4, <1>5, <1>6, <1>7 DEF GInv, Core, Shown

\* The strengthening holds of every behaviour.
THEOREM Governs == Spec => []GInv
<1>1. IInv /\ GInv /\ [Next]_vars => GInv'
  BY NextKeepsRows
<1> QED BY InitIsGoverned, <1>1, Invariance, PTL DEF Spec

\* reserved_tokens is, after every handler, exactly the sum of what the unsettled
\* leases reserve: no path through release, completion, revocation or an edited issue
\* settles a lease twice or forgets to.
THEOREM LedgerBalances == Spec => []ReservationLedger
BY Governs, PTL DEF GInv, Core, Shown

\* The state shown for an issue agrees with its lease at every moment.
THEOREM WorkIsShown == Spec => []WorkShowsLease
BY Governs, PTL DEF GInv, Core, Shown

\* Whoever runs is authorised to now, but for the leases that the transaction which
\* took the authority away has still to cancel.
THEOREM RunningStaysAuthorised == Spec => []RunningIsAuthorised
BY Governs, PTL DEF GInv, Core, Shown

\* What the App may publish has the approvals that the policy in force asks for, of the
\* commit it will publish.
THEOREM PublishedStaysApproved == Spec => []PublishingIsApproved
BY Governs, PTL DEF GInv, Core, Shown

\* An allocation passes to another contributor only after the whole stale period and
\* the whole recovery window of silence.
THEOREM HandoverIsLate == Spec => NoEarlyHandover
<1>1. IInv /\ GInv /\ [Next]_vars =>
        [\A l \in Leases : lease[l].state # "reassigned" /\ lease'[l].state = "reassigned" =>
           lease[l].age >= StaleAfter + RecoveryWindow]_vars
  BY NextKeepsRows DEF HandsOverLate
<1> QED BY Invariance, Governs, <1>1, PTL DEF Spec, NoEarlyHandover

\* A started lease that ends without a complete report is charged at least what it
\* reserved.
THEOREM UnknownIsCharged == Spec => UnknownIsNotFree
<1>1. IInv /\ GInv /\ [Next]_vars =>
        [\A l \in Leases :
           /\ lease[l].state \in Active \ {"offered"}
           /\ ~lease[l].settled /\ lease'[l].settled
           /\ ~Known(lease'[l].usage)
           => ledger'.spent >= ledger.spent + lease[l].reservation]_vars
  BY NextKeepsRows DEF ChargesUnknown
<1> QED BY Invariance, Governs, <1>1, PTL DEF Spec, UnknownIsNotFree

\* A work's handover checkpoint is moved only by its current holder.
THEOREM CheckpointStaysFenced == Spec => CheckpointIsFenced
<1>1. IInv /\ GInv /\ [Next]_vars =>
        [\A w \in Works : work'[w].checkpoint # work[w].checkpoint =>
           \/ /\ work'[w].checkpoint[1] = work[w].active
              /\ work[w].active # NoLease
           \/ /\ work'[w].generation > work[w].generation
              /\ lease'[work'[w].active].kind = "revision"]_vars
  BY NextKeepsRows DEF Fenced
<1> QED BY Invariance, Governs, <1>1, PTL DEF Spec, CheckpointIsFenced
=============================================================================
