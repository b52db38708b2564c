-------------------------- MODULE PublicationProofs --------------------------
(***************************************************************************)
(* Proofs about Publication: the coordinator, the webhooks of pull         *)
(* requests and the dispatchers together, for every number of people,      *)
(* issues, leases, dispatchers, reviews, failures, restarts and locks that *)
(* lapse.                                                                  *)
(*                                                                         *)
(* A webhook about a pull request ends the active lease unsettled and      *)
(* leaves the issue pointing to it, so of CoordinatorProofs' IInv the      *)
(* system keeps CInv only.  PubInv adds what a dispatcher may rely on      *)
(* between its transactions.  RoundInv and HeadInv are about the rounds of *)
(* a pull request and its branch, while an issue has one pull request.     *)
(* Last, the Core of GovernanceProofs is shown to hold of the system.      *)
(***************************************************************************)
EXTENDS Publication, GovernanceProofs

\* Leases are allocated in order, and the one an issue points to is its last.
InOrder ==
  /\ \A l, k \in Leases : k <= l /\ lease[l].state # "none" => lease[k].state # "none"
  /\ \A w \in Works : work[w].active # NoLease => \A k \in LeasesOf(w) : k <= work[w].active

\* A job is for the commit under review, which its contributor approved.
JobOK(l) ==
  job[l].state # "none" =>
    /\ lease[l].reviewed /\ lease[l].approved = lease[l].sha
    /\ job[l].sha = lease[l].sha /\ job[l].sha # NoVersion
JobsOK == \A l \in Leases : JobOK(l)

\* A delivery that may still fail has not failed too often.
AttemptsOK ==
  \A l \in Leases : job[l].state \in {"none", "pending", "working"} => attempts[l] < MaxAttempts

\* What is on a submission branch: nothing, what outsiders pushed, or a job's commit.
HeadOK(k) ==
  \/ remote[k].head \in {NoCommit, Foreign}
  \/ \E l \in Leases : job[l].state # "none" /\ remote[k].head = <<l, job[l].sha>>
HeadsOK == \A k \in Leases : HeadOK(k)

\* A recorded submission has a pull request; its head is the commit of the lease that
\* opened it or of a later one.
RecordedOK(k) ==
  Recorded(k) => /\ lease[k].state # "none" /\ remote[k].pr # "none"
                 /\ submission[k].head[1] \in k..MaxLeases
                 /\ submission[k].round >= 1
SubmissionsOK == \A k \in Leases : RecordedOK(k)

\* What a dispatcher may rely on between its transactions: its row has a job; while
\* the lock is its own nobody else moves that job on; it makes the requests of its
\* lease's kind; and what it is about to record as published has a pull request.
ClaimOK(d) ==
  LET c == claim[d] IN
  /\ c.phase = "idle" <=> c.lease = NoLease
  /\ c.phase # "idle" =>
       /\ job[c.lease].state # "none"
       /\ lock[c.lease] = d => job[c.lease].state = "working"
  /\ c.phase = "claimed" => ~c.valid
  /\ c.phase \in {"branch", "pr"} => lease[c.lease].kind = "initial" /\ c.pr = c.lease
  /\ c.phase = "update" => lease[c.lease].kind = "revision" /\ c.pr \in Leases
  /\ c.phase = "record" /\ c.valid /\ lease[c.lease].kind = "initial" =>
       remote[c.lease].pr # "none"
ClaimsOK == \A d \in Dispatchers : ClaimOK(d)

PubInv ==
  /\ CInv /\ PublicationTypeOK
  /\ InOrder /\ JobsOK /\ AttemptsOK /\ HeadsOK /\ SubmissionsOK /\ ClaimsOK
  /\ SubmittedIsOnGitHub /\ RoundsAreCountedOnce
-----------------------------------------------------------------------------
(* What steps leave of the rows *)

\* What no step takes from an allocated lease: whose issue it is for, which kind it has,
\* that it was submitted, and the evidence and approval once it is under review.
Carried ==
  \A l \in Leases : lease[l].state # "none" =>
    /\ lease'[l].state # "none"
    /\ lease'[l].work = lease[l].work /\ lease'[l].kind = lease[l].kind
    /\ lease[l].state = "submitted" => lease'[l].state = "submitted"
    /\ lease[l].reviewed => /\ lease'[l].reviewed /\ lease'[l].sha = lease[l].sha
                            /\ lease'[l].usage = lease[l].usage
                            /\ lease'[l].approved \in {lease[l].approved, lease[l].sha}

\* No lease is submitted in this step.
NoneSubmitted ==
  \A l \in Leases : lease'[l].state = "submitted" => lease[l].state = "submitted"

\* Submission rows change their state and age only, and none is inserted.
SubmissionsStay ==
  \A k \in Leases :
    /\ submission'[k].head = submission[k].head /\ submission'[k].round = submission[k].round
    /\ submission'[k].state = "none" <=> submission[k].state = "none"

\* A job stays a job for its commit, and none is inserted.
JobsStay ==
  \A l \in Leases : /\ job'[l].sha = job[l].sha
                    /\ job'[l].state = "none" <=> job[l].state = "none"

LEMMA LooseCarries ==
  ASSUME CInv, Loose
  PROVE  Carried
BY DEF CInv, Safe, RowsOK, Loose, Follows, Carried

\* What an allocation does: it inserts the next lease, and points the issue to it.
LEMMA AllocateDoes ==
  ASSUME CInv, NEW d \in Devices, NEW w \in Works, Allocate(d, w)
  PROVE  \E l \in Leases :
           /\ NextLease(l)
           /\ \A k \in Leases : k # l => lease'[k] = lease[k]
           /\ lease'[l].state \in {"offered", "running"} /\ lease'[l].work = w
           /\ \A v \in Works : v # w => work'[v] = work[v]
           /\ work'[w].active = l
<1>1. PICK l \in Leases : NextLease(l) /\ Grant(l, d, w)
  BY DEF Allocate
<1>2. TypeOK
  BY DEF CInv
<1>3. PICK q \in LeaseRows :
        /\ lease' = [lease EXCEPT ![l] = q]
        /\ q.state \in {"offered", "running"} /\ q.work = w
  BY <1>1, GrantRows
<1>4. PICK row \in WorkRows :
        /\ work' = [work EXCEPT ![w] = row]
        /\ row.active = l
  BY <1>1, GrantRows
<1>5. \A k \in Leases : lease'[k] = IF k = l THEN q ELSE lease[k]
  BY <1>2, <1>3 DEF TypeOK
<1>6. \A v \in Works : work'[v] = IF v = w THEN row ELSE work[v]
  BY <1>2, <1>4 DEF TypeOK
<1> QED BY <1>1, <1>3, <1>4, <1>5, <1>6

\* So every step of Coordinator carries the rows on, and submits none.
LEMMA KeptCarries ==
  ASSUME CInv, Kept
  PROVE  Carried /\ NoneSubmitted
<1>1. CASE Quiet
  <2>1. Loose /\ NoneSubmitted
    BY <1>1 DEF Quiet, Evolves, Loose, NoneSubmitted
  <2> QED BY <2>1, LooseCarries
<1>2. ASSUME NEW d \in Devices, NEW w \in Works, Allocate(d, w)
      PROVE  Carried /\ NoneSubmitted
  <2>1. PICK l \in Leases :
          /\ lease[l].state = "none"
          /\ \A k \in Leases : k # l => lease'[k] = lease[k]
          /\ lease'[l].state \in {"offered", "running"}
    BY <1>2, AllocateDoes DEF NextLease, Unborn
  <2>2. \A k \in Leases : RowOK(lease[k])
    BY DEF CInv, Safe, RowsOK
  <2> QED BY <2>1 DEF Carried, NoneSubmitted
<1> QED BY <1>1, <1>2 DEF Kept

\* The order of leases is kept by steps that allocate none,
LEMMA OrderStays ==
  ASSUME CInv, InOrder, Loose, PointersStay
  PROVE  InOrder'
<1>1. \A l \in Leases : /\ lease'[l].state = "none" <=> lease[l].state = "none"
                        /\ lease[l].state # "none" => lease'[l].work = lease[l].work
  BY DEF Loose, Follows
<1>2. \A w \in Works : LeasesOf(w)' = LeasesOf(w)
  BY <1>1 DEF LeasesOf
<1>3. \A w \in Works : work'[w].active # NoLease => work'[w].active = work[w].active
  BY DEF PointersStay
<1> QED BY <1>1, <1>2, <1>3 DEF InOrder

\* and by an allocation.
LEMMA AllocationIsInOrder ==
  ASSUME CInv, InOrder, NEW d \in Devices, NEW w \in Works, Allocate(d, w)
  PROVE  InOrder'
<1>1. PICK l \in Leases :
        /\ NextLease(l)
        /\ \A k \in Leases : k # l => lease'[k] = lease[k]
        /\ lease'[l].state \in {"offered", "running"} /\ lease'[l].work = w
        /\ \A v \in Works : v # w => work'[v] = work[v]
        /\ work'[w].active = l
  BY AllocateDoes
<1>2. /\ lease[l].state = "none"
      /\ \A k \in Leases : lease[k].state = "none" => l <= k
  BY <1>1 DEF NextLease, Unborn
<1>3. \A k \in Leases : lease[k].state # "none" => k < l
  BY <1>2 DEF InOrder, Leases
<1>4. \A k \in Leases : k <= l => lease'[k].state # "none"
  BY <1>1, <1>2 DEF Leases
<1>5. \A k \in Leases : lease'[k].state # "none" => k <= l
  BY <1>1, <1>3 DEF Leases
<1>6. \A j, k \in Leases : k <= j /\ lease'[j].state # "none" => lease'[k].state # "none"
  BY <1>4, <1>5 DEF Leases
<1>7. \A v \in Works : work'[v].active # NoLease => \A k \in LeasesOf(v)' : k <= work'[v].active
  <2> SUFFICES ASSUME NEW v \in Works, work'[v].active # NoLease, NEW k \in LeasesOf(v)'
               PROVE  k <= work'[v].active
    OBVIOUS
  <2>1. k \in Leases /\ lease'[k].state # "none" /\ lease'[k].work = v
    BY DEF LeasesOf
  <2>2. CASE v = w
    BY <1>1, <1>5, <2>1, <2>2
  <2>3. CASE v # w
    BY <1>1, <2>1, <2>3 DEF InOrder, LeasesOf
  <2> QED BY <2>2, <2>3
<1> QED BY <1>6, <1>7 DEF InOrder
-----------------------------------------------------------------------------
(* What the steps of Coordinator leave of submissions and jobs *)

\* A submission row that changes its state and age only.
LEMMA OneSubmission ==
  ASSUME TypeOK, NEW k \in Leases, submission[k].state # "none",
         NEW s \in SubmissionStates \ {"none"},
         submission' = [submission EXCEPT ![k].state = s, ![k].since = 0]
  PROVE  SubmissionsStay /\ submission' \in [Leases -> SubmissionRows]
<1> DEFINE row == [submission[k] EXCEPT !.state = s, !.since = 0]
<1>1. submission \in [Leases -> SubmissionRows] /\ submission[k] \in SubmissionRows
  BY DEF TypeOK
<1>2. submission' = [submission EXCEPT ![k] = row]
  BY <1>1
<1>3. 0 \in 0..MaxAffinity
  BY BoundsAssumption
<1>4. row \in SubmissionRows /\ row.state = s
      /\ row.head = submission[k].head /\ row.round = submission[k].round
  BY <1>1, <1>3 DEF SubmissionRows
<1> HIDE DEF row
<1>5. \A j \in Leases : submission'[j] = IF j = k THEN row ELSE submission[j]
  BY <1>1, <1>2
<1>6. submission' \in [Leases -> SubmissionRows]
  BY <1>1, <1>2, <1>4
<1> QED BY <1>4, <1>5, <1>6 DEF SubmissionsStay

LEMMA ReleaseSubmissions ==
  ASSUME TypeOK, NEW l \in Leases, NEW terminal, NEW requeue \in BOOLEAN,
         Release(l, terminal, requeue)
  PROVE  SubmissionsStay
<1>1. CASE submission' = submission
  BY <1>1 DEF SubmissionsStay
<1>2. ASSUME NEW k \in SubmissionsOf(lease[l].work),
             submission' = [submission EXCEPT ![k].state = "changes_requested",
                                              ![k].since = 0]
      PROVE  SubmissionsStay
  <2>1. k \in Leases /\ submission[k].state # "none"
    BY DEF SubmissionsOf
  <2>2. "changes_requested" \in SubmissionStates \ {"none"}
    BY DEF SubmissionStates
  <2> QED BY <1>2, <2>1, <2>2, OneSubmission
<1> QED BY <1>1, <1>2 DEF Release, ReopenRound

LEMMA AllocateSubmissions ==
  ASSUME TypeOK, NEW d, NEW w, Allocate(d, w)
  PROVE  SubmissionsStay
<1>1. CASE submission' = submission
  BY <1>1 DEF SubmissionsStay
<1>2. ASSUME NEW k \in SubmissionsOf(w),
             submission' = [submission EXCEPT ![k].state = "revising", ![k].since = 0]
      PROVE  SubmissionsStay
  <2>1. k \in Leases /\ submission[k].state # "none"
    BY DEF SubmissionsOf
  <2>2. "revising" \in SubmissionStates \ {"none"}
    BY DEF SubmissionStates
  <2> QED BY <1>2, <2>1, <2>2, OneSubmission
<1> QED BY <1>1, <1>2 DEF Allocate, Grant

LEMMA EndSweepSubmissions ==
  ASSUME TypeOK, EndSweep
  PROVE  SubmissionsStay
<1>1. PICK f \in [Works -> Leases] :
        submission' = [k \in Leases |->
            IF EscalationDue(k) /\ f[lease[k].work] = k THEN Escalated(k)[k]
                                                        ELSE submission[k]]
  BY DEF EndSweep
<1>2. ASSUME NEW k \in Leases, EscalationDue(k)
      PROVE  /\ Escalated(k)[k].head = submission[k].head
             /\ Escalated(k)[k].round = submission[k].round
             /\ Escalated(k)[k].state # "none" /\ submission[k].state # "none"
  BY <1>2 DEF Escalated, EscalationDue, TypeOK, SubmissionRows
<1> QED BY <1>1, <1>2 DEF SubmissionsStay

LEMMA TickSubmissions ==
  ASSUME TypeOK, Tick
  PROVE  SubmissionsStay
BY DEF Tick, TypeOK, SubmissionRows, SubmissionsStay

\* Every step of Coordinator leaves heads and rounds as they are.
LEMMA NextSubmissions ==
  ASSUME TypeOK, Next
  PROVE  SubmissionsStay
<1>1. CASE UNCHANGED submission
  BY <1>1 DEF SubmissionsStay
<1>2. ASSUME NEW l \in Leases, NEW terminal, NEW requeue \in BOOLEAN,
             Release(l, terminal, requeue)
      PROVE  SubmissionsStay
  BY <1>2, ReleaseSubmissions
<1>3. ASSUME NEW d, NEW w, Allocate(d, w) PROVE SubmissionsStay
  BY <1>3, AllocateSubmissions
<1>4. CASE Tick \/ EndSweep
  BY <1>4, TickSubmissions, EndSweepSubmissions
<1>5. CASE Sweep
  BY <1>1, <1>5 DEF Sweep, workVars
<1>6. CASE OpenTransaction
  <2>1. CASE \E l \in Leases : SweepOffer(l) \/ SweepHandover(l) \/ CancelNext(l)
    BY <1>2, <2>1 DEF SweepOffer, SweepHandover, CancelNext
  <2>2. CASE AllocateHandover \/ PollGoesOn
    BY <1>1, <1>3, <2>2 DEF AllocateHandover, PollGoesOn, TakeOldest, workVars
  <2> QED BY <1>4, <1>6, <2>1, <2>2 DEF OpenTransaction
<1>7. CASE Governance
  <2>1. ASSUME NEW a \in Users, NEW u \in Users, NEW setting \in MemberSettings,
               UpdateMember(a, u, setting)
        PROVE  SubmissionsStay
    BY <1>1, <1>2, <2>1 DEF UpdateMember, HeldBy
  <2> QED BY <1>1, <1>7, <2>1 DEF Governance, Watch, UpdateProject, RevokeInstallation, workVars
<1>8. ASSUME NEW l \in Leases, WorkerStep(l) PROVE SubmissionsStay
  BY <1>1, <1>8 DEF WorkerStep, Heartbeat, HeartbeatWithUsage, Checkpoint, Complete, Block
<1>9. ASSUME NEW l \in Leases, HumanStep(l) PROVE SubmissionsStay
  BY <1>1, <1>2, <1>9 DEF HumanStep, Accept, Deny, Recover, Dib, Approve
<1>10. ASSUME NEW d \in Devices, DeviceStep(d) PROVE SubmissionsStay
  <2>1. CASE PollAllocates(d)
    BY <1>3, <2>1 DEF PollAllocates, TakeOldest
  <2>2. CASE PollReclaims(d) \/ RevokeDevice(d)
    BY <1>1, <1>2, <2>2 DEF PollReclaims, RevokeDevice, HeldBy
  <2> QED BY <1>1, <1>10, <2>1, <2>2 DEF DeviceStep, CreateDevice, ToggleDevice, workVars
<1>11. ASSUME NEW w \in Works, IssueStep(w) PROVE SubmissionsStay
  BY <1>1, <1>11 DEF IssueStep, Validate, Ingest
<1> QED BY <1>4, <1>5, <1>6, <1>7, <1>8, <1>9, <1>10, <1>11 DEF Next

\* Only an approval inserts a job; no other handler of Coordinator writes one.
LEMMA NextJobs ==
  ASSUME Next
  PROVE  \/ UNCHANGED job
         \/ \E u \in Users, l \in Leases, v \in Versions : Approve(u, l, v)
<1>1. CASE Tick \/ Sweep \/ OpenTransaction
  BY <1>1 DEF Tick, Sweep, OpenTransaction, SweepOffer, SweepHandover, CancelNext,
              AllocateHandover, EndSweep, PollGoesOn, workVars
<1>2. CASE Governance
  BY <1>2 DEF Governance, Watch, UpdateMember, UpdateProject, RevokeInstallation, workVars
<1>3. ASSUME NEW l \in Leases, WorkerStep(l) PROVE UNCHANGED job
  BY <1>3 DEF WorkerStep, Heartbeat, HeartbeatWithUsage, Checkpoint, Complete, Block
<1>4. ASSUME NEW l \in Leases, HumanStep(l)
      PROVE  UNCHANGED job \/ \E u \in Users, v \in Versions : Approve(u, l, v)
  BY <1>4 DEF HumanStep, Accept, Deny, Recover, Dib
<1>5. ASSUME NEW d \in Devices, DeviceStep(d) PROVE UNCHANGED job
  BY <1>5 DEF DeviceStep, PollAllocates, PollReclaims, CreateDevice, RevokeDevice,
              ToggleDevice, workVars
<1>6. ASSUME NEW w \in Works, IssueStep(w) PROVE UNCHANGED job
  BY <1>6 DEF IssueStep, Validate, Ingest
<1> QED BY <1>1, <1>2, <1>3, <1>4, <1>5, <1>6 DEF Next

\* An approval queues the publication of the commit it approves, with the approval of
\* the contributor, and leaves the jobs of other leases alone.
LEMMA ApproveJobs ==
  ASSUME CInv, JobsOK, NEW u \in Users, NEW l \in Leases, NEW v \in Versions,
         Approve(u, l, v), Carried
  PROVE  /\ \A k \in Leases : job[k].state # "none" => job'[k] = job[k]
         /\ \A k \in Leases : job'[k] = job[k] \/ job'[k].state = "pending"
         /\ JobsOK'
<1>1. /\ lease[l].state = "awaiting_review" /\ v = lease[l].sha /\ v # NoVersion
      /\ lease[l] \in LeaseRows /\ job \in [Leases -> [state : JobStates, sha : 0..MaxVersion]]
  BY DEF Approve, CInv, TypeOK, Versions, NoVersion
<1>2. lease[l].reviewed /\ lease[l].approved \in {NoVersion, v}
  BY <1>1 DEF CInv, Safe, RowsOK, RowOK
<1>3. CASE UNCHANGED job
  <2>1. \A k \in Leases : job[k].state # "none" => lease[k].state # "none"
    BY DEF JobsOK, JobOK, CInv, Safe, RowsOK, RowOK
  <2>2. JobsOK'
    BY <1>3, <2>1 DEF JobsOK, JobOK, Carried
  <2> QED BY <1>3, <2>2
<1>4. CASE FullyApproved(Approvals(u, l, v)) /\ job[l].state = "none"
  <2> DEFINE r == Approvals(u, l, v)
             q == [r EXCEPT !.state = "publishing"]
             new == [state |-> "pending", sha |-> v]
  <2>1. lease' = [lease EXCEPT ![l] = q] /\ job' = [job EXCEPT ![l] = new]
    BY <1>4 DEF Approve
  <2>2. r.approved = v /\ r.sha = v /\ r.reviewed
    BY <1>1, <1>2, <1>4 DEF Approvals, FullyApproved, LeaseRows
  <2>3. q.approved = v /\ q.sha = v /\ q.reviewed
    BY <1>1, <2>2 DEF Approvals, LeaseRows
  <2> HIDE DEF q, r
  <2>4. lease'[l].approved = v /\ lease'[l].sha = v /\ lease'[l].reviewed
    BY <2>1, <2>3 DEF CInv, TypeOK
  <2>5. \A k \in Leases : job'[k] = IF k = l THEN new ELSE job[k]
    BY <1>1, <2>1
  <2>6. \A k \in Leases : job[k].state # "none" => lease[k].state # "none"
    BY DEF JobsOK, JobOK, CInv, Safe, RowsOK, RowOK
  <2>7. JobsOK'
    BY <1>1, <2>4, <2>5, <2>6 DEF JobsOK, JobOK, Carried
  <2> QED BY <1>4, <2>5, <2>7
<1>5. UNCHANGED job \/ (FullyApproved(Approvals(u, l, v)) /\ job[l].state = "none")
  BY DEF Approve
<1> QED BY <1>3, <1>4, <1>5
-----------------------------------------------------------------------------
(* Counting the rounds *)

\* The rounds after the first of the submission rows in U.
RoundsOf(subs, U) == MapThenSumSet(LAMBDA k : subs[k].round - 1, U)
\* The submitted revisions of issue w.
Revised(w) == {l \in LeasesOf(w) : lease[l].kind = "revision" /\ lease[l].state = "submitted"}

LEMMA RoundsInv ==
  RoundsAreCountedOnce <=>
    \A w \in Works : RoundsOf(submission, SubmissionsOf(w)) = Cardinality(Revised(w))
BY DEF RoundsAreCountedOnce, RoundsOf, Revised, MapThenSumSet, MapThenFoldSet

LEMMA RoundsInvNext ==
  RoundsAreCountedOnce' <=>
    \A w \in Works : RoundsOf(submission', SubmissionsOf(w)') = Cardinality(Revised(w)')
BY DEF RoundsAreCountedOnce, RoundsOf, Revised, MapThenSumSet, MapThenFoldSet

LEMMA RoundsAreTotal ==
  ASSUME NEW subs, NEW U \in SUBSET Leases
  PROVE  RoundsOf(subs, U) = Total([k \in Leases |-> subs[k].round - 1], U)
<1> DEFINE f == [k \in Leases |-> subs[k].round - 1]
           Sums(g) == g = [s \in SUBSET U |->
                             IF s = {} THEN 0
                             ELSE LET x == CHOOSE x \in s : TRUE
                                  IN  (subs[x].round - 1) + g[s \ {x}]]
<1>1. RoundsOf(subs, U) = (CHOOSE g : Sums(g))[U]
  BY DEF MapThenSumSet, MapThenFoldSet, RoundsOf
<1>2. ASSUME NEW g PROVE Sums(g) <=> Summing(g, f, U)
  <2>1. \A s \in SUBSET U : s # {} =>
          f[CHOOSE x \in s : TRUE] = subs[CHOOSE x \in s : TRUE].round - 1
    OBVIOUS
  <2> HIDE DEF f
  <2> QED BY <2>1 DEF Summing
<1> HIDE DEF f, Sums
<1>3. (CHOOSE g : Sums(g)) = (CHOOSE g : Summing(g, f, U))
  BY <1>2
<1> QED BY <1>1, <1>3 DEF Total, f

\* Rows of the same rounds sum to the same; a row of round 1 adds nothing;
LEMMA RoundsSame ==
  ASSUME NEW subs, NEW news, NEW U \in SUBSET Leases, \A k \in U : news[k].round = subs[k].round
  PROVE  RoundsOf(news, U) = RoundsOf(subs, U)
<1> DEFINE f == [k \in Leases |-> subs[k].round - 1]
           h == [k \in Leases |-> news[k].round - 1]
<1>1. \A k \in U : h[k] = f[k]
  OBVIOUS
<1>2. RoundsOf(subs, U) = Total(f, U) /\ RoundsOf(news, U) = Total(h, U)
  BY RoundsAreTotal
<1> HIDE DEF f, h
<1> QED BY <1>1, <1>2, LeasesAreFinite, TotalSame

LEMMA RoundsGain ==
  ASSUME NEW subs, NEW news, NEW U \in SUBSET Leases, NEW k \in Leases, k \notin U,
         \A j \in U : news[j].round = subs[j].round /\ subs[j].round \in Nat \ {0},
         news[k].round = 1
  PROVE  RoundsOf(news, U \cup {k}) = RoundsOf(subs, U)
<1> DEFINE h == [j \in Leases |-> news[j].round - 1]
           V == U \cup {k}
<1>1. V \in SUBSET Leases /\ k \in V /\ V \ {k} = U
  OBVIOUS
<1>2. \A j \in V : h[j] \in Nat
  OBVIOUS
<1>3. h[k] = 0
  OBVIOUS
<1>4. RoundsOf(news, V) = Total(h, V) /\ RoundsOf(news, U) = Total(h, U)
  BY <1>1, RoundsAreTotal
<1> HIDE DEF h, V
<1>5. Total(h, V) = h[k] + Total(h, U) /\ Total(h, V) \in Nat
  BY <1>1, <1>2, LeasesAreFinite, TotalRemove
<1>6. Total(h, U) \in Nat
  BY <1>1, <1>2, LeasesAreFinite, TotalRemove
<1>7. RoundsOf(news, U) = RoundsOf(subs, U)
  BY RoundsSame
<1> QED BY <1>3, <1>4, <1>5, <1>6, <1>7 DEF V

\* and a row whose round goes up adds one.
LEMMA RoundsRise ==
  ASSUME NEW subs, NEW news, NEW U \in SUBSET Leases, NEW k \in U,
         \A j \in U : j # k => news[j].round = subs[j].round,
         \A j \in U : subs[j].round \in Nat \ {0},
         news[k].round = subs[k].round + 1
  PROVE  RoundsOf(subs, U) \in Nat /\ RoundsOf(news, U) = RoundsOf(subs, U) + 1
<1> DEFINE f == [j \in Leases |-> subs[j].round - 1]
           h == [j \in Leases |-> news[j].round - 1]
           V == U \ {k}
<1>1. V \in SUBSET Leases /\ k \in Leases
  OBVIOUS
<1>2. \A j \in U : f[j] \in Nat /\ h[j] \in Nat
  OBVIOUS
<1>3. h[k] = f[k] + 1 /\ \A j \in V : h[j] = f[j]
  OBVIOUS
<1>4. RoundsOf(news, U) = Total(h, U) /\ RoundsOf(subs, U) = Total(f, U)
  BY RoundsAreTotal
<1> HIDE DEF h, f
<1>5. Total(h, U) = h[k] + Total(h, V)
  BY <1>2, LeasesAreFinite, TotalRemove
<1>6. Total(f, U) = f[k] + Total(f, V) /\ Total(f, U) \in Nat
  BY <1>2, LeasesAreFinite, TotalRemove
<1>7. \A j \in V : f[j] \in Nat
  BY <1>2
<1> HIDE DEF V
<1>8. Total(f, V) \in Nat
  BY <1>1, <1>7, LeasesAreFinite, TotalRemove
<1>9. Total(h, V) = Total(f, V)
  BY <1>1, <1>3, LeasesAreFinite, TotalSame
<1> QED BY <1>2, <1>3, <1>4, <1>5, <1>6, <1>8, <1>9
-----------------------------------------------------------------------------
(* What keeps each part of the invariant *)

\* Jobs that stay, and evidence that is carried on.
LEMMA JobsStayOK ==
  ASSUME CInv, JobsOK, Carried, JobsStay
  PROVE  JobsOK'
<1>1. \A k \in Leases : job[k].state # "none" => lease[k].state # "none"
  BY DEF JobsOK, JobOK, CInv, Safe, RowsOK, RowOK
<1> QED BY <1>1 DEF JobsOK, JobOK, Carried, JobsStay

LEMMA HeadsStay ==
  ASSUME HeadsOK,
         \A k \in Leases : job[k].state # "none" => job'[k].state # "none"
                                                    /\ job'[k].sha = job[k].sha,
         \A k \in Leases : remote'[k].head = remote[k].head \/ remote'[k].head = Foreign
  PROVE  HeadsOK'
<1> SUFFICES ASSUME NEW k \in Leases PROVE HeadOK(k)'
  BY DEF HeadsOK
<1>1. CASE remote[k].head \in {NoCommit, Foreign} \/ remote'[k].head = Foreign
  BY <1>1 DEF HeadOK
<1>2. ASSUME NEW l \in Leases, job[l].state # "none", remote[k].head = <<l, job[l].sha>>,
             remote'[k].head = remote[k].head
      PROVE  HeadOK(k)'
  BY <1>2 DEF HeadOK
<1> QED BY <1>1, <1>2 DEF HeadsOK, HeadOK

LEMMA SubmissionsStayOK ==
  ASSUME SubmissionsOK, Carried, SubmissionsStay,
         \A k \in Leases : remote[k].pr # "none" => remote'[k].pr # "none"
  PROVE  SubmissionsOK'
BY DEF SubmissionsOK, RecordedOK, Recorded, Carried, SubmissionsStay

LEMMA SubmittedStays ==
  ASSUME SubmittedIsOnGitHub, SubmissionsOK, Carried, NoneSubmitted, SubmissionsStay,
         \A k \in Leases : remote[k].pr # "none" => remote'[k].pr # "none"
  PROVE  SubmittedIsOnGitHub'
<1> SUFFICES ASSUME NEW l \in Leases, lease'[l].state = "submitted"
             PROVE  \E k \in SubmissionsOf(lease[l].work)' :
                      remote'[k].pr # "none" /\ submission'[k].head[1] >= l
  BY DEF SubmittedIsOnGitHub
<1>1. lease[l].state = "submitted" /\ lease'[l].work = lease[l].work
  BY DEF NoneSubmitted, Carried
<1>2. PICK k \in SubmissionsOf(lease[l].work) :
        remote[k].pr # "none" /\ submission[k].head[1] >= l
  BY <1>1 DEF SubmittedIsOnGitHub
<1>3. k \in Leases /\ Recorded(k) /\ lease[k].state # "none"
  BY <1>2 DEF SubmissionsOf, Recorded, SubmissionsOK, RecordedOK
<1>4. k \in SubmissionsOf(lease[l].work)'
  BY <1>1, <1>2, <1>3 DEF SubmissionsOf, Recorded, SubmissionsStay, Carried
<1> QED BY <1>2, <1>3, <1>4 DEF SubmissionsStay

LEMMA RoundsStay ==
  ASSUME RoundsAreCountedOnce, SubmissionsOK, Carried, NoneSubmitted, SubmissionsStay
  PROVE  RoundsAreCountedOnce'
<1> SUFFICES ASSUME NEW w \in Works
             PROVE  RoundsOf(submission', SubmissionsOf(w)') = Cardinality(Revised(w)')
  BY RoundsInvNext
<1>1. RoundsOf(submission, SubmissionsOf(w)) = Cardinality(Revised(w))
  BY RoundsInv
<1>2. SubmissionsOf(w)' = SubmissionsOf(w)
  BY DEF SubmissionsOf, SubmissionsStay, SubmissionsOK, RecordedOK, Recorded, Carried
<1>3. Revised(w)' = Revised(w)
  BY DEF Revised, LeasesOf, Carried, NoneSubmitted
<1>4. SubmissionsOf(w) \in SUBSET Leases
  BY DEF SubmissionsOf
<1>5. \A k \in SubmissionsOf(w) : submission'[k].round = submission[k].round
  BY <1>4 DEF SubmissionsStay
<1>6. RoundsOf(submission', SubmissionsOf(w)) = RoundsOf(submission, SubmissionsOf(w))
  BY <1>4, <1>5, RoundsSame
<1> QED BY <1>1, <1>2, <1>3, <1>6

\* A dispatcher's claim, when its job goes on and the rows are carried on.
LEMMA ClaimStays ==
  ASSUME PublicationTypeOK, CInv, JobsOK, Carried, NEW d \in Dispatchers, ClaimOK(d),
         claim'[d] = claim[d],
         \A l \in Leases : lock'[l] = d => lock[l] = d,
         \A l \in Leases : job[l].state # "none" => job'[l].state # "none",
         \A l \in Leases : lock[l] = d /\ claim[d].lease = l /\ job[l].state = "working" =>
           job'[l].state = "working" \/ lock'[l] # d,
         \A k \in Leases : remote[k].pr # "none" => remote'[k].pr # "none"
  PROVE  ClaimOK(d)'
<1> DEFINE l == claim[d].lease
<1>1. CASE claim[d].phase = "idle"
  BY <1>1 DEF ClaimOK
<1>2. CASE claim[d].phase # "idle"
  <2>1. l \in Leases
    BY <1>2 DEF ClaimOK, PublicationTypeOK
  <2>2. job[l].state # "none" /\ lease[l].state # "none"
    BY <1>2, <2>1 DEF ClaimOK, JobsOK, JobOK, CInv, Safe, RowsOK, RowOK
  <2>3. lease'[l].kind = lease[l].kind
    BY <2>1, <2>2 DEF Carried
  <2> QED BY <1>2, <2>1, <2>2, <2>3 DEF ClaimOK
<1> QED BY <1>1, <1>2
-----------------------------------------------------------------------------
(* Steps that write no row of the coordinator but jobs *)

coordinatorRows == <<project, ledger, member, device, declined, work, lease, submission, txn>>

LEMMA RowsUntouched ==
  ASSUME PubInv, UNCHANGED coordinatorRows, JobsStay,
         job' \in [Leases -> [state : JobStates, sha : 0..MaxVersion]],
         \A k \in Leases : remote[k].pr # "none" => remote'[k].pr # "none"
  PROVE  /\ CInv' /\ Carried /\ NoneSubmitted
         /\ InOrder' /\ JobsOK' /\ SubmissionsOK'
         /\ SubmittedIsOnGitHub' /\ RoundsAreCountedOnce'
<1> USE DEF coordinatorRows
<1>1. CInv /\ SubmissionsOK /\ SubmittedIsOnGitHub /\ RoundsAreCountedOnce /\ JobsOK /\ InOrder
  BY DEF PubInv
<1>2. UNCHANGED <<lease, work>> /\ UNCHANGED submission
  OBVIOUS
<1>3. Quiet /\ PointersStay /\ Safe'
  BY <1>1, <1>2, NoRow
<1>4. TypeOK' /\ TxnOK'
  BY <1>1 DEF CInv, TypeOK, TxnOK
<1>5. Loose /\ NoneSubmitted
  BY <1>2 DEF Loose, NoneSubmitted
<1>6. Carried
  BY <1>1, <1>5, LooseCarries
<1>7. SubmissionsStay
  BY <1>2 DEF SubmissionsStay
<1>8. InOrder' /\ JobsOK' /\ SubmissionsOK' /\ RoundsAreCountedOnce'
  BY <1>1, <1>3, <1>5, <1>6, <1>7, OrderStays, JobsStayOK, SubmissionsStayOK, RoundsStay
<1>9. SubmittedIsOnGitHub'
  BY <1>1, <1>5, <1>6, <1>7, SubmittedStays
<1> QED BY <1>3, <1>4, <1>5, <1>6, <1>8, <1>9 DEF CInv

\* A step of GitHub or of its users.
LEMMA GitHubKeeps ==
  ASSUME PubInv, GitHubStep, UNCHANGED publicationVars
  PROVE  PubInv' /\ Carried
<1>1. IterationTypeOK
  BY DEF PubInv, PublicationTypeOK
<1>2. /\ UNCHANGED vars
      /\ IterationTypeOK'
      /\ \A k \in Leases : remote[k].pr # "none" => remote'[k].pr # "none"
      /\ \A k \in Leases : remote'[k].head = remote[k].head \/ remote'[k].head = Foreign
  <2>1. ASSUME NEW k \in Leases, NEW type \in Triggers \cup {"approved"},
               NEW mentions \in Mentions \cup {{}}, WriteReview(k, type, mentions)
        PROVE  /\ UNCHANGED vars /\ IterationTypeOK' /\ UNCHANGED remote
    <3> DEFINE hook == [Hook(type, k, remote[k].head) EXCEPT !.id = reviews + 1,
                                                             !.mentions = mentions]
    <3>1. reviews + 1 \in ReviewIds /\ reviews' = reviews + 1
      BY <1>1, <2>1, ReviewsAssumption DEF WriteReview, IterationTypeOK, ReviewIds
    <3>2. hook \in Webhooks
      BY <1>1, <3>1, ReviewsAssumption DEF Hook, Webhooks, IterationTypeOK
    <3>3. webhooks' = webhooks \cup {hook}
      BY <2>1 DEF WriteReview
    <3> QED BY <1>1, <2>1, <3>1, <3>2, <3>3 DEF WriteReview, IterationTypeOK, ReviewIds
  <2>2. ASSUME NEW k \in Leases, PushForeign(k)
        PROVE  /\ UNCHANGED vars /\ IterationTypeOK'
               /\ \A j \in Leases : remote[j].pr # "none" => remote'[j].pr # "none"
               /\ \A j \in Leases : remote'[j].head = remote[j].head \/ remote'[j].head = Foreign
    <3>1. Hook("synchronize", k, Foreign) \in Webhooks /\ Foreign \in Heads
      BY DEF Hook, Webhooks, Heads
    <3> QED BY <1>1, <2>2, <3>1 DEF PushForeign, IterationTypeOK
  <2>3. ASSUME NEW k \in Leases, NEW how \in Closures, EndPullRequest(k, how)
        PROVE  /\ UNCHANGED vars /\ IterationTypeOK'
               /\ \A j \in Leases : remote[j].pr # "none" => remote'[j].pr # "none"
               /\ \A j \in Leases : remote'[j].head = remote[j].head
    <3>1. how \in {"merged", "closed"}
      BY ReviewsAssumption
    <3>2. Hook(how, k, remote[k].head) \in Webhooks
      BY <1>1, <3>1 DEF Hook, Webhooks, IterationTypeOK
    <3> QED BY <1>1, <2>3, <3>1, <3>2 DEF EndPullRequest, IterationTypeOK
  <2>4. ASSUME NEW m, LoseWebhook(m)
        PROVE  UNCHANGED vars /\ IterationTypeOK' /\ UNCHANGED remote
    BY <1>1, <2>4 DEF LoseWebhook, IterationTypeOK
  <2> QED BY <2>1, <2>2, <2>3, <2>4 DEF GitHubStep
<1>3. UNCHANGED coordinatorRows /\ UNCHANGED job
  BY <1>2 DEF vars, coordinatorRows
<1>4. JobsStay /\ job' \in [Leases -> [state : JobStates, sha : 0..MaxVersion]]
  BY <1>3 DEF JobsStay, PubInv, CInv, TypeOK
<1>5. /\ CInv' /\ Carried /\ InOrder' /\ JobsOK' /\ SubmissionsOK'
      /\ SubmittedIsOnGitHub' /\ RoundsAreCountedOnce'
  BY <1>2, <1>3, <1>4, RowsUntouched
<1>6. PublicationTypeOK'
  BY <1>2, <1>5 DEF PubInv, PublicationTypeOK, publicationVars, CInv
<1>7. HeadsOK'
  BY <1>2, <1>3, HeadsStay DEF PubInv
<1>8. AttemptsOK'
  BY <1>3 DEF PubInv, AttemptsOK, publicationVars
<1>9. ClaimsOK'
  BY <1>2, <1>3, <1>5, ClaimStays DEF PubInv, ClaimsOK, publicationVars
<1> QED BY <1>5, <1>6, <1>7, <1>8, <1>9 DEF PubInv

\* A step of the coordinator.
LEMMA CoordinatorKeeps ==
  ASSUME PubInv, Next, UNCHANGED <<iterationVars, publicationVars>>
  PROVE  PubInv' /\ Carried
<1>1. CInv /\ TypeOK /\ JobsOK /\ SubmissionsOK /\ SubmittedIsOnGitHub
      /\ RoundsAreCountedOnce /\ HeadsOK /\ InOrder /\ ClaimsOK /\ AttemptsOK
      /\ PublicationTypeOK
  BY DEF PubInv, CInv
<1>2. Kept
  BY <1>1, NextKeeps
<1>3. CInv'
  BY <1>2 DEF Kept, CInv
<1>4. Carried /\ NoneSubmitted /\ SubmissionsStay
  BY <1>1, <1>2, KeptCarries, NextSubmissions
<1>5. /\ \A k \in Leases : job[k].state # "none" => job'[k] = job[k]
      /\ \A k \in Leases : job'[k] = job[k] \/ job'[k].state = "pending"
      /\ JobsOK'
  <2>1. CASE UNCHANGED job
    <3>1. JobsStay
      BY <2>1 DEF JobsStay
    <3> QED BY <1>1, <1>4, <2>1, <3>1, JobsStayOK
  <2>2. ASSUME NEW u \in Users, NEW l \in Leases, NEW v \in Versions, Approve(u, l, v)
        PROVE  /\ \A k \in Leases : job[k].state # "none" => job'[k] = job[k]
               /\ \A k \in Leases : job'[k] = job[k] \/ job'[k].state = "pending"
               /\ JobsOK'
    BY <1>1, <1>4, <2>2, ApproveJobs
  <2> QED BY <2>1, <2>2, NextJobs
<1>6. UNCHANGED remote /\ UNCHANGED <<claim, lock, attempts>>
  BY DEF iterationVars, publicationVars
<1>7. InOrder'
  BY <1>1, <1>2, OrderStays, AllocationIsInOrder DEF Kept, Quiet, Loose, Evolves
<1>8. SubmissionsOK' /\ SubmittedIsOnGitHub' /\ RoundsAreCountedOnce'
  BY <1>1, <1>4, <1>6, SubmissionsStayOK, SubmittedStays, RoundsStay
<1>9. HeadsOK'
  BY <1>1, <1>5, <1>6, HeadsStay
<1>10. AttemptsOK'
  BY <1>1, <1>5, <1>6 DEF AttemptsOK
<1>11. ClaimsOK'
  BY <1>1, <1>4, <1>5, <1>6, ClaimStays DEF ClaimsOK
<1>12. PublicationTypeOK'
  BY <1>1, <1>3 DEF PublicationTypeOK, IterationTypeOK, iterationVars, publicationVars, CInv
<1> QED BY <1>3, <1>4, <1>5, <1>7, <1>8, <1>9, <1>10, <1>11, <1>12 DEF PubInv
-----------------------------------------------------------------------------
(* The dispatchers, until they record the outcome *)

ClaimRows == [phase : Phases, lease : Leases \cup {NoLease}, pr : Leases \cup {NoLease},
              valid : BOOLEAN]
JobRows == [state : JobStates, sha : 0..MaxVersion]

LEMMA DispatcherTypes ==
  ASSUME PubInv
  PROVE  /\ IterationTypeOK /\ TypeOK /\ claim \in [Dispatchers -> ClaimRows]
         /\ lock \in [Leases -> Dispatchers \cup {Nobody}] /\ free \in [Leases -> BOOLEAN]
         /\ attempts \in [Leases -> 0..MaxAttempts] /\ job \in [Leases -> JobRows]
         /\ mishaps \in [crashes : 0..MaxCrashes, lapses : 0..MaxLapses]
         /\ Idle \in ClaimRows
BY DEF PubInv, PublicationTypeOK, ClaimRows, JobRows, TypeOK, Idle, Phases

\* A dispatcher at work has a lease with a job.
LEMMA ClaimKnown ==
  ASSUME PubInv, NEW d \in Dispatchers, claim[d].phase # "idle"
  PROVE  claim[d].lease \in Leases /\ job[claim[d].lease].state # "none"
BY DispatcherTypes DEF PubInv, ClaimsOK, ClaimOK, ClaimRows

\* A step that writes nothing of the coordinator but jobs, and what is left to show of it.
LEMMA DispatcherFrame ==
  ASSUME PubInv, UNCHANGED coordinatorRows, JobsStay, job' \in [Leases -> JobRows],
         \A k \in Leases : remote[k].pr # "none" => remote'[k].pr # "none",
         IterationTypeOK', claim' \in [Dispatchers -> ClaimRows],
         lock' \in [Leases -> Dispatchers \cup {Nobody}], free' \in [Leases -> BOOLEAN],
         attempts' \in [Leases -> 0..MaxAttempts],
         mishaps' \in [crashes : 0..MaxCrashes, lapses : 0..MaxLapses],
         HeadsOK', AttemptsOK', ClaimsOK'
  PROVE  PubInv' /\ Carried
<1>1. /\ CInv' /\ Carried /\ InOrder' /\ JobsOK' /\ SubmissionsOK'
      /\ SubmittedIsOnGitHub' /\ RoundsAreCountedOnce'
  BY RowsUntouched DEF JobRows
<1>2. PublicationTypeOK'
  BY <1>1 DEF PublicationTypeOK, CInv, ClaimRows
<1> QED BY <1>1, <1>2 DEF PubInv

\* One dispatcher moves on; jobs, locks and failures are left alone.
LEMMA OneClaimKeeps ==
  ASSUME PubInv, NEW d \in Dispatchers, NEW c \in ClaimRows, claim' = [claim EXCEPT ![d] = c],
         UNCHANGED coordinatorRows, UNCHANGED job, IterationTypeOK',
         UNCHANGED <<lock, free, attempts>>,
         \A k \in Leases : remote[k].pr # "none" => remote'[k].pr # "none",
         mishaps' \in [crashes : 0..MaxCrashes, lapses : 0..MaxLapses],
         HeadsOK', ClaimOK(d)'
  PROVE  PubInv' /\ Carried
<1>1. claim' \in [Dispatchers -> ClaimRows] /\ \A e \in Dispatchers : e # d => claim'[e] = claim[e]
  BY DispatcherTypes
<1>2. JobsStay
  BY DEF JobsStay
<1>3. CInv' /\ Carried
  BY <1>2, DispatcherTypes, RowsUntouched DEF JobRows
<1>4. ASSUME NEW e \in Dispatchers, e # d PROVE ClaimOK(e)'
  BY <1>1, <1>3, <1>4, ClaimStays DEF PubInv, ClaimsOK
<1>5. ClaimsOK'
  BY <1>4 DEF ClaimsOK
<1>6. AttemptsOK'
  BY DEF PubInv, AttemptsOK
<1> QED BY <1>1, <1>2, <1>5, <1>6, DispatcherTypes, DispatcherFrame

\* A dispatcher that gives up without touching the row.
LEMMA LeavesKeeps ==
  ASSUME PubInv, NEW d \in Dispatchers, Leaves(d),
         UNCHANGED coordinatorRows, UNCHANGED job, UNCHANGED iterationVars,
         UNCHANGED <<lock, free, attempts>>,
         mishaps' \in [crashes : 0..MaxCrashes, lapses : 0..MaxLapses]
  PROVE  PubInv' /\ Carried
<1>1. UNCHANGED remote /\ IterationTypeOK'
  BY DispatcherTypes DEF iterationVars, IterationTypeOK
<1>2. HeadsOK'
  BY <1>1, HeadsStay DEF PubInv
<1>3. claim' = [claim EXCEPT ![d] = Idle]
  BY DEF Leaves
<1>4. claim'[d] = Idle
  BY <1>3, DispatcherTypes
<1>5. ClaimOK(d)'
  BY <1>4 DEF ClaimOK, Idle
<1> QED BY <1>1, <1>2, <1>3, <1>5, DispatcherTypes, OneClaimKeeps

LEMMA CrashKeeps ==
  ASSUME PubInv, NEW d \in Dispatchers, Crash(d)
  PROVE  PubInv' /\ Carried
<1>1. mishaps' \in [crashes : 0..MaxCrashes, lapses : 0..MaxLapses]
  BY DispatcherTypes, DispatchersAssumption DEF Crash
<1>2. UNCHANGED coordinatorRows /\ UNCHANGED job
  BY DEF Crash, vars, coordinatorRows
<1> QED BY <1>1, <1>2, LeavesKeeps DEF Crash

\* The row that a dispatcher claims is its own, until the lock lapses.
LEMMA ClaimKeeps ==
  ASSUME PubInv, NEW d \in Dispatchers, Claim(d)
  PROVE  PubInv' /\ Carried
<1>1. PICK l \in Leases :
        /\ job[l].state \in {"pending", "working"}
        /\ job' = [job EXCEPT ![l].state = "working"]
        /\ lock' = [lock EXCEPT ![l] = d]
        /\ free' = [free EXCEPT ![l] = FALSE]
        /\ claim' = [claim EXCEPT ![d] = [Idle EXCEPT !.phase = "claimed", !.lease = l]]
  BY DEF Claim
<1> DEFINE c == [Idle EXCEPT !.phase = "claimed", !.lease = l]
<1>2. /\ c.phase = "claimed" /\ c.lease = l /\ c.valid = FALSE /\ c \in ClaimRows
  BY DEF Idle, ClaimRows, Phases
<1> HIDE DEF c
<1>3. claim' \in [Dispatchers -> ClaimRows]
      /\ \A e \in Dispatchers : claim'[e] = IF e = d THEN c ELSE claim[e]
  BY <1>1, <1>2, DispatcherTypes DEF c
<1>4. \A k \in Leases : lock'[k] = IF k = l THEN d ELSE lock[k]
  BY <1>1, DispatcherTypes
<1>5. /\ \A k \in Leases : k # l => job'[k] = job[k]
      /\ job'[l].state = "working" /\ job'[l].sha = job[l].sha
      /\ job' \in [Leases -> JobRows]
  BY <1>1, DispatcherTypes DEF JobRows, JobStates
<1>6. UNCHANGED coordinatorRows /\ UNCHANGED iterationVars /\ UNCHANGED <<attempts, mishaps>>
  BY DEF Claim, peopleVars, coordinatorRows
<1>7. UNCHANGED remote /\ IterationTypeOK'
  BY <1>6, DispatcherTypes DEF iterationVars, IterationTypeOK
<1>8. JobsStay
  BY <1>1, <1>5 DEF JobsStay
<1>9. HeadsOK'
  BY <1>7, <1>8, HeadsStay DEF PubInv, JobsStay
<1>10. AttemptsOK'
  BY <1>1, <1>5, <1>6 DEF PubInv, AttemptsOK
<1>11. CInv' /\ Carried
  BY <1>5, <1>6, <1>7, <1>8, RowsUntouched DEF JobRows
<1>12. ASSUME NEW e \in Dispatchers, e # d PROVE ClaimOK(e)'
  <2>1. \A k \in Leases : lock'[k] = e => lock[k] = e
    BY <1>4, <1>12
  <2>2. \A k \in Leases : job[k].state = "working" => job'[k].state = "working"
    BY <1>5
  <2>3. claim'[e] = claim[e]
    BY <1>3, <1>12
  <2> QED BY <1>7, <1>8, <1>11, <2>1, <2>2, <2>3, ClaimStays DEF PubInv, ClaimsOK, JobsStay
<1>13. ClaimOK(d)'
  BY <1>2, <1>3, <1>5 DEF ClaimOK, NoLease, Leases
<1>14. ClaimsOK'
  BY <1>12, <1>13 DEF ClaimsOK
<1>15. lock' \in [Leases -> Dispatchers \cup {Nobody}] /\ free' \in [Leases -> BOOLEAN]
       /\ attempts' \in [Leases -> 0..MaxAttempts]
       /\ mishaps' \in [crashes : 0..MaxCrashes, lapses : 0..MaxLapses]
  BY <1>1, <1>6, DispatcherTypes
<1> QED BY <1>3, <1>5, <1>6, <1>7, <1>8, <1>9, <1>10, <1>14, <1>15, DispatcherFrame

\* What is read with the row decides the requests; a row that is not to be published is
\* recorded as cancelled.
LEMMA PrepareKeeps ==
  ASSUME PubInv, NEW d \in Dispatchers, Prepare(d)
  PROVE  PubInv' /\ Carried
<1> DEFINE l == claim[d].lease
<1>1. UNCHANGED coordinatorRows /\ UNCHANGED job /\ UNCHANGED iterationVars
      /\ UNCHANGED <<lock, free, attempts>>
      /\ mishaps' \in [crashes : 0..MaxCrashes, lapses : 0..MaxLapses]
  BY DispatcherTypes DEF Prepare, vars, coordinatorRows
<1>2. UNCHANGED remote /\ IterationTypeOK'
  BY <1>1, DispatcherTypes DEF iterationVars, IterationTypeOK
<1>3. HeadsOK'
  BY <1>1, <1>2, HeadsStay DEF PubInv
<1>4. /\ claim[d].phase = "claimed" /\ ~claim[d].valid /\ l \in Leases
      /\ job[l].state # "none" /\ (lock[l] = d => job[l].state = "working")
      /\ claim[d] \in ClaimRows
  BY ClaimKnown, DispatcherTypes DEF Prepare, PubInv, ClaimsOK, ClaimOK
<1>5. lease[l].kind \in {"initial", "revision"}
  BY <1>4, DispatcherTypes DEF TypeOK, LeaseRows
<1>6. UNCHANGED lease
  BY <1>1 DEF coordinatorRows
<1>7. CASE Leaves(d)
  BY <1>1, <1>7, LeavesKeeps
<1>8. ASSUME NEW k \in Targets(l),
             claim' = [claim EXCEPT ![d].phase = FirstRequest(l), ![d].pr = k,
                                    ![d].valid = TRUE]
      PROVE  PubInv' /\ Carried
  <2> DEFINE c == [claim[d] EXCEPT !.phase = FirstRequest(l), !.pr = k, !.valid = TRUE]
  <2>1. k \in Leases /\ (lease[l].kind = "initial" => k = l)
    BY <1>4, <1>5 DEF Targets, SubmissionsOf
  <2>2. /\ c \in ClaimRows /\ c.phase = FirstRequest(l) /\ c.pr = k /\ c.lease = l
        /\ FirstRequest(l) = IF lease[l].kind = "revision" THEN "update" ELSE "branch"
    BY <1>4, <2>1 DEF ClaimRows, FirstRequest, Phases
  <2>3. claim' = [claim EXCEPT ![d] = c]
    BY <1>8, DispatcherTypes
  <2> HIDE DEF c
  <2>4. claim'[d] = c
    BY <2>3, DispatcherTypes
  <2>5. ClaimOK(d)'
    BY <1>1, <1>4, <1>5, <1>6, <2>1, <2>2, <2>4 DEF ClaimOK, NoLease, Leases
  <2> QED BY <1>1, <1>2, <1>3, <2>2, <2>3, <2>5, OneClaimKeeps
<1>9. CASE Goes(d, "record")
  <2> DEFINE c == [claim[d] EXCEPT !.phase = "record"]
  <2>1. c \in ClaimRows /\ c.phase = "record" /\ c.lease = l /\ ~c.valid
    BY <1>4 DEF ClaimRows, Phases
  <2>2. claim' = [claim EXCEPT ![d] = c]
    BY <1>9, DispatcherTypes DEF Goes
  <2> HIDE DEF c
  <2>3. claim'[d] = c
    BY <2>2, DispatcherTypes
  <2>4. ClaimOK(d)'
    BY <1>1, <1>4, <2>1, <2>3 DEF ClaimOK, NoLease, Leases
  <2> QED BY <1>1, <1>2, <1>3, <2>1, <2>2, <2>4, OneClaimKeeps
<1> QED BY <1>7, <1>8, <1>9 DEF Prepare

\* The three requests: one branch gets the job's commit, or one pull request is opened.
LEMMA RequestKeeps ==
  ASSUME PubInv, NEW d \in Dispatchers, NEW phase \in {"pr", "record"}, Goes(d, phase),
         claim[d].phase \in {"branch", "pr", "update"},
         UNCHANGED vars, UNCHANGED <<lock, free, attempts, mishaps>>, IterationTypeOK',
         \A k \in Leases : remote'[k].head \in {remote[k].head, Pushed(d)},
         \A k \in Leases : remote[k].pr # "none" => remote'[k].pr # "none",
         phase = "pr" => claim[d].phase = "branch",
         phase = "record" /\ claim[d].phase # "update" => remote'[claim[d].pr].pr # "none"
  PROVE  PubInv' /\ Carried
<1> DEFINE l == claim[d].lease
           c == [claim[d] EXCEPT !.phase = phase]
<1>1. l \in Leases /\ job[l].state # "none"
  BY ClaimKnown
<1>2. UNCHANGED coordinatorRows /\ UNCHANGED job /\ UNCHANGED lease
  BY DEF vars, coordinatorRows
<1>3. c \in ClaimRows /\ c.phase = phase /\ c.lease = l /\ c.pr = claim[d].pr
  BY DispatcherTypes DEF ClaimRows, Phases
<1>4. claim' = [claim EXCEPT ![d] = c]
  BY DispatcherTypes DEF Goes
<1> HIDE DEF c
<1>5. claim'[d] = c
  BY <1>4, DispatcherTypes
<1>6. HeadsOK'
  <2> SUFFICES ASSUME NEW k \in Leases PROVE HeadOK(k)'
    BY DEF HeadsOK
  <2>1. CASE remote'[k].head = remote[k].head
    BY <1>2, <2>1 DEF PubInv, HeadsOK, HeadOK
  <2>2. CASE remote'[k].head = Pushed(d)
    BY <1>1, <1>2, <2>2 DEF HeadOK, Pushed
  <2> QED BY <2>1, <2>2
<1>7. ClaimOK(d)
  BY DEF PubInv, ClaimsOK
<1>8. ClaimOK(d)'
  BY <1>1, <1>2, <1>3, <1>5, <1>7 DEF ClaimOK, NoLease, Leases
<1>9. mishaps' \in [crashes : 0..MaxCrashes, lapses : 0..MaxLapses]
  BY DispatcherTypes
<1> QED BY <1>2, <1>3, <1>4, <1>6, <1>8, <1>9, OneClaimKeeps

LEMMA PushedCommit ==
  ASSUME PubInv, NEW d \in Dispatchers, claim[d].phase # "idle"
  PROVE  Pushed(d) \in Heads
<1>1. claim[d].lease \in Leases /\ job[claim[d].lease].state # "none"
  BY ClaimKnown
<1>2. job[claim[d].lease].sha \in Versions
  BY <1>1, DispatcherTypes, BoundsAssumption
     DEF PubInv, JobsOK, JobOK, JobRows, Versions, NoVersion
<1> QED BY <1>1, <1>2 DEF Pushed, Heads, Commits

LEMMA PublishBranchKeeps ==
  ASSUME PubInv, NEW d \in Dispatchers, PublishBranch(d)
  PROVE  PubInv' /\ Carried
<1> DEFINE k == claim[d].pr
<1>1. claim[d].phase = "branch" /\ k \in Leases
  BY ClaimKnown DEF PublishBranch, PubInv, ClaimsOK, ClaimOK
<1>2. Pushed(d) \in Heads
  BY <1>1, PushedCommit
<1>3. remote' = [remote EXCEPT ![k] = [remote[k] EXCEPT !.head = Pushed(d)]]
  BY <1>1, DispatcherTypes DEF PublishBranch, IterationTypeOK
<1>4. [remote[k] EXCEPT !.head = Pushed(d)] \in
        [head : Heads, pr : {"none", "open", "merged", "closed"}]
      /\ [remote[k] EXCEPT !.head = Pushed(d)].head = Pushed(d)
      /\ [remote[k] EXCEPT !.head = Pushed(d)].pr = remote[k].pr
  BY <1>1, <1>2, DispatcherTypes DEF IterationTypeOK
<1>5. IterationTypeOK'
  <2>1. remote' \in [Leases -> [head : Heads, pr : {"none", "open", "merged", "closed"}]]
    <3> DEFINE row == [remote[k] EXCEPT !.head = Pushed(d)]
    <3>1. remote' = [remote EXCEPT ![k] = row]
          /\ row \in [head : Heads, pr : {"none", "open", "merged", "closed"}]
      BY <1>3, <1>4
    <3> HIDE DEF row
    <3> QED BY <1>1, <3>1, DispatcherTypes DEF IterationTypeOK
  <2>2. webhooks' \subseteq Webhooks /\ UNCHANGED <<lastReview, reviews>>
    BY DispatcherTypes DEF IterationTypeOK, PublishBranch
  <2> QED BY <2>1, <2>2, DispatcherTypes DEF IterationTypeOK
<1>6. \A j \in Leases : remote'[j].head \in {remote[j].head, Pushed(d)}
                        /\ remote'[j].pr = remote[j].pr
  BY <1>3, <1>4, DispatcherTypes DEF IterationTypeOK
<1> QED BY <1>1, <1>5, <1>6, RequestKeeps DEF PublishBranch

LEMMA PublishPullRequestKeeps ==
  ASSUME PubInv, NEW d \in Dispatchers, PublishPullRequest(d)
  PROVE  PubInv' /\ Carried
<1> DEFINE k == claim[d].pr
<1>1. claim[d].phase = "pr" /\ k \in Leases
  BY ClaimKnown DEF PublishPullRequest, PubInv, ClaimsOK, ClaimOK
<1>2. /\ IterationTypeOK'
      /\ remote'[k].pr # "none"
      /\ \A j \in Leases : remote'[j].head = remote[j].head
                           /\ (remote[j].pr # "none" => remote'[j].pr # "none")
  <2>1. CASE UNCHANGED remote /\ remote[k].pr # "none"
    BY <2>1, DispatcherTypes DEF PublishPullRequest, IterationTypeOK
  <2>2. CASE remote' = [remote EXCEPT ![k].pr = "open"]
    BY <1>1, <2>2, DispatcherTypes DEF PublishPullRequest, IterationTypeOK
  <2> QED BY <2>1, <2>2 DEF PublishPullRequest
<1> QED BY <1>1, <1>2, RequestKeeps DEF PublishPullRequest

LEMMA UpdateBranchKeeps ==
  ASSUME PubInv, NEW d \in Dispatchers, UpdateBranch(d)
  PROVE  PubInv' /\ Carried
<1> DEFINE k == claim[d].pr
<1>1. claim[d].phase = "update" /\ k \in Leases
  BY ClaimKnown DEF UpdateBranch, PubInv, ClaimsOK, ClaimOK
<1>2. Pushed(d) \in Heads
  BY <1>1, PushedCommit
<1>3. remote' = [remote EXCEPT ![k] = [remote[k] EXCEPT !.head = Pushed(d)]]
  BY <1>1, DispatcherTypes DEF UpdateBranch, IterationTypeOK
<1>4. [remote[k] EXCEPT !.head = Pushed(d)] \in
        [head : Heads, pr : {"none", "open", "merged", "closed"}]
      /\ [remote[k] EXCEPT !.head = Pushed(d)].head = Pushed(d)
      /\ [remote[k] EXCEPT !.head = Pushed(d)].pr = remote[k].pr
  BY <1>1, <1>2, DispatcherTypes DEF IterationTypeOK
<1>5. Hook("synchronize", k, Pushed(d)) \in Webhooks
  BY <1>1, <1>2 DEF Hook, Webhooks
<1>6. IterationTypeOK'
  <2>1. remote' \in [Leases -> [head : Heads, pr : {"none", "open", "merged", "closed"}]]
    <3> DEFINE row == [remote[k] EXCEPT !.head = Pushed(d)]
    <3>1. remote' = [remote EXCEPT ![k] = row]
          /\ row \in [head : Heads, pr : {"none", "open", "merged", "closed"}]
      BY <1>3, <1>4
    <3> HIDE DEF row
    <3> QED BY <1>1, <3>1, DispatcherTypes DEF IterationTypeOK
  <2>2. webhooks' \subseteq Webhooks /\ UNCHANGED <<lastReview, reviews>>
    BY <1>5, DispatcherTypes DEF IterationTypeOK, UpdateBranch
  <2> QED BY <2>1, <2>2, DispatcherTypes DEF IterationTypeOK
<1>7. \A j \in Leases : remote'[j].head \in {remote[j].head, Pushed(d)}
                        /\ remote'[j].pr = remote[j].pr
  BY <1>3, <1>4, DispatcherTypes DEF IterationTypeOK
<1> QED BY <1>1, <1>6, <1>7, RequestKeeps DEF UpdateBranch

\* A failed delivery is counted, and given up when it failed too often; but only by the
\* dispatcher that still has the lock.
LEMMA DeliveryFailsKeeps ==
  ASSUME PubInv, NEW d \in Dispatchers, DeliveryFails(d)
  PROVE  PubInv' /\ Carried
<1> DEFINE l == claim[d].lease
<1>1. UNCHANGED coordinatorRows /\ UNCHANGED iterationVars /\ UNCHANGED <<lock, mishaps>>
      /\ Leaves(d)
  BY DEF DeliveryFails, peopleVars, coordinatorRows
<1>2. l \in Leases /\ job[l].state # "none"
  BY ClaimKnown DEF DeliveryFails
<1>3. CASE ~Locked(d)
  <2>1. UNCHANGED <<attempts, job, free>>
    BY <1>3 DEF DeliveryFails
  <2> QED BY <1>1, <2>1, DispatcherTypes, LeavesKeeps
<1>4. CASE Locked(d)
  <2> DEFINE s == IF attempts[l] + 1 >= MaxAttempts THEN "failed" ELSE "pending"
  <2>1. /\ attempts' = [attempts EXCEPT ![l] = @ + 1]
        /\ job' = [job EXCEPT ![l].state = s]
        /\ free' = [free EXCEPT ![l] = TRUE]
    BY <1>4 DEF DeliveryFails
  <2>2. lock[l] = d /\ job[l].state = "working" /\ attempts[l] < MaxAttempts
        /\ attempts[l] \in 0..MaxAttempts
    <3>1. lock[l] = d /\ ClaimOK(d) /\ claim[d].phase # "idle"
      BY <1>4 DEF Locked, PubInv, ClaimsOK, DeliveryFails
    <3>2. job[l].state = "working"
      BY <3>1 DEF ClaimOK
    <3> QED BY <1>2, <3>1, <3>2, DispatcherTypes DEF PubInv, AttemptsOK
  <2>3. /\ \A k \in Leases : k # l => job'[k] = job[k]
        /\ job'[l].state = s /\ job'[l].sha = job[l].sha
        /\ job' \in [Leases -> JobRows]
    BY <1>2, <2>1, DispatcherTypes DEF JobRows, JobStates
  <2>4. /\ attempts' \in [Leases -> 0..MaxAttempts]
        /\ \A k \in Leases : k # l => attempts'[k] = attempts[k]
        /\ attempts'[l] = attempts[l] + 1
    <3>1. attempts[l] + 1 \in 0..MaxAttempts
      BY <2>2, DispatchersAssumption
    <3> QED BY <1>2, <2>1, <3>1, DispatcherTypes
  <2>5. JobsStay
    BY <1>2, <2>3 DEF JobsStay
  <2>6. UNCHANGED remote /\ IterationTypeOK'
    BY <1>1, DispatcherTypes DEF iterationVars, IterationTypeOK
  <2>7. HeadsOK'
    BY <2>5, <2>6, HeadsStay DEF PubInv, JobsStay
  <2>8. AttemptsOK'
    <3> SUFFICES ASSUME NEW k \in Leases, job'[k].state \in {"none", "pending", "working"}
                 PROVE  attempts'[k] < MaxAttempts
      BY DEF AttemptsOK
    <3>1. CASE k # l
      BY <2>3, <2>4, <3>1 DEF PubInv, AttemptsOK
    <3>2. CASE k = l
      BY <2>2, <2>3, <2>4, <3>2, DispatchersAssumption
    <3> QED BY <3>1, <3>2
  <2>9. CInv' /\ Carried
    BY <1>1, <2>3, <2>5, <2>6, RowsUntouched DEF JobRows
  <2>10. claim' = [claim EXCEPT ![d] = Idle]
    BY <1>1 DEF Leaves
  <2>11. claim' \in [Dispatchers -> ClaimRows]
         /\ \A e \in Dispatchers : claim'[e] = IF e = d THEN Idle ELSE claim[e]
    BY <2>10, DispatcherTypes
  <2>12. ASSUME NEW e \in Dispatchers, e # d PROVE ClaimOK(e)'
    <3>1. \A k \in Leases : lock'[k] = e => lock[k] = e
      BY <1>1
    <3>2. \A k \in Leases : lock[k] = e => job'[k] = job[k]
      BY <2>2, <2>3, <2>12
    <3>3. claim'[e] = claim[e]
      BY <2>11, <2>12
    <3> QED BY <2>5, <2>6, <2>9, <3>1, <3>2, <3>3, ClaimStays DEF PubInv, ClaimsOK, JobsStay
  <2>13. ClaimOK(d)'
    BY <2>11 DEF ClaimOK, Idle
  <2>14. ClaimsOK'
    BY <2>12, <2>13 DEF ClaimsOK
  <2>15. lock' \in [Leases -> Dispatchers \cup {Nobody}] /\ free' \in [Leases -> BOOLEAN]
         /\ mishaps' \in [crashes : 0..MaxCrashes, lapses : 0..MaxLapses]
    BY <1>1, <2>1, DispatcherTypes
  <2> QED BY <1>1, <2>3, <2>4, <2>5, <2>6, <2>7, <2>8, <2>11, <2>14, <2>15, DispatcherFrame
<1> QED BY <1>3, <1>4

\* A lock that lapses only lets the row be claimed again.
LEMMA LockLapsesKeeps ==
  ASSUME PubInv, NEW l \in Leases, LockLapses(l)
  PROVE  PubInv' /\ Carried
<1>1. UNCHANGED coordinatorRows /\ UNCHANGED job /\ UNCHANGED iterationVars
      /\ UNCHANGED <<claim, lock, attempts>>
  BY DEF LockLapses, vars, coordinatorRows
<1>2. free' \in [Leases -> BOOLEAN]
      /\ mishaps' \in [crashes : 0..MaxCrashes, lapses : 0..MaxLapses]
  BY DispatcherTypes, DispatchersAssumption DEF LockLapses
<1>3. UNCHANGED remote /\ IterationTypeOK' /\ JobsStay
  BY <1>1, DispatcherTypes DEF iterationVars, IterationTypeOK, JobsStay
<1>4. CInv' /\ Carried
  BY <1>1, <1>3, DispatcherTypes, RowsUntouched DEF JobRows
<1>5. HeadsOK' /\ AttemptsOK'
  BY <1>1, <1>3, HeadsStay DEF PubInv, AttemptsOK
<1>6. ClaimsOK'
  BY <1>1, <1>3, <1>4, ClaimStays DEF PubInv, ClaimsOK
<1> QED BY <1>1, <1>2, <1>3, <1>5, <1>6, DispatcherTypes, DispatcherFrame

\* A retry is of a job that nobody works on.
LEMMA RetryKeeps ==
  ASSUME PubInv, NEW u, NEW l \in Leases, Retry(u, l)
  PROVE  PubInv' /\ Carried
<1>1. UNCHANGED coordinatorRows /\ UNCHANGED iterationVars
      /\ UNCHANGED <<claim, lock, free, mishaps>>
  BY DEF Retry, peopleVars, coordinatorRows
<1>2. /\ job[l].state \in {"failed", "pending"}
      /\ \A k \in Leases : k # l => job'[k] = job[k]
      /\ job'[l].state = "pending" /\ job'[l].sha = job[l].sha
      /\ job' \in [Leases -> JobRows]
  BY DispatcherTypes DEF Retry, JobRows, JobStates
<1>3. /\ attempts' \in [Leases -> 0..MaxAttempts]
      /\ \A k \in Leases : attempts'[k] = IF k = l THEN 0 ELSE attempts[k]
  <2>1. 0 \in 0..MaxAttempts
    BY DispatchersAssumption
  <2> QED BY <2>1, DispatcherTypes DEF Retry
<1>4. UNCHANGED remote /\ IterationTypeOK' /\ JobsStay
  BY <1>1, <1>2, DispatcherTypes DEF iterationVars, IterationTypeOK, JobsStay
<1>5. CInv' /\ Carried
  BY <1>1, <1>2, <1>4, RowsUntouched DEF JobRows
<1>6. HeadsOK'
  BY <1>4, HeadsStay DEF PubInv, JobsStay
<1>7. AttemptsOK'
  BY <1>2, <1>3, DispatchersAssumption DEF PubInv, AttemptsOK
<1>8. \A k \in Leases : job[k].state = "working" => job'[k].state = "working"
  BY <1>2
<1>9. ClaimsOK'
  BY <1>1, <1>4, <1>5, <1>8, ClaimStays DEF PubInv, ClaimsOK, JobsStay
<1> QED BY <1>1, <1>2, <1>3, <1>4, <1>6, <1>7, <1>9, DispatcherTypes, DispatcherFrame
-----------------------------------------------------------------------------
(* Recording the outcome *)

\* The row of the job that is over, the lock and the claim, whatever is recorded.
LEMMA RecordFrame ==
  ASSUME PubInv, NEW d \in Dispatchers, Record(d), Locked(d), Carried, CInv', InOrder',
         SubmissionsOK', SubmittedIsOnGitHub', RoundsAreCountedOnce'
  PROVE  PubInv' /\ Carried
<1> DEFINE l == claim[d].lease
           s == IF claim[d].valid THEN "done" ELSE "cancelled"
<1>1. /\ UNCHANGED iterationVars /\ UNCHANGED <<lock, attempts, mishaps>>
      /\ claim' = [claim EXCEPT ![d] = Idle]
      /\ free' = [free EXCEPT ![l] = TRUE]
      /\ job' = [job EXCEPT ![l].state = s]
  BY DEF Record, Leaves
<1>2. l \in Leases /\ job[l].state # "none" /\ lock[l] = d
  BY ClaimKnown DEF Record, Locked
<1>3. /\ \A k \in Leases : k # l => job'[k] = job[k]
      /\ job'[l].state = s /\ job'[l].sha = job[l].sha
      /\ job' \in [Leases -> JobRows]
  BY <1>1, <1>2, DispatcherTypes DEF JobRows, JobStates
<1>4. JobsStay
  BY <1>2, <1>3 DEF JobsStay
<1>5. UNCHANGED remote /\ IterationTypeOK'
  BY <1>1, DispatcherTypes DEF iterationVars, IterationTypeOK
<1>6. HeadsOK'
  BY <1>4, <1>5, HeadsStay DEF PubInv, JobsStay
<1>7. JobsOK'
  BY <1>4, JobsStayOK DEF PubInv
<1>8. AttemptsOK'
  BY <1>1, <1>3 DEF PubInv, AttemptsOK
<1>9. claim' \in [Dispatchers -> ClaimRows]
      /\ \A e \in Dispatchers : claim'[e] = IF e = d THEN Idle ELSE claim[e]
  BY <1>1, DispatcherTypes
<1>10. ASSUME NEW e \in Dispatchers, e # d PROVE ClaimOK(e)'
  <2>1. \A k \in Leases : lock'[k] = e => lock[k] = e
    BY <1>1
  <2>2. \A k \in Leases : lock[k] = e => job'[k] = job[k]
    BY <1>2, <1>3, <1>10
  <2>3. claim'[e] = claim[e]
    BY <1>9, <1>10
  <2> QED BY <1>4, <1>5, <2>1, <2>2, <2>3, ClaimStays DEF PubInv, ClaimsOK, JobsStay
<1>11. ClaimOK(d)'
  BY <1>9 DEF ClaimOK, Idle
<1>12. ClaimsOK'
  BY <1>10, <1>11 DEF ClaimsOK
<1>13. lock' \in [Leases -> Dispatchers \cup {Nobody}] /\ free' \in [Leases -> BOOLEAN]
       /\ attempts' \in [Leases -> 0..MaxAttempts]
       /\ mishaps' \in [crashes : 0..MaxCrashes, lapses : 0..MaxLapses]
  BY <1>1, DispatcherTypes
<1>14. PublicationTypeOK'
  BY <1>5, <1>9, <1>13 DEF PublicationTypeOK, CInv, ClaimRows
<1> QED BY <1>6, <1>7, <1>8, <1>12, <1>14 DEF PubInv

\* What a recorded submission does to the leases: one row ends, and its issue's pointer
\* with it.
LEMMA SubmitCarries ==
  ASSUME PubInv, NEW l \in Leases, StillPublishing(l), Submit(l)
  PROVE  /\ lease' \in [Leases -> LeaseRows] /\ work' \in [Works -> WorkRows]
         /\ Safe' /\ Carried /\ InOrder'
         /\ lease'[l].state = "submitted"
         /\ \A k \in Leases : k # l => lease'[k] = lease[k]
<1> DEFINE q == [lease[l] EXCEPT !.state = "submitted", !.age = 0]
           w == lease[l].work
           row == [work[w] EXCEPT !.state = "submitted", !.active = NoLease]
<1>1. CInv /\ TypeOK /\ InOrder /\ lease[l].state = "publishing" /\ work[w].active = l
      /\ lease[l] \in LeaseRows
  BY DEF PubInv, CInv, TypeOK, StillPublishing
<1>2. w \in Works /\ work[w] \in WorkRows
  BY <1>1 DEF CInv, Safe, Born, TypeOK
<1>3. lease' = [lease EXCEPT ![l] = q] /\ work' = [work EXCEPT ![w] = row]
  BY <1>1, <1>2 DEF Submit, TypeOK
<1>4. q \in LeaseRows /\ q.state = "submitted"
  BY <1>1, Zeros DEF LeaseRows, LeaseStates
<1>5. Follows(lease[l], q)
  BY <1>1 DEF Follows, RowOK, LeaseRows, Active
<1>6. row \in WorkRows /\ row.active = NoLease /\ row.generation = work[w].generation
  BY <1>2 DEF WorkRows, WorkStates
<1> HIDE DEF q, row, w
<1>7. lease' \in [Leases -> LeaseRows] /\ work' \in [Works -> WorkRows]
  BY <1>1, <1>3, <1>4, <1>6 DEF TypeOK
<1>8. /\ \A k \in Leases : lease'[k] = IF k = l THEN q ELSE lease[k]
      /\ \A v \in Works : work'[v] = IF v = w THEN row ELSE work[v]
  BY <1>1, <1>3 DEF TypeOK
<1>9. Loose
  BY <1>1, <1>5, <1>8 DEF Loose
<1>10. PointersStay
  BY <1>1, <1>4, <1>6, <1>8 DEF PointersStay, Active
<1>11. \A v \in Works : work'[v].active # NoLease => lease'[work'[v].active].state # "submitted"
  <2> SUFFICES ASSUME NEW v \in Works, work'[v].active # NoLease
               PROVE  lease'[work'[v].active].state # "submitted"
    OBVIOUS
  <2>1. v # w /\ work'[v].active = work[v].active /\ work[v].active \in Leases
    BY <1>1, <1>6, <1>8 DEF TypeOK, WorkRows
  <2>2. Endable(lease[work[v].active]) /\ lease[work[v].active].work = v
    BY <1>1, <2>1 DEF CInv, Safe, PointerKnown
  <2> QED BY <1>8, <2>1, <2>2 DEF Endable, w
<1>12. Safe'
  BY <1>1, <1>7, <1>9, <1>10, <1>11, LooseIsSafe
<1>13. Carried /\ InOrder'
  BY <1>1, <1>9, <1>10, LooseCarries, OrderStays
<1> QED BY <1>4, <1>7, <1>8, <1>12, <1>13

\* A row is inserted for a pull request, if there is none: it counts no round.
LEMMA InsertedCounts ==
  ASSUME PubInv, Carried, NEW l \in Leases, lease[l].state # "none",
         \A w \in Works : Revised(w)' = Revised(w),
         \/ UNCHANGED submission
         \/ /\ submission[l].state = "none"
            /\ submission'[l].state # "none" /\ submission'[l].round = 1
            /\ \A k \in Leases : k # l => submission'[k] = submission[k]
  PROVE  RoundsAreCountedOnce'
<1> SUFFICES ASSUME NEW w \in Works
             PROVE  RoundsOf(submission', SubmissionsOf(w)') = Cardinality(Revised(w)')
  BY RoundsInvNext
<1>1. RoundsOf(submission, SubmissionsOf(w)) = Cardinality(Revised(w))
  BY RoundsInv DEF PubInv
<1>2. \A k \in Leases : submission[k].state # "none" =>
        lease[k].state # "none" /\ submission[k].round \in Nat \ {0}
  BY DEF PubInv, SubmissionsOK, RecordedOK, Recorded, CInv, TypeOK, SubmissionRows
<1>3. \A k \in Leases : lease[k].state # "none" => lease'[k].work = lease[k].work
  BY DEF Carried
<1>4. /\ SubmissionsOf(w) \in SUBSET Leases
      /\ \A k \in SubmissionsOf(w) : submission[k].round \in Nat \ {0}
  BY <1>2 DEF SubmissionsOf
<1>5. CASE UNCHANGED submission
  <2>1. SubmissionsOf(w)' = SubmissionsOf(w)
    BY <1>2, <1>3, <1>5 DEF SubmissionsOf
  <2> QED BY <1>1, <1>5, <2>1
<1>6. CASE /\ submission[l].state = "none"
           /\ submission'[l].state # "none" /\ submission'[l].round = 1
           /\ \A k \in Leases : k # l => submission'[k] = submission[k]
  <2>1. l \notin SubmissionsOf(w) /\ \A k \in SubmissionsOf(w) : submission'[k] = submission[k]
    BY <1>6 DEF SubmissionsOf
  <2>2. CASE lease[l].work = w
    <3>1. SubmissionsOf(w)' = SubmissionsOf(w) \cup {l}
      BY <1>2, <1>3, <1>6, <2>2 DEF SubmissionsOf
    <3>2. RoundsOf(submission', SubmissionsOf(w) \cup {l}) = RoundsOf(submission, SubmissionsOf(w))
      BY <1>4, <1>6, <2>1, RoundsGain
    <3> QED BY <1>1, <3>1, <3>2
  <2>3. CASE lease[l].work # w
    <3>1. SubmissionsOf(w)' = SubmissionsOf(w)
      BY <1>2, <1>3, <1>6, <2>3 DEF SubmissionsOf
    <3>2. RoundsOf(submission', SubmissionsOf(w)) = RoundsOf(submission, SubmissionsOf(w))
      BY <1>4, <2>1, RoundsSame
    <3> QED BY <1>1, <3>1, <3>2
  <2> QED BY <2>2, <2>3
<1> QED BY <1>5, <1>6

\* The outcome of a publication: a row for the pull request, and perhaps a submission.
LEMMA RecordPublishKeeps ==
  ASSUME PubInv, NEW d \in Dispatchers, Record(d), Locked(d), claim[d].valid,
         lease[claim[d].lease].kind = "initial", RecordPublish(claim[d].lease)
  PROVE  PubInv' /\ Carried
<1>0. PICK l \in Leases : l = claim[d].lease
  BY ClaimKnown DEF Record
<1> DEFINE new == [state |-> "open", head |-> <<l, job[l].sha>>, round |-> 1, since |-> 0]
<1>1. /\ l \in Leases /\ job[l].state # "none" /\ lease[l].state # "none"
      /\ remote[l].pr # "none" /\ CInv /\ TypeOK /\ l \in 1..MaxLeases
  <2>1. l \in Leases /\ job[l].state # "none" /\ claim[d].phase = "record"
    BY <1>0, ClaimKnown DEF Record
  <2>2. remote[l].pr # "none"
    BY <1>0, <2>1 DEF PubInv, ClaimsOK, ClaimOK
  <2> QED BY <2>1, <2>2 DEF PubInv, CInv, JobsOK, JobOK, Safe, RowsOK, RowOK, Leases
<1>2. /\ UNCHANGED <<project, ledger, member, device, declined, txn>> /\ txn = Closed
      /\ UNCHANGED remote
      /\ job' = [job EXCEPT ![l].state = "done"]
  BY <1>0 DEF Record, peopleVars, iterationVars
<1>3. job' \in [Leases -> JobRows]
  BY <1>1, <1>2, DispatcherTypes DEF JobRows, JobStates
<1>4. new \in SubmissionRows
  <2>1. job[l].sha \in Versions
    BY <1>1, DispatcherTypes, BoundsAssumption
       DEF PubInv, JobsOK, JobOK, JobRows, Versions, NoVersion
  <2>2. <<l, job[l].sha>> \in Commits /\ 0 \in 0..MaxAffinity
    BY <1>1, <2>1, LeaseCommits, BoundsAssumption
  <2> QED BY <2>2 DEF SubmissionRows, SubmissionStates
<1>5. \/ UNCHANGED submission /\ submission[l].state # "none"
      \/ submission[l].state = "none" /\ submission' = [submission EXCEPT ![l] = new]
  BY <1>0 DEF RecordPublish
<1>6. /\ submission' \in [Leases -> SubmissionRows]
      /\ \A k \in Leases : k # l => submission'[k] = submission[k]
      /\ submission'[l].state # "none"
      /\ submission'[l] = submission[l] \/ (submission[l].state = "none" /\ submission'[l] = new)
  BY <1>1, <1>4, <1>5 DEF TypeOK
<1>7. /\ lease' \in [Leases -> LeaseRows] /\ work' \in [Works -> WorkRows]
      /\ Safe' /\ Carried /\ InOrder'
      /\ \A k \in Leases : k # l => lease'[k] = lease[k]
  <2>1. CASE StillPublishing(l)
    BY <1>0, <1>1, <2>1, SubmitCarries DEF RecordPublish
  <2>2. CASE UNCHANGED <<lease, work>>
    <3>1. Quiet /\ PointersStay /\ Safe'
      BY <1>1, <2>2, NoRow
    <3>2. Loose
      BY <2>2 DEF Loose
    <3>3. Carried /\ InOrder'
      BY <1>1, <3>1, <3>2, LooseCarries, OrderStays DEF PubInv
    <3> QED BY <1>1, <2>2, <3>1, <3>3 DEF TypeOK
  <2> QED BY <1>0, <2>1, <2>2 DEF RecordPublish
<1>8. CInv'
  <2>1. TypeOK'
    BY <1>1, <1>2, <1>3, <1>6, <1>7 DEF TypeOK, JobRows
  <2>2. TxnOK'
    BY <1>2 DEF TxnOK, Closed
  <2> QED BY <1>7, <2>1, <2>2 DEF CInv
<1>9. SubmissionsOK'
  <2> SUFFICES ASSUME NEW k \in Leases, submission'[k].state # "none" PROVE RecordedOK(k)'
    BY DEF SubmissionsOK, RecordedOK, Recorded
  <2>1. CASE submission'[k] = submission[k]
    BY <1>2, <1>7, <2>1 DEF PubInv, SubmissionsOK, RecordedOK, Recorded, Carried
  <2>2. CASE k = l /\ submission'[l] = new
    <3>1. new.head[1] = l /\ new.round = 1
      OBVIOUS
    <3>2. l \in l..MaxLeases
      BY <1>1, BoundsAssumption
    <3> HIDE DEF new
    <3> QED BY <1>1, <1>2, <1>7, <2>2, <3>1, <3>2 DEF RecordedOK, Carried
  <2> QED BY <1>6, <2>1, <2>2
<1>10. SubmittedIsOnGitHub'
  <2> SUFFICES ASSUME NEW j \in Leases, lease'[j].state = "submitted"
               PROVE  \E k \in SubmissionsOf(lease[j].work)' :
                        remote'[k].pr # "none" /\ submission'[k].head[1] >= j
    BY DEF SubmittedIsOnGitHub
  <2>1. CASE j = l
    <3>1. l \in SubmissionsOf(lease[l].work)'
      BY <1>1, <1>6 DEF SubmissionsOf
    <3>2. submission'[l].head[1] \in l..MaxLeases
      BY <1>1, <1>6, <1>9 DEF SubmissionsOK, RecordedOK, Recorded
    <3>3. submission'[l].head[1] >= l
      BY <1>1, <3>2, BoundsAssumption
    <3> QED BY <1>1, <1>2, <2>1, <3>1, <3>3
  <2>2. CASE j # l
    <3>1. lease'[j] = lease[j]
      BY <1>7, <2>2
    <3>2. PICK k \in SubmissionsOf(lease[j].work) :
            remote[k].pr # "none" /\ submission[k].head[1] >= j
      BY <3>1 DEF PubInv, SubmittedIsOnGitHub
    <3>3. k \in Leases /\ submission[k].state # "none" /\ lease[k].state # "none"
      BY <3>2 DEF SubmissionsOf, PubInv, SubmissionsOK, RecordedOK, Recorded
    <3>4. submission'[k] = submission[k]
      BY <1>6, <3>3
    <3>5. k \in SubmissionsOf(lease[j].work)'
      BY <1>7, <3>1, <3>2, <3>3, <3>4 DEF SubmissionsOf, Carried
    <3> QED BY <1>2, <3>2, <3>4, <3>5
  <2> QED BY <2>1, <2>2
<1>11. RoundsAreCountedOnce'
  <2>1. \A k \in Leases : lease[k].state # "none" =>
          lease'[k].work = lease[k].work /\ lease'[k].kind = lease[k].kind
          /\ lease'[k].state # "none"
    BY <1>7 DEF Carried
  <2>2. \A w \in Works : Revised(w)' = Revised(w)
    <3>1. lease'[l].kind = "initial" /\ lease[l].kind = "initial"
      BY <1>0, <1>1, <2>1
    <3> QED BY <1>7, <3>1 DEF Revised, LeasesOf
  <2>3. UNCHANGED submission \/ submission'[l].round = 1
    BY <1>1, <1>5 DEF TypeOK
  <2> QED BY <1>1, <1>5, <1>6, <1>7, <2>2, <2>3, InsertedCounts
<1> QED BY <1>7, <1>8, <1>9, <1>10, <1>11, RecordFrame

\* The outcome of a fast-forward: the submission it moved counts one round more, in the
\* step that submits the revision.
LEMMA RecordUpdateKeeps ==
  ASSUME PubInv, NEW d \in Dispatchers, Record(d), Locked(d), claim[d].valid,
         lease[claim[d].lease].kind = "revision", RecordUpdate(claim[d].lease),
         StillPublishing(claim[d].lease)
  PROVE  PubInv' /\ Carried
<1>0. PICK l \in Leases : l = claim[d].lease
  BY ClaimKnown DEF Record
<1>1. /\ job[l].state # "none" /\ lease[l].state = "publishing" /\ CInv /\ TypeOK
      /\ StillPublishing(l) /\ Submit(l) /\ InOrder /\ l \in 1..MaxLeases
  BY <1>0, ClaimKnown DEF Record, PubInv, CInv, StillPublishing, RecordUpdate, Leases
<1>2. /\ UNCHANGED <<project, ledger, member, device, declined, txn>> /\ txn = Closed
      /\ UNCHANGED remote
      /\ job' = [job EXCEPT ![l].state = "done"]
  BY <1>0 DEF Record, peopleVars, iterationVars
<1>3. job' \in [Leases -> JobRows]
  BY <1>1, <1>2, DispatcherTypes DEF JobRows, JobStates
<1>4. PICK k \in SubmissionsOf(lease[l].work) :
        submission' = [submission EXCEPT ![k].state = "awaiting_rereview",
                         ![k].head = <<l, job[l].sha>>, ![k].round = @ + 1, ![k].since = 0]
  BY <1>0 DEF RecordUpdate
<1> DEFINE w == lease[l].work
           row == [submission[k] EXCEPT !.state = "awaiting_rereview",
                     !.head = <<l, job[l].sha>>, !.round = submission[k].round + 1, !.since = 0]
<1>5. /\ k \in Leases /\ submission[k] \in SubmissionRows /\ submission[k].state # "none"
      /\ lease[k].state # "none" /\ remote[k].pr # "none" /\ lease[k].work = w
      /\ w \in Works /\ k <= l
  <2>1. k \in Leases /\ submission[k].state # "none" /\ lease[k].work = w
    BY DEF SubmissionsOf
  <2>2. lease[k].state # "none" /\ remote[k].pr # "none"
    BY <2>1 DEF PubInv, SubmissionsOK, RecordedOK, Recorded
  <2>3. w \in Works /\ work[w].active = l
    BY <1>1 DEF CInv, Safe, Born, StillPublishing
  <2>4. k <= l
    BY <1>1, <2>1, <2>2, <2>3 DEF InOrder, LeasesOf, NoLease, Leases
  <2> QED BY <1>1, <2>1, <2>2, <2>3, <2>4 DEF TypeOK
<1>6. /\ row \in SubmissionRows /\ row.state = "awaiting_rereview"
      /\ row.head = <<l, job[l].sha>> /\ row.round = submission[k].round + 1
  <2>1. job[l].sha \in Versions
    BY <1>1, DispatcherTypes, BoundsAssumption
       DEF PubInv, JobsOK, JobOK, JobRows, Versions, NoVersion
  <2>2. <<l, job[l].sha>> \in Commits /\ 0 \in 0..MaxAffinity
    BY <1>1, <2>1, LeaseCommits, BoundsAssumption
  <2>3. submission[k].round + 1 \in Nat
    BY <1>5 DEF SubmissionRows
  <2>4. "awaiting_rereview" \in SubmissionStates
    BY DEF SubmissionStates
  <2> QED BY <1>5, <2>2, <2>3, <2>4 DEF SubmissionRows
<1>7. submission' = [submission EXCEPT ![k] = row]
  BY <1>1, <1>4, <1>5 DEF TypeOK
<1>8. row.head[1] = l
  BY <1>6
<1> HIDE DEF row
<1>9. /\ submission' \in [Leases -> SubmissionRows]
      /\ \A j \in Leases : submission'[j] = IF j = k THEN row ELSE submission[j]
  BY <1>1, <1>6, <1>7 DEF TypeOK
<1>10. /\ lease' \in [Leases -> LeaseRows] /\ work' \in [Works -> WorkRows]
       /\ Safe' /\ Carried /\ InOrder'
       /\ lease'[l].state = "submitted"
       /\ \A j \in Leases : j # l => lease'[j] = lease[j]
  BY <1>1, SubmitCarries
<1>11. CInv'
  <2>1. TypeOK'
    BY <1>1, <1>2, <1>3, <1>9, <1>10 DEF TypeOK, JobRows
  <2>2. TxnOK'
    BY <1>2 DEF TxnOK, Closed
  <2> QED BY <1>10, <2>1, <2>2 DEF CInv
<1>12. \A j \in Leases : lease[j].state # "none" =>
         lease'[j].work = lease[j].work /\ lease'[j].kind = lease[j].kind
         /\ lease'[j].state # "none"
  BY <1>10 DEF Carried
<1>13. SubmissionsOK'
  <2> SUFFICES ASSUME NEW j \in Leases, submission'[j].state # "none" PROVE RecordedOK(j)'
    BY DEF SubmissionsOK, RecordedOK, Recorded
  <2>1. CASE j # k
    BY <1>2, <1>9, <1>12, <2>1 DEF PubInv, SubmissionsOK, RecordedOK, Recorded
  <2>2. CASE j = k
    <3>1. l \in k..MaxLeases
      BY <1>1, <1>5, BoundsAssumption DEF Leases
    <3>2. row.round >= 1
      BY <1>5, <1>6 DEF SubmissionRows
    <3> QED BY <1>2, <1>5, <1>8, <1>9, <1>12, <2>2, <3>1, <3>2 DEF RecordedOK
  <2> QED BY <2>1, <2>2
<1>14. SubmittedIsOnGitHub'
  <2> SUFFICES ASSUME NEW j \in Leases, lease'[j].state = "submitted"
               PROVE  \E i \in SubmissionsOf(lease[j].work)' :
                        remote'[i].pr # "none" /\ submission'[i].head[1] >= j
    BY DEF SubmittedIsOnGitHub
  <2>1. lease[j].state # "none" /\ (j # l => lease[j].state = "submitted")
    BY <1>1, <1>10 DEF Carried, CInv, Safe
  <2>2. \A i \in Leases : submission[i].state # "none" => submission'[i].state # "none"
    BY <1>5, <1>6, <1>9
  <2>3. CASE lease[j].work = w
    <3>1. j <= l
      <4>1. work[w].active = l /\ w \in Works
        BY <1>1, <1>5 DEF StillPublishing
      <4> QED BY <2>1, <2>3, <4>1, <1>1 DEF InOrder, LeasesOf, NoLease, Leases
    <3>2. submission'[k].head[1] = l
      BY <1>5, <1>8, <1>9
    <3>3. k \in SubmissionsOf(lease[j].work)'
      BY <1>5, <1>12, <2>1, <2>2, <2>3 DEF SubmissionsOf
    <3> QED BY <1>1, <1>2, <1>5, <3>1, <3>2, <3>3 DEF Leases
  <2>4. CASE lease[j].work # w
    <3>1. lease[j].state = "submitted"
      BY <2>1, <2>4
    <3>2. PICK i \in SubmissionsOf(lease[j].work) :
            remote[i].pr # "none" /\ submission[i].head[1] >= j
      BY <3>1 DEF PubInv, SubmittedIsOnGitHub
    <3>3. i \in Leases /\ submission[i].state # "none" /\ lease[i].work = lease[j].work
          /\ lease[i].state # "none"
      BY <3>2 DEF SubmissionsOf, PubInv, SubmissionsOK, RecordedOK, Recorded
    <3>4. submission'[i] = submission[i]
      BY <1>5, <1>9, <2>4, <3>3
    <3>5. i \in SubmissionsOf(lease[j].work)'
      BY <1>12, <2>1, <3>3, <3>4 DEF SubmissionsOf
    <3> QED BY <1>2, <3>2, <3>4, <3>5
  <2> QED BY <2>3, <2>4
<1>15. RoundsAreCountedOnce'
  <2> SUFFICES ASSUME NEW v \in Works
               PROVE  RoundsOf(submission', SubmissionsOf(v)') = Cardinality(Revised(v)')
    BY RoundsInvNext
  <2>1. RoundsOf(submission, SubmissionsOf(v)) = Cardinality(Revised(v))
    BY RoundsInv DEF PubInv
  <2>2. \A j \in Leases : submission[j].state # "none" =>
          lease[j].state # "none" /\ submission[j].round \in Nat \ {0}
    BY DEF PubInv, SubmissionsOK, RecordedOK, Recorded, CInv, TypeOK, SubmissionRows
  <2>3. /\ SubmissionsOf(v) \in SUBSET Leases
        /\ \A j \in SubmissionsOf(v) : submission[j].round \in Nat \ {0}
    BY <2>2 DEF SubmissionsOf
  <2>4. SubmissionsOf(v)' = SubmissionsOf(v)
    <3>1. \A j \in Leases : submission'[j].state # "none" <=> submission[j].state # "none"
      BY <1>5, <1>6, <1>9
    <3> QED BY <1>12, <2>2, <3>1 DEF SubmissionsOf
  <2>5. lease'[l].kind = "revision" /\ lease'[l].work = w /\ lease[l].kind = "revision"
    BY <1>0, <1>1, <1>12
  <2>6. CASE v = w
    <3>1. k \in SubmissionsOf(v) /\ submission'[k].round = submission[k].round + 1
      BY <1>5, <1>6, <1>9, <2>6 DEF SubmissionsOf
    <3>2. \A j \in SubmissionsOf(v) : j # k => submission'[j].round = submission[j].round
      BY <1>9, <2>3
    <3>3. RoundsOf(submission', SubmissionsOf(v)) = RoundsOf(submission, SubmissionsOf(v)) + 1
      BY <2>3, <3>1, <3>2, RoundsRise
    <3>4. Revised(v)' = Revised(v) \cup {l} /\ l \notin Revised(v)
      BY <1>1, <1>10, <2>5, <2>6 DEF Revised, LeasesOf
    <3>5. IsFiniteSet(Revised(v))
      BY LeasesAreFinite DEF Revised, LeasesOf
    <3>6. Cardinality(Revised(v) \cup {l}) = Cardinality(Revised(v)) + 1
      BY <3>4, <3>5, FS_AddElement
    <3> QED BY <2>1, <2>4, <3>3, <3>4, <3>6
  <2>7. CASE v # w
    <3>1. \A j \in SubmissionsOf(v) : submission'[j].round = submission[j].round
      BY <1>5, <1>9, <2>3, <2>7 DEF SubmissionsOf
    <3>2. RoundsOf(submission', SubmissionsOf(v)) = RoundsOf(submission, SubmissionsOf(v))
      BY <2>3, <3>1, RoundsSame
    <3>3. Revised(v)' = Revised(v)
      BY <1>1, <1>10, <2>5, <2>7 DEF Revised, LeasesOf
    <3> QED BY <2>1, <2>4, <3>2, <3>3
  <2> QED BY <2>6, <2>7
<1> QED BY <1>10, <1>11, <1>13, <1>14, <1>15, RecordFrame

\* Whatever the outcome, and whether or not the row is still the dispatcher's.
LEMMA RecordKeeps ==
  ASSUME PubInv, NEW d \in Dispatchers, Record(d)
  PROVE  PubInv' /\ Carried
<1>0. PICK l \in Leases : l = claim[d].lease
  BY ClaimKnown DEF Record
<1>1. /\ UNCHANGED <<project, member, device, declined, txn>> /\ UNCHANGED ledger
      /\ UNCHANGED iterationVars /\ UNCHANGED <<lock, attempts, mishaps>> /\ Leaves(d)
  <2>1. UNCHANGED <<peopleVars, txn, iterationVars, lock, attempts, mishaps>> /\ Leaves(d)
    BY DEF Record
  <2>2. UNCHANGED ledger
    BY DEF Record, workVars
  <2> QED BY <2>1, <2>2 DEF peopleVars
<1>2. CASE ~Locked(d)
  <2>1. UNCHANGED coordinatorRows /\ UNCHANGED <<job, free>>
    BY <1>1, <1>2 DEF Record, workVars, coordinatorRows
  <2> QED BY <1>1, <2>1, DispatcherTypes, LeavesKeeps
<1>3. CASE Locked(d) /\ UNCHANGED <<lease, work, submission>>
  <2>1. UNCHANGED coordinatorRows
    BY <1>1, <1>3 DEF coordinatorRows
  <2>2. job' = [job EXCEPT ![l].state = IF claim[d].valid THEN "done" ELSE "cancelled"]
    BY <1>0, <1>3 DEF Record
  <2>3. job[l].state # "none"
    BY <1>0, ClaimKnown DEF Record
  <2>4. JobsStay /\ job' \in [Leases -> JobRows]
    BY <2>2, <2>3, DispatcherTypes DEF JobsStay, JobRows, JobStates
  <2>5. UNCHANGED remote
    BY <1>1 DEF iterationVars
  <2>6. /\ CInv' /\ Carried /\ InOrder' /\ SubmissionsOK'
        /\ SubmittedIsOnGitHub' /\ RoundsAreCountedOnce'
    BY <2>1, <2>4, <2>5, RowsUntouched DEF JobRows
  <2> QED BY <1>3, <2>6, RecordFrame
<1>4. CASE Locked(d) /\ claim[d].valid /\ lease[l].kind = "initial" /\ RecordPublish(l)
  BY <1>0, <1>4, RecordPublishKeeps
<1>5. CASE Locked(d) /\ claim[d].valid /\ lease[l].kind = "revision" /\ RecordUpdate(l)
  <2>1. CASE StillPublishing(l)
    BY <1>0, <1>5, <2>1, RecordUpdateKeeps
  <2>2. CASE ~StillPublishing(l)
    BY <1>3, <1>5, <2>2 DEF RecordUpdate
  <2> QED BY <2>1, <2>2
<1>6. CASE Locked(d)
  <2>1. \/ UNCHANGED <<lease, work, submission>>
        \/ claim[d].valid /\ lease[l].kind = "initial" /\ RecordPublish(l)
        \/ claim[d].valid /\ lease[l].kind = "revision" /\ RecordUpdate(l)
    BY <1>0, <1>6 DEF Record
  <2> QED BY <1>3, <1>4, <1>5, <1>6, <2>1
<1> QED BY <1>2, <1>6
-----------------------------------------------------------------------------
(* The webhooks of pull requests *)

\* A webhook's transaction ends leases and moves no pointer; submissions keep their head
\* and round.
LEMMA WebhookFrame ==
  ASSUME PubInv, UNCHANGED <<project, ledger, member, device, declined, job, txn>>,
         txn = Closed, UNCHANGED publicationVars, UNCHANGED remote, UNCHANGED reviews,
         webhooks' \subseteq webhooks, lastReview' \in [Leases -> ReviewIds \cup {NoReview}],
         lease' \in [Leases -> LeaseRows], work' \in [Works -> WorkRows],
         submission' \in [Leases -> SubmissionRows], Loose, NoneSubmitted, SubmissionsStay,
         \A w \in Works : /\ work'[w].generation = work[w].generation
                          /\ work'[w].active = work[w].active
  PROVE  PubInv' /\ Carried
<1>1. CInv /\ TypeOK /\ JobsOK /\ SubmissionsOK /\ SubmittedIsOnGitHub
      /\ RoundsAreCountedOnce /\ HeadsOK /\ InOrder /\ ClaimsOK /\ AttemptsOK
      /\ PublicationTypeOK
  BY DEF PubInv, CInv
<1>2. PointersStay
  BY DEF PointersStay
<1>3. \A w \in Works : work'[w].active # NoLease => lease'[work'[w].active].state # "submitted"
  BY <1>1 DEF TypeOK, WorkRows, CInv, Safe, PointerKnown, NoneSubmitted, Endable
<1>4. Safe'
  BY <1>1, <1>2, <1>3, LooseIsSafe
<1>5. TypeOK' /\ TxnOK'
  <2>1. TypeOK'
    BY <1>1 DEF TypeOK
  <2> QED BY <2>1 DEF TxnOK, Closed
<1>6. Carried /\ InOrder'
  BY <1>1, <1>2, LooseCarries, OrderStays
<1>7. JobsStay
  BY DEF JobsStay
<1>8. JobsOK' /\ SubmissionsOK' /\ SubmittedIsOnGitHub' /\ RoundsAreCountedOnce'
  BY <1>1, <1>6, <1>7, JobsStayOK, SubmissionsStayOK, SubmittedStays, RoundsStay
<1>9. HeadsOK'
  BY <1>1, HeadsStay
<1>10. AttemptsOK'
  BY <1>1 DEF AttemptsOK, publicationVars
<1>11. ClaimsOK'
  BY <1>1, <1>6, ClaimStays DEF ClaimsOK, publicationVars
<1>12. PublicationTypeOK'
  BY <1>1, <1>5 DEF PublicationTypeOK, IterationTypeOK, publicationVars
<1> QED BY <1>4, <1>5, <1>6, <1>8, <1>9, <1>10, <1>11, <1>12 DEF PubInv, CInv

\* What a webhook names, and what it leaves alone.
LEMMA DeliveredWebhook ==
  ASSUME PubInv, NEW m \in webhooks, Deliver(m)
  PROVE  /\ m.pr \in Leases /\ m.id \in ReviewIds \cup {NoReview} /\ m.mentions \in SUBSET Users
         /\ txn = Closed /\ webhooks' \subseteq webhooks /\ UNCHANGED remote /\ UNCHANGED reviews
         /\ Recorded(m.pr) => lease[m.pr].work \in Works
BY DispatcherTypes
   DEF Deliver, IterationTypeOK, Webhooks, PubInv, SubmissionsOK, RecordedOK, CInv, Safe, Born

\* Leaving all rows alone, or only the row of one submission, is allowed by the frame.
LEMMA SameRows ==
  ASSUME TypeOK, UNCHANGED <<lease, work>>
  PROVE  /\ Loose /\ NoneSubmitted
         /\ lease' \in [Leases -> LeaseRows] /\ work' \in [Works -> WorkRows]
         /\ \A w \in Works : /\ work'[w].generation = work[w].generation
                             /\ work'[w].active = work[w].active
BY DEF Loose, NoneSubmitted, TypeOK

LEMMA SameSubmissions ==
  ASSUME TypeOK, UNCHANGED submission
  PROVE  SubmissionsStay /\ submission' \in [Leases -> SubmissionRows]
BY DEF SubmissionsStay, TypeOK

\* A work's state is shown; its pointer and generation are not touched.
LEMMA ShownState ==
  ASSUME TypeOK, NEW w \in Works, NEW s \in WorkStates,
         work' = [work EXCEPT ![w].state = s]
  PROVE  /\ work' \in [Works -> WorkRows]
         /\ \A v \in Works : /\ work'[v].generation = work[v].generation
                             /\ work'[v].active = work[v].active
BY DEF TypeOK, WorkRows

\* The active lease, if any, ends with a state that nothing is allocated in.
LEMMA ActiveEnds ==
  ASSUME CInv, NEW w \in Works, NEW s \in {"review_invalidated", "merged", "closed"},
         lease' = ActiveBecomes(w, s)
  PROVE  Loose /\ NoneSubmitted /\ lease' \in [Leases -> LeaseRows]
<1>1. \A l \in Leases : lease[l] \in LeaseRows
  BY DEF CInv, TypeOK
<1>2. s \in LeaseStates /\ s \notin Active /\ s \notin {"none", "submitted"}
  BY DEF LeaseStates, Active
<1>3. ASSUME NEW l \in Leases, work[w].active = l
      PROVE  LET q == [lease[l] EXCEPT !.state = s] IN
             /\ q \in LeaseRows /\ q.state = s
             /\ lease[l].state # "none" /\ Follows(lease[l], q)
  <2> DEFINE q == [lease[l] EXCEPT !.state = s]
  <2>1. Endable(lease[l])
    BY <1>3 DEF CInv, Safe, PointerKnown, Leases, NoLease
  <2>2. q \in LeaseRows /\ q.state = s
    BY <1>1, <1>2 DEF LeaseRows
  <2>3. Follows(lease[l], q)
    BY <1>1, <1>2, <2>1 DEF Follows, RowOK, Endable, LeaseRows, Active
  <2> QED BY <2>1, <2>2, <2>3 DEF Endable
<1>4. \A l \in Leases : lease'[l] = IF work[w].active = l THEN [lease[l] EXCEPT !.state = s]
                                                         ELSE lease[l]
  BY DEF ActiveBecomes
<1>5. lease' \in [Leases -> LeaseRows]
  <2>1. \A l \in Leases : (IF work[w].active = l THEN [lease[l] EXCEPT !.state = s]
                                                 ELSE lease[l]) \in LeaseRows
    BY <1>1, <1>3
  <2> QED BY <2>1 DEF ActiveBecomes
<1>6. Loose
  BY <1>3, <1>4 DEF Loose
<1>7. NoneSubmitted
  BY <1>2, <1>3, <1>4 DEF NoneSubmitted
<1> QED BY <1>5, <1>6, <1>7

LEMMA ReviewApprovedKeeps ==
  ASSUME PubInv, NEW m \in webhooks, ReviewApproved(m), UNCHANGED publicationVars
  PROVE  PubInv' /\ Carried
<1>1. TypeOK /\ Deliver(m) /\ m.pr \in Leases
  BY DispatcherTypes, DeliveredWebhook DEF ReviewApproved
<1>2. UNCHANGED <<project, ledger, member, device, declined, job, txn>>
      /\ UNCHANGED <<lease, work>> /\ lastReview' \in [Leases -> ReviewIds \cup {NoReview}]
  BY DispatcherTypes DEF ReviewApproved, peopleVars, IterationTypeOK
<1>3. SubmissionsStay /\ submission' \in [Leases -> SubmissionRows]
  <2>1. CASE UNCHANGED submission
    BY <1>1, <2>1, SameSubmissions
  <2>2. CASE /\ submission[m.pr].state \in {"open", "awaiting_rereview"}
             /\ submission' = [submission EXCEPT ![m.pr].state = "approved", ![m.pr].since = 0]
    <3>1. "approved" \in SubmissionStates \ {"none"}
      BY DEF SubmissionStates
    <3> QED BY <1>1, <2>2, <3>1, OneSubmission
  <2> QED BY <2>1, <2>2 DEF ReviewApproved
<1> QED BY <1>1, <1>2, <1>3, DeliveredWebhook, SameRows, WebhookFrame

LEMMA RequestRevisionKeeps ==
  ASSUME PubInv, NEW m \in webhooks, RequestRevision(m), UNCHANGED publicationVars
  PROVE  PubInv' /\ Carried
<1>1. PICK k \in Leases : k = m.pr
  BY DeliveredWebhook DEF RequestRevision
<1>2. TypeOK /\ Deliver(m) /\ lastReview \in [Leases -> ReviewIds \cup {NoReview}]
  BY DispatcherTypes DEF RequestRevision, IterationTypeOK
<1>3. UNCHANGED <<project, ledger, member, device, declined, job, txn>>
  BY DEF RequestRevision, peopleVars
<1>4. CASE UNCHANGED <<lease, work, submission, lastReview>>
  BY <1>2, <1>3, <1>4, DeliveredWebhook, SameRows, SameSubmissions, WebhookFrame
<1>5. CASE Heard(m) /\ submission' = Escalated(k) /\ UNCHANGED <<lease, work, lastReview>>
  <2>1. "escalated" \in SubmissionStates \ {"none"}
    BY DEF SubmissionStates
  <2>2. SubmissionsStay /\ submission' \in [Leases -> SubmissionRows]
    BY <1>1, <1>2, <1>5, <2>1, OneSubmission DEF Escalated, Heard, Recorded
  <2> QED BY <1>2, <1>3, <1>5, <2>2, DeliveredWebhook, SameRows, WebhookFrame
<1>6. ASSUME Heard(m), NEW w, w = lease[k].work,
             lease' = [l \in Leases |-> IF l \in Latest(w)
                                        THEN [lease[l] EXCEPT !.feedback = m.mentions]
                                        ELSE lease[l]],
             submission' = [submission EXCEPT ![k].state = "changes_requested",
                                              ![k].since = 0],
             lastReview' = [lastReview EXCEPT ![k] = m.id],
             work' = [work EXCEPT ![w].state = "revision_requested"]
      PROVE  PubInv' /\ Carried
  <2>1. "changes_requested" \in SubmissionStates \ {"none"}
        /\ "revision_requested" \in WorkStates
    BY DEF SubmissionStates, WorkStates, Allocatable
  <2>2. SubmissionsStay /\ submission' \in [Leases -> SubmissionRows]
    BY <1>1, <1>2, <1>6, <2>1, OneSubmission DEF Heard, Recorded
  <2>3. lastReview' \in [Leases -> ReviewIds \cup {NoReview}] /\ w \in Works
    BY <1>1, <1>2, <1>6, DeliveredWebhook DEF Heard
  <2>4. /\ work' \in [Works -> WorkRows]
        /\ \A v \in Works : /\ work'[v].generation = work[v].generation
                            /\ work'[v].active = work[v].active
    BY <1>2, <1>6, <2>1, <2>3, ShownState
  <2>5. ASSUME NEW l \in Leases
        PROVE  LET q == [lease[l] EXCEPT !.feedback = m.mentions] IN
               q \in LeaseRows /\ q.state = lease[l].state
               /\ (lease[l].state # "none" => Follows(lease[l], q))
    <3>1. lease[l] \in LeaseRows /\ m.mentions \in SUBSET Users
      BY <1>2, DeliveredWebhook DEF TypeOK
    <3> QED BY <3>1 DEF LeaseRows, Follows, RowOK
  <2>6. \A l \in Latest(w) : lease[l].state # "none"
    BY DEF Latest, LeasesOf
  <2>7. \A l \in Leases : lease'[l] = IF l \in Latest(w)
                                      THEN [lease[l] EXCEPT !.feedback = m.mentions]
                                      ELSE lease[l]
    BY <1>6
  <2>8. lease' \in [Leases -> LeaseRows]
    <3>1. \A l \in Leases : (IF l \in Latest(w) THEN [lease[l] EXCEPT !.feedback = m.mentions]
                                                ELSE lease[l]) \in LeaseRows
      BY <1>2, <2>5 DEF TypeOK
    <3> QED BY <1>6, <3>1
  <2>9. Loose /\ NoneSubmitted
    BY <2>5, <2>6, <2>7 DEF Loose, NoneSubmitted
  <2> QED BY <1>2, <1>3, <2>2, <2>3, <2>4, <2>8, <2>9, DeliveredWebhook, WebhookFrame
<1> QED BY <1>1, <1>4, <1>5, <1>6 DEF RequestRevision

LEMMA SynchronizeKeeps ==
  ASSUME PubInv, NEW m \in webhooks, Synchronize(m), UNCHANGED publicationVars
  PROVE  PubInv' /\ Carried
<1>1. PICK k \in Leases : k = m.pr
  BY DeliveredWebhook DEF Synchronize
<1>2. TypeOK /\ CInv /\ Deliver(m)
  BY DispatcherTypes DEF Synchronize, PubInv
<1>3. UNCHANGED <<project, ledger, member, device, declined, job, txn>>
      /\ lastReview' \in [Leases -> ReviewIds \cup {NoReview}]
  BY DispatcherTypes DEF Synchronize, peopleVars, IterationTypeOK
<1>4. CASE UNCHANGED <<lease, work, submission>>
  BY <1>2, <1>3, <1>4, DeliveredWebhook, SameRows, SameSubmissions, WebhookFrame
<1>5. CASE submission' = [submission EXCEPT ![k].since = 0] /\ UNCHANGED <<lease, work>>
  <2>1. 0 \in 0..MaxAffinity
    BY BoundsAssumption
  <2>2. SubmissionsStay /\ submission' \in [Leases -> SubmissionRows]
    BY <1>2, <1>5, <2>1 DEF SubmissionsStay, TypeOK, SubmissionRows
  <2> QED BY <1>2, <1>3, <1>5, <2>2, DeliveredWebhook, SameRows, WebhookFrame
<1>6. CASE /\ Recorded(k) /\ submission' = Escalated(k)
           /\ \/ UNCHANGED <<lease, work>>
              \/ /\ lease' = ActiveBecomes(lease[k].work, "review_invalidated")
                 /\ work' = [work EXCEPT ![lease[k].work].state = "review_invalidated"]
  <2>1. "escalated" \in SubmissionStates \ {"none"} /\ "review_invalidated" \in WorkStates
    BY DEF SubmissionStates, WorkStates
  <2>2. SubmissionsStay /\ submission' \in [Leases -> SubmissionRows]
    BY <1>2, <1>6, <2>1, OneSubmission DEF Escalated, Recorded
  <2>3. lease[k].work \in Works
    BY <1>1, <1>2, <1>6, DeliveredWebhook
  <2>4. CASE UNCHANGED <<lease, work>>
    BY <1>2, <1>3, <2>2, <2>4, DeliveredWebhook, SameRows, WebhookFrame
  <2>5. CASE /\ lease' = ActiveBecomes(lease[k].work, "review_invalidated")
             /\ work' = [work EXCEPT ![lease[k].work].state = "review_invalidated"]
    <3>1. Loose /\ NoneSubmitted /\ lease' \in [Leases -> LeaseRows]
      BY <1>2, <2>3, <2>5, ActiveEnds
    <3>2. /\ work' \in [Works -> WorkRows]
          /\ \A v \in Works : /\ work'[v].generation = work[v].generation
                              /\ work'[v].active = work[v].active
      BY <1>2, <2>1, <2>3, <2>5, ShownState
    <3> QED BY <1>2, <1>3, <2>2, <3>1, <3>2, DeliveredWebhook, WebhookFrame
  <2> QED BY <1>6, <2>4, <2>5
<1> QED BY <1>1, <1>4, <1>5, <1>6 DEF Synchronize

LEMMA PullRequestEndedKeeps ==
  ASSUME PubInv, NEW m \in webhooks, PullRequestEnded(m), UNCHANGED publicationVars
  PROVE  PubInv' /\ Carried
<1>1. PICK k \in Leases : k = m.pr
  BY DeliveredWebhook DEF PullRequestEnded
<1>2. TypeOK /\ CInv /\ Deliver(m) /\ m.type \in {"merged", "closed"}
  BY DispatcherTypes DEF PullRequestEnded, PubInv
<1>3. UNCHANGED <<project, ledger, member, device, declined, job, txn>>
      /\ lastReview' \in [Leases -> ReviewIds \cup {NoReview}]
  BY DispatcherTypes DEF PullRequestEnded, peopleVars, IterationTypeOK
<1>4. CASE ~Recorded(k)
  BY <1>1, <1>2, <1>3, <1>4, DeliveredWebhook, SameRows, SameSubmissions, WebhookFrame
     DEF PullRequestEnded
<1>5. CASE Recorded(k)
  <2>1. m.type \in SubmissionStates \ {"none"} /\ m.type \in WorkStates
    BY <1>2 DEF SubmissionStates, WorkStates
  <2>2. /\ submission' = [submission EXCEPT ![k].state = m.type, ![k].since = 0]
        /\ work' = [work EXCEPT ![lease[k].work].state = m.type]
        /\ lease' = ActiveBecomes(lease[k].work, m.type)
    BY <1>1, <1>5 DEF PullRequestEnded
  <2>3. lease[k].work \in Works
    BY <1>1, <1>2, <1>5, DeliveredWebhook
  <2>4. SubmissionsStay /\ submission' \in [Leases -> SubmissionRows]
    BY <1>2, <1>5, <2>1, <2>2, OneSubmission DEF Recorded
  <2>5. Loose /\ NoneSubmitted /\ lease' \in [Leases -> LeaseRows]
    BY <1>2, <2>2, <2>3, ActiveEnds
  <2>6. /\ work' \in [Works -> WorkRows]
        /\ \A v \in Works : /\ work'[v].generation = work[v].generation
                            /\ work'[v].active = work[v].active
    BY <1>2, <2>1, <2>2, <2>3, ShownState
  <2> QED BY <1>2, <1>3, <2>4, <2>5, <2>6, DeliveredWebhook, WebhookFrame
<1> QED BY <1>4, <1>5
-----------------------------------------------------------------------------
(* The system *)

LEMMA SystemInitIsSafe == SystemInit => PubInv
<1> SUFFICES ASSUME SystemInit PROVE PubInv
  OBVIOUS
<1>1. CInv /\ TypeOK
  BY InitIsSafe DEF SystemInit, IInv, CInv
<1>2. /\ \A w \in Works : work[w].active = NoLease
      /\ \A l \in Leases : lease[l].state = "none"
      /\ \A k \in Leases : submission[k].state = "none"
      /\ \A l \in Leases : job[l].state = "none"
  BY DEF SystemInit, Init, UnbornLease
<1>3. IterationTypeOK /\ \A k \in Leases : remote[k].head = NoCommit
  BY ReviewsAssumption DEF SystemInit, IterationInit, IterationTypeOK, Heads, Commits
<1>4. /\ claim \in [Dispatchers -> ClaimRows] /\ \A d \in Dispatchers : claim[d] = Idle
      /\ lock \in [Leases -> Dispatchers \cup {Nobody}] /\ free \in [Leases -> BOOLEAN]
      /\ attempts \in [Leases -> 0..MaxAttempts] /\ \A l \in Leases : attempts[l] = 0
      /\ mishaps \in [crashes : 0..MaxCrashes, lapses : 0..MaxLapses]
  BY DispatchersAssumption DEF SystemInit, ClaimRows, Idle, Phases
<1>5. PublicationTypeOK
  BY <1>1, <1>3, <1>4 DEF PublicationTypeOK, ClaimRows
<1>6. InOrder /\ JobsOK /\ HeadsOK /\ SubmissionsOK
  BY <1>2, <1>3 DEF InOrder, JobsOK, JobOK, HeadsOK, HeadOK, SubmissionsOK, RecordedOK, Recorded
<1>7. AttemptsOK
  BY <1>4, DispatchersAssumption DEF AttemptsOK
<1>8. ClaimsOK
  BY <1>4 DEF ClaimsOK, ClaimOK, Idle
<1>9. SubmittedIsOnGitHub
  BY <1>2 DEF SubmittedIsOnGitHub
<1>10. RoundsAreCountedOnce
  <2> SUFFICES ASSUME NEW w \in Works
               PROVE  RoundsOf(submission, SubmissionsOf(w)) = Cardinality(Revised(w))
    BY RoundsInv
  <2>1. SubmissionsOf(w) = {} /\ Revised(w) = {}
    BY <1>2 DEF SubmissionsOf, Revised, LeasesOf
  <2>2. RoundsOf(submission, {}) = 0
    BY RoundsAreTotal, TotalEmpty
  <2> QED BY <2>1, <2>2, FS_EmptySet
<1> QED BY <1>1, <1>5, <1>6, <1>7, <1>8, <1>9, <1>10 DEF PubInv

\* Every step of the server, of GitHub and of the dispatchers keeps the invariant, and
\* carries the rows of the leases on.
LEMMA SystemNextKeeps ==
  ASSUME PubInv, SystemNext
  PROVE  PubInv' /\ Carried
<1>1. CASE Next /\ UNCHANGED <<iterationVars, publicationVars>>
  BY <1>1, CoordinatorKeeps
<1>2. CASE (GitHubStep \/ WebhookStep) /\ UNCHANGED publicationVars
  BY <1>2, GitHubKeeps, RequestRevisionKeeps, ReviewApprovedKeeps, SynchronizeKeeps,
     PullRequestEndedKeeps DEF WebhookStep
<1>3. ASSUME NEW d \in Dispatchers, DispatcherStep(d) PROVE PubInv' /\ Carried
  BY <1>3, ClaimKeeps, PrepareKeeps, PublishBranchKeeps, PublishPullRequestKeeps,
     UpdateBranchKeeps, RecordKeeps, DeliveryFailsKeeps, CrashKeeps
     DEF DispatcherStep, Delivery
<1>4. ASSUME NEW l \in Leases, LockLapses(l) \/ \E u \in Retriers : Retry(u, l)
      PROVE  PubInv' /\ Carried
  BY <1>4, LockLapsesKeeps, RetryKeeps
<1> QED BY <1>1, <1>2, <1>3, <1>4 DEF SystemNext

LEMMA SystemStutters ==
  ASSUME PubInv, UNCHANGED systemVars
  PROVE  PubInv' /\ Carried
<1>1. UNCHANGED coordinatorRows /\ UNCHANGED job /\ UNCHANGED iterationVars
      /\ UNCHANGED <<claim, lock, free, attempts, mishaps>>
  BY DEF systemVars, vars, publicationVars, coordinatorRows
<1>2. UNCHANGED remote /\ IterationTypeOK' /\ JobsStay
  BY <1>1, DispatcherTypes DEF iterationVars, IterationTypeOK, JobsStay
<1>3. CInv' /\ Carried
  BY <1>1, <1>2, DispatcherTypes, RowsUntouched DEF JobRows
<1>4. HeadsOK' /\ AttemptsOK'
  BY <1>1, <1>2, HeadsStay DEF PubInv, AttemptsOK
<1>5. ClaimsOK'
  BY <1>1, <1>2, <1>3, ClaimStays DEF PubInv, ClaimsOK
<1> QED BY <1>1, <1>2, <1>4, <1>5, DispatcherTypes, DispatcherFrame

\* The inductive invariant holds of every behaviour of the system.
THEOREM SystemInvariance == SystemSpec => []PubInv
<1>1. PubInv /\ [SystemNext]_systemVars => PubInv'
  BY SystemNextKeeps, SystemStutters
<1> QED BY SystemInitIsSafe, <1>1, PTL DEF SystemSpec

\* Every row and every webhook keeps its type, and no job fails more often than the
\* dispatcher gives up after, whatever crashes, lapses and retries come together.
THEOREM PublicationTypeCorrect == SystemSpec => []PublicationTypeOK
BY SystemInvariance, PTL DEF PubInv

\* The head that the App puts on a submission branch is a commit whose evidence was
\* submitted for review, and whose contributor approved exactly it: no race of approval,
\* cancellation, retry and a slow or dead dispatcher publishes another.
THEOREM NothingElseIsPublished == SystemSpec => []OnlyApprovedIsPublished
<1>1. PubInv => OnlyApprovedIsPublished
  <2> SUFFICES ASSUME PubInv, NEW k \in Leases, remote[k].head[1] # NoLease
               PROVE  LET l == remote[k].head[1] IN
                      lease[l].reviewed /\ lease[l].approved = remote[k].head[2]
    BY DEF OnlyApprovedIsPublished
  <2>1. HeadOK(k)
    BY DEF PubInv, HeadsOK
  <2>2. NoCommit[1] = NoLease /\ Foreign[1] = NoLease
    BY DEF NoCommit, Foreign
  <2>3. PICK l \in Leases : job[l].state # "none" /\ remote[k].head = <<l, job[l].sha>>
    BY <2>1, <2>2 DEF HeadOK
  <2>4. lease[l].reviewed /\ lease[l].approved = job[l].sha
    BY <2>3 DEF PubInv, JobsOK, JobOK
  <2> QED BY <2>3, <2>4
<1> QED BY SystemInvariance, <1>1, PTL

\* A lease is shown as submitted only while its pull request exists and its issue has a
\* row for it, whose head is the lease's commit or a later round's.
THEOREM SubmissionsAreReal == SystemSpec => []SubmittedIsOnGitHub
BY SystemInvariance, PTL DEF PubInv

\* The revision rounds counted for an issue are its submitted revisions: no redelivery,
\* retry, lapsed lock or race counts one twice or not at all.
THEOREM EachRoundIsCountedOnce == SystemSpec => []RoundsAreCountedOnce
BY SystemInvariance, PTL DEF PubInv

\* Webhooks and dispatchers keep what the coordinator promises: one active lease of a
\* person at most, which is the one its issue points to.
THEOREM SystemHoldsOne == SystemSpec => [](OneActivePerUser /\ ActiveIsCurrent)
BY SystemInvariance, PTL DEF PubInv, CInv, Safe

\* The commit and the usage the reviewers read are never replaced, neither by a webhook
\* nor by the end of a delivery.
THEOREM SystemEvidenceIsFrozen == SystemSpec => ReviewIsFrozen
<1>1. PubInv /\ [SystemNext]_systemVars =>
        [\A l \in Leases : lease[l].reviewed =>
           /\ lease'[l].reviewed
           /\ lease'[l].sha = lease[l].sha /\ lease'[l].usage = lease[l].usage]_vars
  <2> SUFFICES ASSUME PubInv, [SystemNext]_systemVars, NEW l \in Leases, lease[l].reviewed
               PROVE  /\ lease'[l].reviewed
                      /\ lease'[l].sha = lease[l].sha /\ lease'[l].usage = lease[l].usage
    OBVIOUS
  <2>1. Carried
    BY SystemNextKeeps, SystemStutters
  <2>2. lease[l].state # "none"
    BY DEF PubInv, CInv, Safe, RowsOK, RowOK
  <2> QED BY <2>1, <2>2 DEF Carried
<1> QED BY SystemInvariance, <1>1, PTL DEF SystemSpec, ReviewIsFrozen
-----------------------------------------------------------------------------
(* One pull request per issue.                                              *)
(*                                                                          *)
(* _record_update and the revision branch of allocate take the first row of *)
(* an unordered SELECT for the submission of the issue.  While no issue has *)
(* two rows that is the row the round is about, and each row runs through   *)
(* the rounds of iteration.py in order: LegalRounds.  OnePullRequest is a    *)
(* hypothesis below; README 4.8 says when it holds.                         *)

\* Issue w has a submission in one of these states.
InRound(w, states) == \E k \in SubmissionsOf(w) : submission[k].state \in states

\* The round of an active revision is the one under way, a requested revision has been
\* asked for or given up, and a revision is handed over only while it is asked for.
RevisionsRecorded ==
  \A l \in Leases : lease[l].state # "none" /\ lease[l].kind = "revision" =>
    SubmissionsOf(lease[l].work) # {}
RevisionsInRound ==
  \A l \in Leases : lease[l].state \in Active /\ lease[l].kind = "revision" =>
    InRound(lease[l].work, {"revising"})
RequestsInRound ==
  \A w \in Works : work[w].state = "revision_requested" =>
    InRound(w, {"changes_requested", "escalated"})
HandingOver == txn.op = "sweep" /\ txn.device # NoDevice
HandoverInRound ==
  HandingOver /\ work[txn.work].state = "revision_requested" =>
    InRound(txn.work, {"changes_requested"})

RoundInv == RevisionsRecorded /\ RevisionsInRound /\ RequestsInRound /\ HandoverInRound

\* What a step may do to the row of the pull request of lease k: a review or a comment
\* asks for a round while the policy has one left, the revision is allocated, released
\* or published, a reviewer approves the head, or the pull request is given up or ends.
SameRound(k) == submission'[k].round = submission[k].round
ApprovedBy(k, m) == m.type = "approved" /\ m.pr = k /\ m.head = submission[k].head
Legal(k) ==
  \/ submission'[k].state = submission[k].state /\ SameRound(k)
  \/ /\ submission[k].state = "none"
     /\ submission'[k].state = "open" /\ submission'[k].round = 1
  \/ /\ submission[k].state \in {"open", "awaiting_rereview", "approved"}
     /\ submission'[k].state = "changes_requested" /\ SameRound(k)
     /\ RevisionsSpent(k) < project.policy.maxRounds
  \/ /\ submission[k].state = "changes_requested"
     /\ submission'[k].state = "revising" /\ SameRound(k)
  \/ /\ submission[k].state = "revising"
     /\ submission'[k].state = "changes_requested" /\ SameRound(k)
  \/ /\ submission[k].state = "revising"
     /\ submission'[k].state = "awaiting_rereview"
     /\ submission'[k].round = submission[k].round + 1
  \/ /\ submission[k].state \in {"open", "awaiting_rereview"}
     /\ submission'[k].state = "approved" /\ SameRound(k)
     /\ \E m \in webhooks \ webhooks' : ApprovedBy(k, m)
  \/ /\ submission[k].state # "none"
     /\ submission'[k].state \in {"escalated", "merged", "closed"} /\ SameRound(k)
LegalRounds == \A k \in Leases : Legal(k)

\* No revision is allocated in this step, and none becomes active again.
NoNewRevision ==
  \A l \in Leases : lease'[l].state # "none" /\ lease'[l].kind = "revision" =>
    lease[l].state # "none" /\ (lease'[l].state \in Active => lease[l].state \in Active)

\* The submissions of an issue are those of allocated leases, and stay its submissions.
LEMMA SubmissionsKnown ==
  ASSUME PubInv, NEW w, NEW k \in SubmissionsOf(w)
  PROVE  /\ k \in Leases /\ Recorded(k) /\ lease[k].work = w /\ lease[k].state # "none"
         /\ Carried /\ submission'[k].state # "none" => k \in SubmissionsOf(w)'
BY DEF SubmissionsOf, Recorded, PubInv, SubmissionsOK, RecordedOK, Carried

\* With one pull request an issue has one submission.
LEMMA OneSubmissionOf ==
  ASSUME OnePullRequest, NEW w, NEW k \in SubmissionsOf(w), NEW j \in SubmissionsOf(w)
  PROVE  k = j
BY DEF OnePullRequest, SubmissionsOf, Recorded

LEMMA LooseRevises ==
  ASSUME Loose
  PROVE  NoNewRevision
BY DEF Loose, Follows, NoNewRevision

\* Steps that move no round,
LEMMA RoundsStand ==
  ASSUME PubInv, RoundInv, Carried, NoNewRevision,
         \A k \in Leases : Recorded(k) => submission'[k].state = submission[k].state,
         \A w \in Works : work'[w].state = "revision_requested" =>
                          work[w].state = "revision_requested",
         HandingOver' /\ work'[txn'.work].state = "revision_requested" => txn' = txn
  PROVE  RoundInv'
<1>1. \A w, states : InRound(w, states) => InRound(w, states)'
  <2> SUFFICES ASSUME NEW w, NEW states, NEW k \in SubmissionsOf(w),
                      submission[k].state \in states
               PROVE  InRound(w, states)'
    BY DEF InRound
  <2>1. k \in Leases /\ Recorded(k) /\ submission'[k].state = submission[k].state
    BY SubmissionsKnown
  <2>2. k \in SubmissionsOf(w)'
    BY <2>1, SubmissionsKnown DEF Recorded
  <2> QED BY <2>1, <2>2 DEF InRound
<1>2. RevisionsRecorded'
  <2> SUFFICES ASSUME NEW l \in Leases, lease'[l].state # "none", lease'[l].kind = "revision",
                      NEW v, v = lease'[l].work
               PROVE  SubmissionsOf(v)' # {}
    BY DEF RevisionsRecorded, SubmissionsOf
  <2>1. /\ lease[l].state # "none" /\ lease[l].kind = "revision"
        /\ lease[l].work = v
    BY DEF NoNewRevision, Carried
  <2>2. PICK k \in SubmissionsOf(v) : TRUE
    BY <2>1 DEF RoundInv, RevisionsRecorded
  <2>3. k \in SubmissionsOf(v)'
    <3>1. submission'[k].state # "none"
      BY SubmissionsKnown DEF Recorded
    <3> QED BY <2>1, <3>1, SubmissionsKnown
  <2> QED BY <2>1, <2>3
<1>3. RevisionsInRound'
  <2> SUFFICES ASSUME NEW l \in Leases, lease'[l].state \in Active, lease'[l].kind = "revision",
                      NEW v, v = lease'[l].work
               PROVE  InRound(v, {"revising"})'
    BY DEF RevisionsInRound, InRound, SubmissionsOf
  <2>1. /\ lease[l].state \in Active /\ lease[l].kind = "revision"
        /\ lease[l].work = v
    BY DEF NoNewRevision, Carried, Active
  <2>2. InRound(v, {"revising"})
    BY <2>1 DEF RoundInv, RevisionsInRound
  <2> QED BY <1>1, <2>1, <2>2
<1>4. RequestsInRound'
  BY <1>1 DEF RoundInv, RequestsInRound
<1>5. HandoverInRound'
  <2> SUFFICES ASSUME HandingOver', work'[txn'.work].state = "revision_requested",
                      NEW v, v = txn'.work
               PROVE  InRound(v, {"changes_requested"})'
    BY DEF HandoverInRound, InRound, SubmissionsOf
  <2>1. txn' = txn /\ HandingOver
    BY DEF HandingOver
  <2>2. work[v].state = "revision_requested"
    <3>1. v \in Works
      BY <2>1 DEF PubInv, CInv, TxnOK, HandingOver
    <3> QED BY <2>1, <3>1
  <2>3. InRound(v, {"changes_requested"})
    BY <2>1, <2>2 DEF RoundInv, HandoverInRound
  <2> QED BY <1>1, <2>3
<1> QED BY <1>2, <1>3, <1>4, <1>5 DEF RoundInv

\* and those that move the round of one issue.
LEMMA OneRoundMoves ==
  ASSUME PubInv, RoundInv, Carried, NEW w \in Works, NEW k \in SubmissionsOf(w),
         submission'[k].state # "none",
         \A j \in Leases : j # k /\ Recorded(j) => submission'[j].state = submission[j].state,
         \A l \in Leases : lease'[l].state # "none" /\ lease'[l].kind = "revision" =>
           \/ lease[l].state # "none" /\ (lease'[l].state \in Active => lease[l].state \in Active)
           \/ lease'[l].work = w,
         \/ submission'[k].state = "revising"
         \/ \A l \in Leases : lease'[l].state \in Active /\ lease'[l].kind = "revision" =>
              lease'[l].work # w,
         \A v \in Works : v # w /\ work'[v].state = "revision_requested" =>
                          work[v].state = "revision_requested",
         work'[w].state = "revision_requested" =>
           submission'[k].state \in {"changes_requested", "escalated"},
         HandingOver' => txn'.work = w /\ submission'[k].state = "changes_requested"
  PROVE  RoundInv'
<1>0. k \in Leases /\ Recorded(k) /\ lease[k].work = w /\ k \in SubmissionsOf(w)'
  BY SubmissionsKnown
<1>1. ASSUME NEW v, v # w, NEW states, InRound(v, states)
      PROVE  InRound(v, states)'
  <2>1. PICK j \in SubmissionsOf(v) : submission[j].state \in states
    BY <1>1 DEF InRound
  <2>2. j \in Leases /\ Recorded(j) /\ j # k
    BY <1>0, <1>1, SubmissionsKnown
  <2>3. submission'[j].state = submission[j].state
    BY <2>2
  <2>4. j \in SubmissionsOf(v)'
    BY <2>2, <2>3, SubmissionsKnown DEF Recorded
  <2> QED BY <2>1, <2>3, <2>4 DEF InRound
<1>2. \A states : submission'[k].state \in states => InRound(w, states)'
  BY <1>0 DEF InRound
<1>3. RevisionsRecorded'
  <2> SUFFICES ASSUME NEW l \in Leases, lease'[l].state # "none", lease'[l].kind = "revision",
                      NEW v, v = lease'[l].work, v # w
               PROVE  SubmissionsOf(v)' # {}
    BY <1>0 DEF RevisionsRecorded, SubmissionsOf
  <2>1. /\ lease[l].state # "none" /\ lease[l].kind = "revision"
        /\ lease[l].work = v
    BY DEF Carried
  <2>2. PICK j \in SubmissionsOf(v) : TRUE
    BY <2>1 DEF RoundInv, RevisionsRecorded
  <2>3. j \in SubmissionsOf(v)'
    <3>1. j \in Leases /\ Recorded(j) /\ j # k
      BY <1>0, <2>1, SubmissionsKnown
    <3>2. submission'[j].state # "none"
      BY <3>1 DEF Recorded
    <3> QED BY <3>2, SubmissionsKnown
  <2> QED BY <2>1, <2>3
<1>4. RevisionsInRound'
  <2> SUFFICES ASSUME NEW l \in Leases, lease'[l].state \in Active, lease'[l].kind = "revision",
                      NEW v, v = lease'[l].work
               PROVE  InRound(v, {"revising"})'
    BY DEF RevisionsInRound, InRound, SubmissionsOf
  <2>1. CASE v = w
    BY <1>2, <2>1
  <2>2. CASE v # w
    <3>1. /\ lease[l].state \in Active /\ lease[l].kind = "revision"
          /\ lease[l].work = v
      BY <2>2 DEF Carried, Active
    <3>2. InRound(v, {"revising"})
      BY <3>1 DEF RoundInv, RevisionsInRound
    <3> QED BY <1>1, <2>2, <3>1, <3>2
  <2> QED BY <2>1, <2>2
<1>5. RequestsInRound'
  <2> SUFFICES ASSUME NEW v \in Works, work'[v].state = "revision_requested"
               PROVE  InRound(v, {"changes_requested", "escalated"})'
    BY DEF RequestsInRound
  <2>1. CASE v = w
    BY <1>2, <2>1
  <2>2. CASE v # w
    BY <1>1, <2>2 DEF RoundInv, RequestsInRound
  <2> QED BY <2>1, <2>2
<1>6. HandoverInRound'
  BY <1>2 DEF HandoverInRound, InRound, SubmissionsOf
<1> QED BY <1>3, <1>4, <1>5, <1>6 DEF RoundInv
-----------------------------------------------------------------------------
(* The coordinator's steps in a round *)

\* Rows whose state and round stay are legal.
LEMMA StandingIsLegal ==
  ASSUME \A k \in Leases : submission'[k].state = submission[k].state /\ SameRound(k)
  PROVE  LegalRounds
BY DEF LegalRounds, Legal

\* One row that moves legally.
LEMMA OneLegal ==
  ASSUME NEW k \in Leases, Legal(k), SubmissionsStay,
         \A j \in Leases : j # k => submission'[j].state = submission[j].state
  PROVE  LegalRounds
BY DEF LegalRounds, Legal, SubmissionsStay, SameRound

\* The row of a submission that gets state s.
LEMMA OneRowMoves ==
  ASSUME TypeOK, NEW k \in Leases, NEW s,
         submission' = [submission EXCEPT ![k].state = s, ![k].since = 0]
  PROVE  /\ submission'[k].state = s
         /\ \A j \in Leases : j # k => submission'[j] = submission[j]
         /\ \A j \in Leases : SameRound(j) /\ submission'[j].head = submission[j].head
BY DEF TypeOK, SubmissionRows, SameRound

\* Coordinator.release: an active revision takes the round it was in back to where it was
\* asked for; of an initial lease nothing happens to rounds.
LEMMA ReleaseRounds ==
  ASSUME PubInv, RoundInv, OnePullRequest, NEW l \in Leases, lease[l].state \in Active,
         NEW terminal \in {"released", "reclaimed", "reassigned", "cancelled"},
         Release(l, terminal, TRUE), HandingOver' => txn'.work = lease[l].work
  PROVE  RoundInv' /\ LegalRounds
<1> DEFINE w == lease[l].work
<1>0. CInv /\ TypeOK /\ Endable(lease[l]) /\ w \in Works /\ work[w].active = l
      /\ lease[l].kind \in {"initial", "revision"}
  BY DEF PubInv, CInv, Endable, Safe, Born, ActiveIsCurrent, Active, TypeOK, LeaseRows
<1>1. Quiet
  BY <1>0, ReleaseIsSafe
<1>2. Loose /\ NoNewRevision /\ Carried
  BY <1>0, <1>1, LooseCarries, LooseRevises DEF Quiet, Loose, Evolves
<1>3. SubmissionsStay
  BY <1>0, ReleaseSubmissions
<1>4. work' = [work EXCEPT ![w].active = NoLease, ![w].state = StateAfterRelease(l, TRUE)]
      /\ ReopenRound(l, TRUE)
  BY <1>0 DEF Release
<1>5. /\ work'[w].state = StateAfterRelease(l, TRUE)
      /\ \A v \in Works : v # w => work'[v].state = work[v].state
  <2> DEFINE s == StateAfterRelease(l, TRUE)
             row == [work[w] EXCEPT !.active = NoLease, !.state = s]
  <2>1. w \in Works /\ work \in [Works -> WorkRows] /\ work[w] \in WorkRows
    BY <1>0 DEF TypeOK
  <2> HIDE DEF w, s
  <2>2. work' = [work EXCEPT ![w] = row]
    BY <1>4, <2>1 DEF w, s
  <2>3. row.state = s
    BY <2>1 DEF WorkRows
  <2> HIDE DEF row
  <2> QED BY <2>1, <2>2, <2>3 DEF s
<1>6. CASE lease[l].kind = "initial"
  <2>1. UNCHANGED submission /\ work'[w].state = "queued"
    BY <1>4, <1>5, <1>6 DEF ReopenRound, StateAfterRelease
  <2>2. LegalRounds
    BY <2>1, StandingIsLegal DEF SameRound
  <2>3. \A v \in Works : work'[v].state = "revision_requested" =>
                         work[v].state = "revision_requested"
    BY <1>5, <2>1
  <2>4. ~(HandingOver' /\ work'[txn'.work].state = "revision_requested")
    BY <2>1
  <2> QED BY <1>2, <2>1, <2>2, <2>3, <2>4, RoundsStand
<1>7. CASE lease[l].kind = "revision"
  <2>1. work'[w].state = "revision_requested"
    BY <1>5, <1>7 DEF StateAfterRelease
  <2>2. PICK k \in SubmissionsOf(w) :
          submission' = IF submission[k].state = "revising"
                        THEN [submission EXCEPT ![k].state = "changes_requested",
                                                ![k].since = 0]
                        ELSE submission
    BY <1>4, <1>7 DEF ReopenRound
  <2>3. submission[k].state = "revising"
    <3>1. PICK j \in SubmissionsOf(w) : submission[j].state = "revising"
      BY <1>7 DEF RoundInv, RevisionsInRound, InRound
    <3>2. j = k
      BY OneSubmissionOf
    <3> QED BY <3>1, <3>2
  <2>4. k \in Leases
    BY SubmissionsKnown
  <2>5. /\ submission'[k].state = "changes_requested" /\ SameRound(k)
        /\ \A j \in Leases : j # k => submission'[j].state = submission[j].state
    <3>1. submission' = [submission EXCEPT ![k].state = "changes_requested", ![k].since = 0]
      BY <2>2, <2>3
    <3> QED BY <1>0, <2>4, <3>1, OneRowMoves
  <2>6. LegalRounds
    BY <1>3, <2>3, <2>4, <2>5, OneLegal DEF Legal
  <2>7. \A j \in Leases : lease'[j].state \in Active /\ lease'[j].kind = "revision" =>
          lease'[j].work # w
    <3> SUFFICES ASSUME NEW j \in Leases, lease'[j].state \in Active, lease'[j].work = w
                 PROVE  FALSE
      OBVIOUS
    <3>1. lease[j].state \in Active /\ lease[j].work = w
      BY <1>2 DEF Loose, Follows
    <3>2. j = l
      BY <1>0, <3>1 DEF CInv, Safe, ActiveIsCurrent
    <3>3. lease'[l].state \notin Active
      BY <1>0, EndLeaseRows DEF Release
    <3> QED BY <3>2, <3>3
  <2>8. submission'[k].state # "none"
    BY <2>5
  <2>9. \A j \in Leases : lease'[j].state # "none" /\ lease'[j].kind = "revision" =>
          lease[j].state # "none" /\ (lease'[j].state \in Active => lease[j].state \in Active)
    BY <1>2 DEF NoNewRevision
  <2> HIDE DEF w
  <2>10. RoundInv'
    <3>1. w \in Works /\ (HandingOver' => txn'.work = w)
      BY <1>0 DEF w
    <3> QED BY <1>2, <1>5, <2>5, <2>7, <2>8, <2>9, <3>1, OneRoundMoves
  <2> QED BY <2>6, <2>10
<1> QED BY <1>0, <1>6, <1>7

\* What an allocation does: an initial lease leaves rounds alone; a revision starts from
\* the head of a submission, whose round is under way then.
Granted(l, w) ==
  /\ NextLease(l) /\ lease'[l].work = w
  /\ \A k \in Leases : k # l => lease'[k] = lease[k]
  /\ \/ work[w].state = "queued" /\ UNCHANGED submission /\ lease'[l].kind = "initial"
     \/ /\ work[w].state = "revision_requested" /\ lease'[l].kind = "revision"
        /\ \E k \in SubmissionsOf(w) :
             /\ submission' = [submission EXCEPT ![k].state = "revising", ![k].since = 0]
             /\ lease'[l].base = submission[k].head

LEMMA AllocateGrants ==
  ASSUME CInv, NEW d \in Devices, NEW w \in Works, Allocate(d, w)
  PROVE  /\ work'[w].state = "in_progress"
         /\ \A v \in Works : v # w => work'[v] = work[v]
         /\ \E l \in Leases : Granted(l, w)
<1>1. PICK l \in Leases : NextLease(l) /\ Grant(l, d, w)
  BY DEF Allocate
<1>2. TypeOK
  BY DEF CInv
<1>3. \A kind, base, feedback :
        /\ NewLease(d, w, kind, base, feedback).kind = kind
        /\ NewLease(d, w, kind, base, feedback).base = base
        /\ NewLease(d, w, kind, base, feedback).work = w
  BY DEF NewLease, UnbornLease
<1>4. \A q : lease' = [lease EXCEPT ![l] = q] =>
        lease'[l] = q /\ \A k \in Leases : k # l => lease'[k] = lease[k]
  BY <1>2 DEF TypeOK
<1>5. /\ work'[w].state = "in_progress"
      /\ \A v \in Works : v # w => work'[v] = work[v]
  <2>1. work \in [Works -> WorkRows] /\ work[w] \in WorkRows
    BY <1>2 DEF TypeOK
  <2>2. ASSUME NEW row, work' = [work EXCEPT ![w] = row], row.state = "in_progress"
        PROVE  /\ work'[w].state = "in_progress"
               /\ \A v \in Works : v # w => work'[v] = work[v]
    BY <2>1, <2>2
  <2>3. CASE work' = [work EXCEPT ![w].active = l, ![w].state = "in_progress",
                                  ![w].generation = @ + 1]
    <3> DEFINE row == [work[w] EXCEPT !.active = l, !.state = "in_progress",
                                      !.generation = work[w].generation + 1]
    <3>1. work' = [work EXCEPT ![w] = row] /\ row.state = "in_progress"
      BY <2>1, <2>3 DEF WorkRows
    <3> QED BY <2>2, <3>1
  <2>4. ASSUME NEW head,
               work' = [work EXCEPT ![w].active = l, ![w].state = "in_progress",
                                    ![w].generation = @ + 1, ![w].checkpoint = head]
        PROVE  /\ work'[w].state = "in_progress"
               /\ \A v \in Works : v # w => work'[v] = work[v]
    <3> DEFINE row == [work[w] EXCEPT !.active = l, !.state = "in_progress",
                                      !.generation = work[w].generation + 1,
                                      !.checkpoint = head]
    <3>1. work' = [work EXCEPT ![w] = row] /\ row.state = "in_progress"
      BY <2>1, <2>4 DEF WorkRows
    <3> QED BY <2>2, <3>1
  <2> QED BY <1>1, <2>3, <2>4 DEF Grant
<1>6. CASE /\ work[w].state = "queued"
           /\ lease' = [lease EXCEPT ![l] = NewLease(d, w, "initial", work[w].checkpoint, {})]
           /\ UNCHANGED submission
  <2>1. /\ lease'[l] = NewLease(d, w, "initial", work[w].checkpoint, {})
        /\ \A k \in Leases : k # l => lease'[k] = lease[k]
    BY <1>4, <1>6
  <2> QED BY <1>1, <1>3, <1>5, <1>6, <2>1 DEF Granted
<1>7. ASSUME NEW k \in SubmissionsOf(w), NEW feedback,
             work[w].state = "revision_requested",
             lease' = [lease EXCEPT ![l] =
                         NewLease(d, w, "revision", submission[k].head, feedback)],
             submission' = [submission EXCEPT ![k].state = "revising", ![k].since = 0]
      PROVE  /\ lease'[l].kind = "revision" /\ lease'[l].work = w
             /\ lease'[l].base = submission[k].head
             /\ \A j \in Leases : j # l => lease'[j] = lease[j]
  <2> DEFINE q == NewLease(d, w, "revision", submission[k].head, feedback)
  <2>1. q.kind = "revision" /\ q.base = submission[k].head /\ q.work = w
    BY <1>3
  <2>2. lease' = [lease EXCEPT ![l] = q]
    BY <1>7
  <2> HIDE DEF q
  <2> QED BY <1>4, <2>1, <2>2
<1>8. CASE /\ work[w].state = "revision_requested"
           /\ \E k \in SubmissionsOf(w) :
                /\ lease' = [lease EXCEPT ![l] =
                     NewLease(d, w, "revision", submission[k].head,
                              UNION {lease[b].feedback : b \in Latest(w)})]
                /\ submission' = [submission EXCEPT ![k].state = "revising", ![k].since = 0]
  BY <1>1, <1>5, <1>7, <1>8 DEF Granted
<1> QED BY <1>1, <1>5, <1>6, <1>8 DEF Grant

\* Coordinator.allocate, for a round that was asked for and not given up.
LEMMA AllocateRounds ==
  ASSUME PubInv, RoundInv, OnePullRequest, Carried, SubmissionsStay,
         NEW d \in Devices, NEW w \in Works, Allocate(d, w),
         ~HandingOver',
         work[w].state = "revision_requested" => InRound(w, {"changes_requested"})
  PROVE  RoundInv' /\ LegalRounds
<1>0. CInv /\ TypeOK
  BY DEF PubInv, CInv
<1>1. PICK l \in Leases :
        /\ work'[w].state = "in_progress"
        /\ \A v \in Works : v # w => work'[v] = work[v]
        /\ lease'[l].work = w
        /\ \A k \in Leases : k # l => lease'[k] = lease[k]
        /\ \/ UNCHANGED submission /\ lease'[l].kind = "initial"
           \/ /\ work[w].state = "revision_requested"
              /\ \E k \in SubmissionsOf(w) :
                   submission' = [submission EXCEPT ![k].state = "revising", ![k].since = 0]
  <2>1. /\ work'[w].state = "in_progress"
        /\ \A v \in Works : v # w => work'[v] = work[v]
    BY <1>0, AllocateGrants
  <2>2. PICK l \in Leases : Granted(l, w)
    BY <1>0, AllocateGrants
  <2> QED BY <2>1, <2>2 DEF Granted
<1>2. CASE UNCHANGED submission /\ lease'[l].kind = "initial"
  <2>1. NoNewRevision
    BY <1>1, <1>2 DEF NoNewRevision
  <2>2. \A v \in Works : work'[v].state = "revision_requested" =>
                         work[v].state = "revision_requested"
    BY <1>1
  <2>3. LegalRounds
    BY <1>2, StandingIsLegal DEF SameRound
  <2> QED BY <1>2, <2>1, <2>2, <2>3, RoundsStand
<1>3. ASSUME NEW k \in SubmissionsOf(w), work[w].state = "revision_requested",
             submission' = [submission EXCEPT ![k].state = "revising", ![k].since = 0]
      PROVE  RoundInv' /\ LegalRounds
  <2>1. PICK j \in SubmissionsOf(w) : submission[j].state = "changes_requested"
    BY <1>3 DEF InRound
  <2>2. k \in Leases /\ submission[k].state = "changes_requested"
    BY <2>1, OneSubmissionOf, SubmissionsKnown
  <2>3. /\ submission'[k].state = "revising" /\ SameRound(k)
        /\ \A i \in Leases : i # k => submission'[i].state = submission[i].state
    BY <1>0, <1>3, <2>2, OneRowMoves
  <2>4. LegalRounds
    BY <2>2, <2>3, OneLegal DEF Legal
  <2>5. \A v \in Works : v # w /\ work'[v].state = "revision_requested" =>
                         work[v].state = "revision_requested"
    BY <1>1
  <2>6. \A i \in Leases : lease'[i].state # "none" /\ lease'[i].kind = "revision" =>
          \/ lease[i].state # "none" /\ (lease'[i].state \in Active => lease[i].state \in Active)
          \/ lease'[i].work = w
    BY <1>1
  <2>7. RoundInv'
    BY <1>1, <2>3, <2>5, <2>6, OneRoundMoves
  <2> QED BY <2>4, <2>7
<1> QED BY <1>1, <1>2, <1>3

\* The end of a sweep gives up revisions that nobody can take.
LEMMA EndSweepRounds ==
  ASSUME PubInv, RoundInv, EndSweep, Carried
  PROVE  RoundInv' /\ LegalRounds
<1>0. TypeOK /\ SubmissionsStay /\ UNCHANGED <<lease, work>> /\ ~HandingOver'
  BY EndSweepSubmissions DEF PubInv, CInv, EndSweep, HandingOver, Closed
<1>1. \A k \in Leases : \/ submission'[k] = submission[k]
                        \/ /\ submission[k].state = "changes_requested"
                           /\ submission'[k].state = "escalated"
  <2>1. \A k \in Leases : EscalationDue(k) => /\ submission[k].state = "changes_requested"
                                              /\ Escalated(k)[k].state = "escalated"
    BY <1>0 DEF EscalationDue, Escalated, TypeOK, SubmissionRows
  <2> QED BY <2>1 DEF EndSweep
<1>2. LegalRounds
  BY <1>0, <1>1 DEF LegalRounds, Legal, SameRound, SubmissionsStay
<1>3. \A w : SubmissionsOf(w) \subseteq SubmissionsOf(w)'
  <2> SUFFICES ASSUME NEW w, NEW k \in SubmissionsOf(w) PROVE k \in SubmissionsOf(w)'
    OBVIOUS
  <2>1. submission'[k].state # "none"
    BY <1>1, SubmissionsKnown DEF Recorded
  <2> QED BY <2>1, SubmissionsKnown
<1>4. \A w \in Works : /\ InRound(w, {"revising"}) => InRound(w, {"revising"})'
                       /\ InRound(w, {"changes_requested", "escalated"}) =>
                            InRound(w, {"changes_requested", "escalated"})'
  <2>1. \A w : \A k \in SubmissionsOf(w) : k \in Leases
    BY SubmissionsKnown
  <2> QED BY <1>1, <1>3, <2>1 DEF InRound
<1>5. \A l \in Leases : lease[l].state # "none" => lease[l].work \in Works
  BY DEF PubInv, CInv, Safe, Born
<1>6. RevisionsRecorded'
  BY <1>0, <1>3 DEF RoundInv, RevisionsRecorded, SubmissionsOf
<1>7. RevisionsInRound'
  <2> SUFFICES ASSUME NEW l \in Leases, lease[l].state \in Active, lease[l].kind = "revision"
               PROVE  \E k \in SubmissionsOf(lease[l].work) : submission'[k].state = "revising"
    BY <1>0, <1>3 DEF RevisionsInRound, InRound, SubmissionsOf
  <2>1. PICK k \in SubmissionsOf(lease[l].work) : submission[k].state = "revising"
    BY DEF RoundInv, RevisionsInRound, InRound
  <2> QED BY <1>1, <2>1, SubmissionsKnown
<1>8. RequestsInRound'
  BY <1>0, <1>4 DEF RoundInv, RequestsInRound
<1> QED BY <1>0, <1>2, <1>6, <1>7, <1>8 DEF RoundInv, HandoverInRound
\* Steps of the coordinator that move no round.
LEMMA NextStands ==
  ASSUME PubInv, RoundInv, OnePullRequest, Kept, Carried,
         \A k \in Leases : submission'[k].state = submission[k].state /\ SameRound(k),
         \A w \in Works : work'[w].state = "revision_requested" =>
                          work[w].state = "revision_requested",
         HandingOver' /\ work'[txn'.work].state = "revision_requested" => txn' = txn
  PROVE  RoundInv' /\ LegalRounds
<1>0. CInv /\ TypeOK
  BY DEF PubInv, CInv
<1>1. NoNewRevision
  <2>1. CASE Quiet
    BY <2>1, LooseRevises DEF Quiet, Loose, Evolves
  <2>2. ASSUME NEW d \in Devices, NEW w \in Works, Allocate(d, w)
        PROVE  NoNewRevision
    <3>1. PICK l \in Leases : Granted(l, w)
      BY <1>0, <2>2, AllocateGrants
    <3>2. CASE lease'[l].kind = "initial"
      BY <3>1, <3>2 DEF Granted, NoNewRevision
    <3>3. ASSUME NEW k \in SubmissionsOf(w), work[w].state = "revision_requested",
                 submission' = [submission EXCEPT ![k].state = "revising", ![k].since = 0]
          PROVE  FALSE
      <4>1. PICK j \in SubmissionsOf(w) :
              submission[j].state \in {"changes_requested", "escalated"}
        BY <3>3 DEF RoundInv, RequestsInRound, InRound
      <4>2. j = k /\ k \in Leases
        BY OneSubmissionOf, SubmissionsKnown
      <4>3. submission'[k].state = "revising"
        BY <1>0, <3>3, <4>2, OneRowMoves
      <4> QED BY <4>1, <4>2, <4>3
    <3> QED BY <3>1, <3>2, <3>3 DEF Granted
  <2> QED BY <2>1, <2>2 DEF Kept
<1>2. LegalRounds
  BY StandingIsLegal
<1> QED BY <1>1, <1>2, RoundsStand

\* An allocation to a device that the round is routed to: it has not been given up.
LEMMA RoutedRound ==
  ASSUME PubInv, RoundInv, OnePullRequest, NEW d, NEW w \in Works, MayTake(d, w),
         work[w].state = "revision_requested"
  PROVE  InRound(w, {"changes_requested"})
<1>1. PICK k \in SubmissionsOf(w) : submission[k].state # "escalated"
  BY DEF MayTake, Routed
<1>2. PICK j \in SubmissionsOf(w) : submission[j].state \in {"changes_requested", "escalated"}
  BY DEF RoundInv, RequestsInRound, InRound
<1>3. j = k
  BY OneSubmissionOf
<1> QED BY <1>1, <1>2, <1>3 DEF InRound

\* An edit of an issue asks for no revision.
LEMMA IngestedAsksNone ==
  ASSUME NEW s, NEW e, IngestedState(s, e) = "revision_requested"
  PROVE  s = "revision_requested"
BY DEF IngestedState

\* The handlers that write neither submissions nor the state of an issue, and leave no
\* transaction open that hands work over.
LEMMA NextUntouched ==
  ASSUME PubInv, RoundInv, OnePullRequest, Kept, Carried,
         UNCHANGED <<work, submission>>, ~HandingOver'
  PROVE  RoundInv' /\ LegalRounds
BY NextStands DEF SameRound

LEMMA NotHandingOver ==
  /\ txn' = Closed => ~HandingOver'
  /\ \A leases : txn' = Cancelling(leases) => ~HandingOver'
  /\ \A leases : txn' = Sweeping(leases) => ~HandingOver'
  /\ \A d : txn' = [Closed EXCEPT !.op = "poll", !.device = d] => ~HandingOver'
<1>1. txn' = Closed => ~HandingOver'
  BY DEF HandingOver, Closed
<1>2. \A leases : Cancelling(leases).op # "sweep"
  BY DEF Closed, Cancelling
<1>3. \A leases : Sweeping(leases).device = NoDevice
  BY DEF Closed, Sweeping
<1>4. \A d : [Closed EXCEPT !.op = "poll", !.device = d].op = "poll"
  BY DEF Closed
<1> QED BY <1>1, <1>2, <1>3, <1>4 DEF HandingOver

LEMMA SweepRounds ==
  ASSUME PubInv, RoundInv, OnePullRequest, Kept, Carried, SubmissionsStay, OpenTransaction
  PROVE  RoundInv' /\ LegalRounds
<1>0. CInv /\ TypeOK
  BY DEF PubInv, CInv
<1>1. ASSUME NEW l \in Leases, SweepOffer(l) PROVE RoundInv' /\ LegalRounds
  <2>1. lease[l].state \in Active /\ Release(l, "released", TRUE)
    BY <1>1 DEF SweepOffer, OfferExpired, Active
  <2>2. ~HandingOver'
    BY <1>1, NotHandingOver DEF SweepOffer
  <2> QED BY <2>1, <2>2, ReleaseRounds
<1>2. ASSUME NEW l \in Leases, SweepHandover(l) PROVE RoundInv' /\ LegalRounds
  <2>1. lease[l].state \in Active /\ Release(l, "reassigned", TRUE)
    BY <1>2 DEF SweepHandover, RecoveryExpired, Active
  <2>2. txn'.work = lease[l].work
    BY <1>2 DEF SweepHandover, Sweeping, Closed
  <2> QED BY <2>1, <2>2, ReleaseRounds
<1>3. ASSUME NEW l \in Leases, CancelNext(l) PROVE RoundInv' /\ LegalRounds
  <2>1. Release(l, "cancelled", FALSE) /\ ~HandingOver'
    BY <1>3, NotHandingOver DEF CancelNext
  <2>2. UNCHANGED submission
    BY <2>1 DEF Release, ReopenRound
  <2>3. \A w \in Works : work'[w].state = "revision_requested" =>
                         work[w].state = "revision_requested"
    <3>1. CASE UNCHANGED work
      BY <3>1
    <3>2. CASE work' = [work EXCEPT ![lease[l].work].active = NoLease,
                                    ![lease[l].work].state = "validation_pending"]
      <4> DEFINE v == lease[l].work
                 row == [work[v] EXCEPT !.active = NoLease, !.state = "validation_pending"]
      <4>1. CASE v \in Works
        <5>1. work \in [Works -> WorkRows] /\ work[v] \in WorkRows
          BY <1>0, <4>1 DEF TypeOK
        <5>2. work' = [work EXCEPT ![v] = row] /\ row.state = "validation_pending"
          BY <3>2, <5>1 DEF WorkRows
        <5> HIDE DEF v, row
        <5> QED BY <4>1, <5>1, <5>2
      <4>2. CASE v \notin Works
        BY <1>0, <3>2, <4>2 DEF TypeOK
      <4> QED BY <4>1, <4>2
    <3> QED BY <2>1, <3>1, <3>2 DEF Release, StateAfterRelease
  <2> QED BY <2>1, <2>2, <2>3, NextStands DEF SameRound
<1>4. CASE AllocateHandover
  <2>1. txn.op = "sweep" /\ txn.device # NoDevice /\ ~HandingOver'
        /\ txn.device \in Devices /\ txn.work \in Works
    BY <1>0, <1>4, NotHandingOver DEF AllocateHandover, CInv, TxnOK
  <2>2. CASE UNCHANGED workVars
    BY <2>1, <2>2, NextUntouched DEF workVars
  <2>3. CASE Allocate(txn.device, txn.work)
    <3>1. PICK d \in Devices, w \in Works : d = txn.device /\ w = txn.work
      BY <2>1
    <3>2. work[w].state = "revision_requested" => InRound(w, {"changes_requested"})
      BY <2>1, <3>1 DEF RoundInv, HandoverInRound, HandingOver
    <3> QED BY <2>1, <2>3, <3>1, <3>2, AllocateRounds
  <2> QED BY <1>4, <2>2, <2>3 DEF AllocateHandover
<1>5. CASE EndSweep
  BY <1>5, EndSweepRounds
<1>6. CASE PollGoesOn
  <2>1. ~HandingOver' /\ txn.device \in Devices
    BY <1>0, <1>6, NotHandingOver DEF PollGoesOn, CInv, TxnOK
  <2>2. CASE UNCHANGED workVars
    BY <2>1, <2>2, NextUntouched DEF workVars
  <2>3. CASE TakeOldest(txn.device)
    <3>1. PICK d \in Devices : d = txn.device
      BY <2>1
    <3>2. PICK w \in Works : MayTake(d, w) /\ Allocate(d, w)
      BY <2>3, <3>1 DEF TakeOldest
    <3> QED BY <2>1, <3>2, RoutedRound, AllocateRounds
  <2> QED BY <1>6, <2>2, <2>3 DEF PollGoesOn
<1> QED BY <1>1, <1>2, <1>3, <1>4, <1>5, <1>6 DEF OpenTransaction

LEMMA GovernanceRounds ==
  ASSUME PubInv, RoundInv, OnePullRequest, Kept, Carried, Governance
  PROVE  RoundInv' /\ LegalRounds
<1>1. ASSUME NEW u \in Watchers, NEW enabled \in BOOLEAN, Watch(u, enabled)
      PROVE  RoundInv' /\ LegalRounds
  <2>1. UNCHANGED <<work, submission>> /\ ~HandingOver'
    BY <1>1, NotHandingOver DEF Watch, workVars
  <2> QED BY <2>1, NextUntouched
<1>2. ASSUME NEW a \in Users, NEW u \in Users, NEW setting \in MemberSettings,
             UpdateMember(a, u, setting)
      PROVE  RoundInv' /\ LegalRounds
  <2>1. ~HandingOver'
    BY <1>2, NotHandingOver DEF UpdateMember
  <2>2. ASSUME NEW l \in HeldBy(u), Release(l, "cancelled", TRUE)
        PROVE  RoundInv' /\ LegalRounds
    BY <2>1, <2>2, ReleaseRounds DEF HeldBy
  <2> QED BY <1>2, <2>1, <2>2, NextUntouched DEF UpdateMember
<1>3. ASSUME NEW u \in Users, NEW policy \in Policies, NEW budget \in Budgets,
             NEW active \in BOOLEAN, UpdateProject(u, policy, budget, active)
      PROVE  RoundInv' /\ LegalRounds
  <2>1. UNCHANGED <<work, submission>> /\ ~HandingOver'
    BY <1>3, NotHandingOver DEF UpdateProject
  <2> QED BY <2>1, NextUntouched
<1>4. CASE RevokeInstallation
  <2>1. UNCHANGED <<work, submission>> /\ ~HandingOver'
    BY <1>4, NotHandingOver DEF RevokeInstallation
  <2> QED BY <2>1, NextUntouched
<1>5. CASE \E suspended \in Suspensions : suspended /\ RevokeInstallation
  BY <1>4, <1>5
<1>6. CASE \E u \in Users, policy \in Policies, budget \in Budgets, active \in BOOLEAN :
             UpdateProject(u, policy, budget, active)
  BY <1>3, <1>6
<1>7. CASE \E a, u \in Users, setting \in MemberSettings : UpdateMember(a, u, setting)
  BY <1>2, <1>7
<1> QED BY <1>1, <1>5, <1>6, <1>7 DEF Governance

\* A state that an issue is given, other than that a revision is asked for.
LEMMA WorkGets ==
  ASSUME TypeOK, NEW w, NEW s, s # "revision_requested",
         work' = [work EXCEPT ![w].state = s] \/
         \E head : work' = [work EXCEPT ![w].checkpoint = head, ![w].state = s]
  PROVE  \A v \in Works : work'[v].state = "revision_requested" =>
                          work[v].state = "revision_requested"
<1>1. work \in [Works -> WorkRows]
  BY DEF TypeOK
<1>2. CASE w \notin Works
  BY <1>1, <1>2
<1>3. CASE w \in Works
  <2>1. work[w] \in WorkRows
    BY <1>1, <1>3
  <2>2. ASSUME NEW row, work' = [work EXCEPT ![w] = row], row.state = s
        PROVE  \A v \in Works : work'[v].state = "revision_requested" =>
                                work[v].state = "revision_requested"
    BY <1>1, <1>3, <2>2
  <2>3. CASE work' = [work EXCEPT ![w].state = s]
    <3>1. [work[w] EXCEPT !.state = s].state = s
      BY <2>1 DEF WorkRows
    <3> QED BY <2>2, <2>3, <3>1
  <2>4. ASSUME NEW head, work' = [work EXCEPT ![w].checkpoint = head, ![w].state = s]
        PROVE  \A v \in Works : work'[v].state = "revision_requested" =>
                                work[v].state = "revision_requested"
    <3> DEFINE row == [work[w] EXCEPT !.checkpoint = head, !.state = s]
    <3>1. row.state = s /\ work' = [work EXCEPT ![w] = row]
      BY <1>1, <2>1, <2>4 DEF WorkRows
    <3> HIDE DEF row
    <3> QED BY <2>2, <3>1
  <2> QED BY <2>3, <2>4
<1> QED BY <1>2, <1>3

LEMMA WorkerRounds ==
  ASSUME PubInv, RoundInv, OnePullRequest, Kept, Carried, NEW l \in Leases,
         WorkerStep(l) \/ HumanStep(l)
  PROVE  RoundInv' /\ LegalRounds
<1>0. TypeOK
  BY DEF PubInv, CInv
<1>1. CASE /\ UNCHANGED <<work, submission>> /\ txn = Closed /\ UNCHANGED txn
  BY <1>1, NotHandingOver, NextUntouched
<1>2. ASSUME NEW v \in Versions, Checkpoint(l, v) PROVE RoundInv' /\ LegalRounds
  <2>1. ~HandingOver' /\ UNCHANGED submission
    BY <1>2, NotHandingOver DEF Checkpoint
  <2>2. work' = [work EXCEPT ![lease[l].work].checkpoint = <<l, v>>]
    BY <1>2 DEF Checkpoint
  <2>3. \A w \in Works : work'[w].state = work[w].state
    BY <1>0, <2>2 DEF TypeOK, WorkRows
  <2> QED BY <2>1, <2>3, NextStands DEF SameRound
<1>3. ASSUME NEW v \in Versions, NEW usage \in Usages, Complete(l, v, usage)
      PROVE  RoundInv' /\ LegalRounds
  <2>1. ~HandingOver' /\ UNCHANGED submission
    BY <1>3, NotHandingOver DEF Complete
  <2>2. work' = [work EXCEPT ![lease[l].work].checkpoint = <<l, v>>,
                             ![lease[l].work].state = "review"]
    BY <1>3 DEF Complete
  <2>3. \A w \in Works : work'[w].state = "revision_requested" =>
                         work[w].state = "revision_requested"
    BY <1>0, <2>2, WorkGets
  <2> QED BY <2>1, <2>3, NextStands DEF SameRound
<1>4. CASE Deny(l)
  <2>1. lease[l].state \in Active /\ Release(l, "released", TRUE) /\ ~HandingOver'
    BY <1>4, NotHandingOver DEF Deny
  <2> QED BY <2>1, ReleaseRounds
<1>5. ASSUME NEW u \in Users, NEW v \in Versions, Approve(u, l, v)
      PROVE  RoundInv' /\ LegalRounds
  <2>1. ~HandingOver' /\ UNCHANGED submission
    BY <1>5, NotHandingOver DEF Approve
  <2>2. UNCHANGED work \/ work' = [work EXCEPT ![lease[l].work].state = "publishing"]
    BY <1>5 DEF Approve
  <2>3. \A w \in Works : work'[w].state = "revision_requested" =>
                         work[w].state = "revision_requested"
    BY <1>0, <2>2, WorkGets
  <2> QED BY <2>1, <2>3, NextStands DEF SameRound
<1>6. CASE Accept(l) \/ Recover(l) \/ Block(l) \/ (\E d \in Devices : Dib(l, d))
  BY <1>1, <1>6 DEF Accept, Recover, Block, Dib
<1>7. ASSUME NEW phase, Heartbeat(l, phase) PROVE RoundInv' /\ LegalRounds
  BY <1>1, <1>7 DEF Heartbeat, Reports
<1>8. ASSUME NEW phase, NEW usage, HeartbeatWithUsage(l, phase, usage)
      PROVE  RoundInv' /\ LegalRounds
  BY <1>1, <1>8 DEF HeartbeatWithUsage, Reports
<1> QED BY <1>2, <1>3, <1>4, <1>5, <1>6, <1>7, <1>8 DEF WorkerStep, HumanStep

LEMMA DeviceRounds ==
  ASSUME PubInv, RoundInv, OnePullRequest, Kept, Carried, SubmissionsStay,
         NEW d \in Devices, DeviceStep(d)
  PROVE  RoundInv' /\ LegalRounds
<1>1. CASE PollAllocates(d)
  <2>1. ~HandingOver'
    BY <1>1, NotHandingOver DEF PollAllocates
  <2>2. PICK w \in Works : MayTake(d, w) /\ Allocate(d, w)
    BY <1>1 DEF PollAllocates, TakeOldest
  <2> QED BY <2>1, <2>2, RoutedRound, AllocateRounds
<1>2. CASE PollReclaims(d)
  <2>1. ~HandingOver'
    BY <1>2, NotHandingOver DEF PollReclaims
  <2>2. PICK l \in HeldBy(UserOf[d]) : Release(l, "reclaimed", TRUE)
    BY <1>2 DEF PollReclaims
  <2> QED BY <2>1, <2>2, ReleaseRounds DEF HeldBy
<1>3. CASE RevokeDevice(d)
  <2>1. ~HandingOver'
    BY <1>3, NotHandingOver DEF RevokeDevice
  <2>2. ASSUME NEW l \in Leases, lease[l].state \in Active, Release(l, "cancelled", TRUE)
        PROVE  RoundInv' /\ LegalRounds
    BY <2>1, <2>2, ReleaseRounds
  <2> QED BY <1>3, <2>1, <2>2, NextUntouched DEF RevokeDevice
<1>4. CASE CreateDevice(d) \/ \E enabled \in BOOLEAN : ToggleDevice(d, enabled)
  <2>1. UNCHANGED <<work, submission>> /\ ~HandingOver'
    BY <1>4, NotHandingOver DEF CreateDevice, ToggleDevice, workVars
  <2> QED BY <2>1, NextUntouched
<1> QED BY <1>1, <1>2, <1>3, <1>4 DEF DeviceStep

LEMMA IssueRounds ==
  ASSUME PubInv, RoundInv, OnePullRequest, Kept, Carried, NEW w \in Works, IssueStep(w)
  PROVE  RoundInv' /\ LegalRounds
<1>0. TypeOK /\ ~HandingOver' /\ UNCHANGED submission
  BY NotHandingOver DEF PubInv, CInv, IssueStep, Validate, Ingest
<1>1. ASSUME NEW u \in Users, Validate(u, w) PROVE RoundInv' /\ LegalRounds
  <2>1. \A v \in Works : work'[v].state = "revision_requested" =>
                         work[v].state = "revision_requested"
    BY <1>0, <1>1, WorkGets DEF Validate
  <2> QED BY <1>0, <2>1, NextStands DEF SameRound
<1>2. ASSUME NEW e \in IssueEvents, Ingest(w, e) PROVE RoundInv' /\ LegalRounds
  <2>1. /\ work'[w].state = IngestedState(work[w].state, e)
        /\ \A v \in Works : v # w => work'[v] = work[v]
    <3>1. PICK a : work' = [work EXCEPT ![w].state = IngestedState(@, e), ![w].labels = e.labels,
                                        ![w].active = a]
      BY <1>2 DEF Ingest
    <3> DEFINE s == IngestedState(work[w].state, e)
               row == [work[w] EXCEPT !.state = s, !.labels = e.labels, !.active = a]
    <3>2. work \in [Works -> WorkRows] /\ work[w] \in WorkRows
      BY <1>0 DEF TypeOK
    <3> HIDE DEF s
    <3>3. work' = [work EXCEPT ![w] = row] /\ row.state = s
      BY <3>1, <3>2 DEF WorkRows, s
    <3> HIDE DEF row
    <3>4. work'[w].state = s /\ \A v \in Works : v # w => work'[v] = work[v]
      BY <3>2, <3>3
    <3> QED BY <3>4 DEF s
  <2>2. \A v \in Works : work'[v].state = "revision_requested" =>
                         work[v].state = "revision_requested"
    BY <2>1, IngestedAsksNone
  <2> QED BY <1>0, <2>2, NextStands DEF SameRound
<1> QED BY <1>1, <1>2 DEF IssueStep

\* Every step of the coordinator.
LEMMA NextRounds ==
  ASSUME PubInv, RoundInv, OnePullRequest, Next, Carried
  PROVE  RoundInv' /\ LegalRounds
<1>0. CInv /\ TypeOK /\ Kept /\ SubmissionsStay
  <2>1. CInv /\ TypeOK
    BY DEF PubInv, CInv
  <2> QED BY <2>1, NextKeeps, NextSubmissions
<1>1. CASE Tick
  <2>1. UNCHANGED work /\ ~HandingOver'
    BY <1>1, NotHandingOver DEF Tick
  <2>2. \A k \in Leases : submission'[k].state = submission[k].state /\ SameRound(k)
    BY <1>0, <1>1 DEF Tick, TypeOK, SubmissionRows, SameRound
  <2> QED BY <1>0, <2>1, <2>2, NextStands
<1>2. CASE Sweep
  <2>1. UNCHANGED <<work, submission>> /\ ~HandingOver'
    BY <1>2, NotHandingOver DEF Sweep, workVars
  <2> QED BY <1>0, <2>1, NextUntouched
<1> QED BY <1>0, <1>1, <1>2, SweepRounds, GovernanceRounds, WorkerRounds, DeviceRounds,
       IssueRounds DEF Next
-----------------------------------------------------------------------------
(* The steps of GitHub and of the dispatchers in a round *)

\* Steps that leave the coordinator's rows alone, but for jobs.
LEMMA RowsStand ==
  ASSUME PubInv, RoundInv, Carried, UNCHANGED coordinatorRows
  PROVE  RoundInv' /\ LegalRounds
<1>1. UNCHANGED <<lease, work, submission, txn>>
  BY DEF coordinatorRows
<1>2. NoNewRevision /\ LegalRounds
  BY <1>1, StandingIsLegal DEF NoNewRevision, SameRound
<1> QED BY <1>1, <1>2, RoundsStand

\* No revision is active for an issue whose submission is in another state.
LEMMA NoRevisionRuns ==
  ASSUME PubInv, RoundInv, OnePullRequest, NEW w, NEW k \in SubmissionsOf(w),
         submission[k].state # "revising", NEW l \in Leases, lease[l].state \in Active,
         lease[l].kind = "revision"
  PROVE  lease[l].work # w
<1> SUFFICES ASSUME lease[l].work = w PROVE FALSE
  OBVIOUS
<1>1. PICK j \in SubmissionsOf(w) : submission[j].state = "revising"
  BY DEF RoundInv, RevisionsInRound, InRound
<1> QED BY <1>1, OneSubmissionOf

\* A webhook that gives the submission of lease k the state s, allocates nothing, and
\* ends the active revision of the issue if the round is no longer under way.
LEMMA WebhookRound ==
  ASSUME PubInv, RoundInv, OnePullRequest, Carried, NoNewRevision,
         NEW k \in Leases, Recorded(k), NEW s, s # "none", s # "revising",
         submission' = [submission EXCEPT ![k].state = s, ![k].since = 0], SubmissionsStay,
         NEW w \in Works, w = lease[k].work,
         \A l \in Leases : lease'[l].state \in Active /\ lease'[l].kind = "revision" =>
           lease'[l].work # w,
         \A v \in Works : v # w => work'[v] = work[v],
         work'[w].state = "revision_requested" => s \in {"changes_requested", "escalated"},
         txn' = Closed, Legal(k)
  PROVE  RoundInv' /\ LegalRounds
<1>0. TypeOK
  BY DEF PubInv, CInv
<1>1. /\ submission'[k].state = s
      /\ \A j \in Leases : j # k => submission'[j] = submission[j]
  BY <1>0, OneRowMoves
<1>2. LegalRounds
  BY <1>1, OneLegal
<1>3. k \in SubmissionsOf(w)
  BY DEF SubmissionsOf, Recorded
<1>4. ~HandingOver'
  BY NotHandingOver
<1>5. \A l \in Leases : lease'[l].state # "none" /\ lease'[l].kind = "revision" =>
        lease[l].state # "none" /\ (lease'[l].state \in Active => lease[l].state \in Active)
  BY DEF NoNewRevision
<1>6. RoundInv'
  BY <1>1, <1>3, <1>4, <1>5, OneRoundMoves
<1> QED BY <1>2, <1>6

\* An issue shown as waiting for a revision has asked for it or given it up.
LEMMA RequestedState ==
  ASSUME PubInv, RoundInv, OnePullRequest, NEW w \in Works, NEW k \in SubmissionsOf(w),
         work[w].state = "revision_requested"
  PROVE  submission[k].state \in {"changes_requested", "escalated"}
<1>1. PICK j \in SubmissionsOf(w) : submission[j].state \in {"changes_requested", "escalated"}
  BY DEF RoundInv, RequestsInRound, InRound
<1> QED BY <1>1, OneSubmissionOf

LEMMA ReviewApprovedRounds ==
  ASSUME PubInv, RoundInv, OnePullRequest, Carried, NEW m \in webhooks, ReviewApproved(m)
  PROVE  RoundInv' /\ LegalRounds
<1>1. TypeOK /\ Deliver(m) /\ m.pr \in Leases /\ UNCHANGED <<lease, work>> /\ txn' = Closed
  BY DeliveredWebhook DEF ReviewApproved, Deliver, PubInv, CInv
<1>2. CASE UNCHANGED submission
  BY <1>1, <1>2, RowsStand DEF ReviewApproved, peopleVars, coordinatorRows
<1>3. CASE /\ submission[m.pr].state \in {"open", "awaiting_rereview"}
           /\ m.head = submission[m.pr].head
           /\ submission' = [submission EXCEPT ![m.pr].state = "approved", ![m.pr].since = 0]
  <2>1. PICK k \in Leases, w \in Works : k = m.pr /\ w = lease[k].work /\ Recorded(k)
    BY <1>1, <1>3, DeliveredWebhook DEF Recorded
  <2>2. k \in SubmissionsOf(w)
    BY <2>1 DEF SubmissionsOf, Recorded
  <2>3. submission'[k].state = "approved" /\ SameRound(k)
    BY <1>1, <1>3, <2>1, OneRowMoves
  <2>4. m \in webhooks \ webhooks' /\ ApprovedBy(k, m)
    BY <1>1, <1>3, <2>1 DEF Deliver, ReviewApproved, ApprovedBy
  <2>5. Legal(k)
    BY <1>3, <2>1, <2>3, <2>4 DEF Legal
  <2>6. "approved" \in SubmissionStates \ {"none"}
    BY DEF SubmissionStates
  <2>7. SubmissionsStay
    BY <1>1, <1>3, <2>1, <2>6, OneSubmission DEF Recorded
  <2>8. \A l \in Leases : lease'[l].state \in Active /\ lease'[l].kind = "revision" =>
          lease'[l].work # w
    BY <1>1, <1>3, <2>1, <2>2, NoRevisionRuns
  <2>9. work'[w].state # "revision_requested"
    BY <1>1, <1>3, <2>1, <2>2, RequestedState
  <2>10. NoNewRevision /\ txn' = Closed
    BY <1>1 DEF NoNewRevision
  <2>11. \A v \in Works : v # w => work'[v] = work[v]
    BY <1>1
  <2>12. submission' = [submission EXCEPT ![k].state = "approved", ![k].since = 0]
    BY <1>3, <2>1
  <2> QED BY <2>1, <2>5, <2>7, <2>8, <2>9, <2>10, <2>11, <2>12, WebhookRound
<1> QED BY <1>2, <1>3 DEF ReviewApproved

LEMMA RequestRevisionRounds ==
  ASSUME PubInv, RoundInv, OnePullRequest, Carried, NEW m \in webhooks, RequestRevision(m)
  PROVE  RoundInv' /\ LegalRounds
<1>1. TypeOK /\ CInv /\ Deliver(m) /\ m.pr \in Leases /\ txn' = Closed
  BY DeliveredWebhook DEF RequestRevision, Deliver, PubInv, CInv
<1>2. CASE UNCHANGED <<lease, work, submission>>
  BY <1>1, <1>2, RowsStand DEF RequestRevision, peopleVars, coordinatorRows
<1>3. ASSUME Heard(m)
      PROVE  \E k \in Leases, w \in Works :
               /\ k = m.pr /\ w = lease[k].work /\ Recorded(k) /\ k \in SubmissionsOf(w)
               /\ submission[k].state \in {"open", "awaiting_rereview", "approved"}
               /\ \A l \in Leases : lease[l].state \in Active /\ lease[l].kind = "revision" =>
                    lease[l].work # w
               /\ work[w].state # "revision_requested"
  <2>1. PICK k \in Leases, w \in Works : k = m.pr /\ w = lease[k].work /\ Recorded(k)
    BY <1>1, <1>3, DeliveredWebhook DEF Heard
  <2>2. k \in SubmissionsOf(w)
    BY <2>1 DEF SubmissionsOf, Recorded
  <2>3. submission[k].state \in {"open", "awaiting_rereview", "approved"}
    BY <1>1, <1>3, <2>1
       DEF Heard, Recorded, InFlightStates, TypeOK, SubmissionRows, SubmissionStates
  <2> QED BY <2>1, <2>2, <2>3, NoRevisionRuns, RequestedState
<1>4. CASE Heard(m) /\ submission' = Escalated(m.pr) /\ UNCHANGED <<lease, work>>
  <2>1. PICK k \in Leases, w \in Works :
               /\ k = m.pr /\ w = lease[k].work /\ Recorded(k)
               /\ \A l \in Leases : lease[l].state \in Active /\ lease[l].kind = "revision" =>
                    lease[l].work # w
               /\ work[w].state # "revision_requested"
    BY <1>3, <1>4
  <2>2. submission' = [submission EXCEPT ![k].state = "escalated", ![k].since = 0]
    BY <1>4, <2>1 DEF Escalated
  <2>3. submission'[k].state = "escalated" /\ SameRound(k)
    BY <1>1, <2>2, OneRowMoves
  <2>4. Legal(k)
    BY <2>1, <2>3 DEF Legal, Recorded
  <2>5. "escalated" \in SubmissionStates \ {"none"}
    BY DEF SubmissionStates
  <2>6. SubmissionsStay
    BY <1>1, <2>1, <2>2, <2>5, OneSubmission DEF Recorded
  <2>7. NoNewRevision
    BY <1>4 DEF NoNewRevision
  <2>8. \A v \in Works : v # w => work'[v] = work[v]
    BY <1>4
  <2>9. \A l \in Leases : lease'[l].state \in Active /\ lease'[l].kind = "revision" =>
          lease'[l].work # w
    BY <1>4, <2>1
  <2> QED BY <1>1, <2>1, <2>2, <2>4, <2>6, <2>7, <2>8, <2>9, WebhookRound
<1>5. ASSUME Heard(m), RevisionsSpent(m.pr) < project.policy.maxRounds,
             lease' = [l \in Leases |-> IF l \in Latest(lease[m.pr].work)
                                        THEN [lease[l] EXCEPT !.feedback = m.mentions]
                                        ELSE lease[l]],
             submission' = [submission EXCEPT ![m.pr].state = "changes_requested",
                                              ![m.pr].since = 0],
             work' = [work EXCEPT ![lease[m.pr].work].state = "revision_requested"]
      PROVE  RoundInv' /\ LegalRounds
  <2>1. PICK k \in Leases, w \in Works :
               /\ k = m.pr /\ w = lease[k].work /\ Recorded(k)
               /\ submission[k].state \in {"open", "awaiting_rereview", "approved"}
               /\ \A l \in Leases : lease[l].state \in Active /\ lease[l].kind = "revision" =>
                    lease[l].work # w
    BY <1>3, <1>5
  <2>2. submission' = [submission EXCEPT ![k].state = "changes_requested", ![k].since = 0]
    BY <1>5, <2>1
  <2>3. submission'[k].state = "changes_requested" /\ SameRound(k)
    BY <1>1, <2>2, OneRowMoves
  <2>4. Legal(k)
    BY <1>5, <2>1, <2>3 DEF Legal
  <2>5. "changes_requested" \in SubmissionStates \ {"none"}
    BY DEF SubmissionStates
  <2>6. SubmissionsStay
    BY <1>1, <2>1, <2>2, <2>5, OneSubmission DEF Recorded
  <2>7. \A l \in Leases : /\ lease'[l].state = lease[l].state
                          /\ lease'[l].kind = lease[l].kind
                          /\ lease'[l].work = lease[l].work
    BY <1>1, <1>5 DEF TypeOK, LeaseRows
  <2>8. NoNewRevision
    BY <2>7 DEF NoNewRevision
  <2>9. \A v \in Works : v # w => work'[v] = work[v]
    BY <1>1, <1>5, <2>1 DEF TypeOK
  <2>10. \A l \in Leases : lease'[l].state \in Active /\ lease'[l].kind = "revision" =>
           lease'[l].work # w
    BY <2>1, <2>7
  <2> QED BY <1>1, <2>1, <2>2, <2>4, <2>6, <2>8, <2>9, <2>10, WebhookRound
<1> QED BY <1>2, <1>4, <1>5 DEF RequestRevision

\* Ending the active lease of an issue leaves none active for it.
LEMMA NoneLeftActive ==
  ASSUME CInv, NEW w \in Works, NEW s \in {"review_invalidated", "merged", "closed"},
         \/ lease' = ActiveBecomes(w, s)
         \/ work[w].active = NoLease /\ UNCHANGED lease
  PROVE  /\ NoNewRevision
         /\ \A l \in Leases : lease'[l].state \in Active => lease'[l].work # w
<1>1. \A l \in Leases : lease[l].state \in Active => work[lease[l].work].active = l
  BY DEF CInv, Safe, ActiveIsCurrent
<1>2. CASE lease' = ActiveBecomes(w, s)
  <2>1. Loose
    BY <1>2, ActiveEnds
  <2>2. \A l \in Leases : work[w].active = l => lease'[l].state \notin Active
    BY <1>2 DEF ActiveBecomes, CInv, TypeOK, LeaseRows, Active
  <2>3. \A l \in Leases : work[w].active # l => lease'[l] = lease[l]
    BY <1>2 DEF ActiveBecomes
  <2> QED BY <1>1, <2>1, <2>2, <2>3, LooseRevises
<1>3. CASE work[w].active = NoLease /\ UNCHANGED lease
  BY <1>1, <1>3 DEF NoNewRevision, NoLease, Leases
<1> QED BY <1>2, <1>3

LEMMA SynchronizeRounds ==
  ASSUME PubInv, RoundInv, OnePullRequest, Carried, NEW m \in webhooks, Synchronize(m)
  PROVE  RoundInv' /\ LegalRounds
<1>1. TypeOK /\ CInv /\ Deliver(m) /\ m.pr \in Leases /\ txn' = Closed
  BY DeliveredWebhook DEF Synchronize, Deliver, PubInv, CInv
<1>2. CASE UNCHANGED <<lease, work, submission>>
  BY <1>1, <1>2, RowsStand DEF Synchronize, peopleVars, coordinatorRows
<1>3. CASE submission' = [submission EXCEPT ![m.pr].since = 0] /\ UNCHANGED <<lease, work>>
  <2>1. \A k \in Leases : submission'[k].state = submission[k].state /\ SameRound(k)
    BY <1>1, <1>3 DEF TypeOK, SubmissionRows, SameRound
  <2>2. LegalRounds /\ NoNewRevision /\ ~HandingOver'
    BY <1>1, <1>3, <2>1, StandingIsLegal, NotHandingOver DEF NoNewRevision
  <2> QED BY <1>3, <2>1, <2>2, RoundsStand
<1>4. CASE /\ Recorded(m.pr) /\ submission' = Escalated(m.pr)
           /\ IF work[lease[m.pr].work].active # NoLease
              THEN /\ lease' = ActiveBecomes(lease[m.pr].work, "review_invalidated")
                   /\ work' = [work EXCEPT ![lease[m.pr].work].state = "review_invalidated"]
              ELSE UNCHANGED <<lease, work>>
  <2>1. PICK k \in Leases, w \in Works : k = m.pr /\ w = lease[k].work /\ Recorded(k)
    BY <1>1, <1>4, DeliveredWebhook
  <2>2. submission' = [submission EXCEPT ![k].state = "escalated", ![k].since = 0]
    BY <1>4, <2>1 DEF Escalated
  <2>3. submission'[k].state = "escalated" /\ SameRound(k)
    BY <1>1, <2>2, OneRowMoves
  <2>4. Legal(k)
    BY <2>1, <2>3 DEF Legal, Recorded
  <2>5. "escalated" \in SubmissionStates \ {"none"}
    BY DEF SubmissionStates
  <2>6. SubmissionsStay
    BY <1>1, <2>1, <2>2, <2>5, OneSubmission DEF Recorded
  <2>7. /\ NoNewRevision
        /\ \A l \in Leases : lease'[l].state \in Active => lease'[l].work # w
    BY <1>1, <1>4, <2>1, NoneLeftActive
  <2>8. \A v \in Works : v # w => work'[v] = work[v]
    BY <1>1, <1>4, <2>1 DEF TypeOK
  <2> QED BY <1>1, <2>1, <2>2, <2>4, <2>6, <2>7, <2>8, WebhookRound
<1> QED BY <1>2, <1>3, <1>4 DEF Synchronize

LEMMA PullRequestEndedRounds ==
  ASSUME PubInv, RoundInv, OnePullRequest, Carried, NEW m \in webhooks, PullRequestEnded(m)
  PROVE  RoundInv' /\ LegalRounds
<1>1. /\ TypeOK /\ CInv /\ Deliver(m) /\ m.pr \in Leases /\ txn' = Closed
      /\ m.type \in {"merged", "closed"}
  BY DeliveredWebhook DEF PullRequestEnded, Deliver, PubInv, CInv
<1>2. CASE ~Recorded(m.pr)
  BY <1>1, <1>2, RowsStand DEF PullRequestEnded, peopleVars, coordinatorRows
<1>3. CASE Recorded(m.pr)
  <2>1. PICK k \in Leases, w \in Works : k = m.pr /\ w = lease[k].work /\ Recorded(k)
    BY <1>1, <1>3, DeliveredWebhook
  <2>2. /\ submission' = [submission EXCEPT ![k].state = m.type, ![k].since = 0]
        /\ work' = [work EXCEPT ![w].state = m.type]
        /\ lease' = ActiveBecomes(w, m.type)
    BY <1>3, <2>1 DEF PullRequestEnded
  <2>3. submission'[k].state = m.type /\ SameRound(k)
    BY <1>1, <2>2, OneRowMoves
  <2>4. Legal(k)
    BY <1>1, <2>1, <2>3 DEF Legal, Recorded
  <2>5. m.type \in SubmissionStates \ {"none"}
    BY <1>1 DEF SubmissionStates
  <2>6. SubmissionsStay
    BY <1>1, <2>1, <2>2, <2>5, OneSubmission DEF Recorded
  <2>7. /\ NoNewRevision
        /\ \A l \in Leases : lease'[l].state \in Active => lease'[l].work # w
    BY <1>1, <2>2, NoneLeftActive
  <2>8. /\ \A v \in Works : v # w => work'[v] = work[v]
        /\ work'[w].state # "revision_requested"
    BY <1>1, <2>1, <2>2 DEF TypeOK, WorkRows
  <2>9. m.type # "none" /\ m.type # "revising"
    BY <1>1
  <2>10. PICK s : s = m.type
    OBVIOUS
  <2>11. s # "none" /\ s # "revising" BY <2>9, <2>10
  <2>12. submission' = [submission EXCEPT ![k].state = s, ![k].since = 0] BY <2>2, <2>10
  <2>13. \A l \in Leases : lease'[l].state \in Active /\ lease'[l].kind = "revision" =>
           lease'[l].work # w
     BY <2>7
  <2>14. work'[w].state = "revision_requested" => s \in {"changes_requested", "escalated"}
     BY <2>8
  <2> QED BY <1>1, <2>1, <2>4, <2>6, <2>7, <2>8, <2>11, <2>12, <2>13, <2>14, WebhookRound
<1> QED BY <1>2, <1>3
-----------------------------------------------------------------------------
(* The record of an outcome in a round *)

\* What a recorded submission shows of the issue.
LEMMA SubmitShows ==
  ASSUME PubInv, NEW l \in Leases, Submit(l), NEW w \in Works, w = lease[l].work
  PROVE  /\ work'[w].state = "submitted"
         /\ \A v \in Works : v # w => work'[v] = work[v]
<1> DEFINE row == [work[w] EXCEPT !.state = "submitted", !.active = NoLease]
<1>1. work \in [Works -> WorkRows] /\ work[w] \in WorkRows
  BY DEF PubInv, CInv, TypeOK
<1>2. work' = [work EXCEPT ![w] = row] /\ row.state = "submitted"
  BY <1>1 DEF Submit, WorkRows
<1> HIDE DEF row
<1> QED BY <1>1, <1>2

LEMMA RecordPublishRounds ==
  ASSUME PubInv, RoundInv, Carried, NEW l \in Leases, lease[l].kind = "initial",
         lease[l].state # "none", RecordPublish(l), txn' = Closed
  PROVE  RoundInv' /\ LegalRounds
<1> DEFINE new == [state |-> "open", head |-> <<l, job[l].sha>>, round |-> 1, since |-> 0]
<1>0. TypeOK
  BY DEF PubInv, CInv
<1>1. \/ UNCHANGED submission
      \/ submission[l].state = "none" /\ submission' = [submission EXCEPT ![l] = new]
  BY DEF RecordPublish
<1>2. new.state = "open" /\ new.round = 1
  OBVIOUS
<1> HIDE DEF new
<1>3. \A k \in Leases : \/ submission'[k] = submission[k]
                        \/ submission[k].state = "none" /\ submission'[k] = new
  BY <1>0, <1>1 DEF TypeOK
<1>4. LegalRounds
  BY <1>2, <1>3 DEF LegalRounds, Legal, SameRound
<1>5. /\ NoNewRevision
      /\ \A w \in Works : work'[w].state = "revision_requested" =>
                          work[w].state = "revision_requested"
  <2>1. CASE StillPublishing(l) /\ Submit(l)
    <3>1. \A k \in Leases : k # l => lease'[k] = lease[k]
      BY <2>1, SubmitCarries
    <3>2. lease'[l].kind = "initial"
      BY DEF Carried
    <3>3. PICK w \in Works : w = lease[l].work
      BY DEF PubInv, CInv, Safe, Born
    <3>4. /\ work'[w].state = "submitted"
          /\ \A v \in Works : v # w => work'[v] = work[v]
      BY <2>1, <3>3, SubmitShows
    <3> QED BY <3>1, <3>2, <3>4 DEF NoNewRevision
  <2>2. CASE UNCHANGED <<lease, work>>
    BY <2>2 DEF NoNewRevision
  <2> QED BY <2>1, <2>2 DEF RecordPublish
<1>6. ~HandingOver'
  BY NotHandingOver
<1>7. \A k \in Leases : Recorded(k) => submission'[k].state = submission[k].state
  BY <1>3 DEF Recorded
<1>8. RoundInv'
  BY <1>5, <1>6, <1>7, RoundsStand
<1> QED BY <1>4, <1>8

\* The fast-forward that is recorded ends the round that was under way.
LEMMA RecordUpdateRounds ==
  ASSUME PubInv, RoundInv, OnePullRequest, Carried, NEW l \in Leases,
         lease[l].kind = "revision", StillPublishing(l), RecordUpdate(l), txn' = Closed
  PROVE  RoundInv' /\ LegalRounds
<1>0. /\ TypeOK /\ CInv /\ Submit(l) /\ lease[l].state = "publishing"
      /\ lease[l].state \in Active /\ lease[l].state # "none"
  BY DEF PubInv, CInv, RecordUpdate, StillPublishing, Active
<1>1. PICK w \in Works : w = lease[l].work
  BY <1>0 DEF CInv, Safe, Born
<1>2. PICK k \in SubmissionsOf(w) :
        submission' = [submission EXCEPT ![k].state = "awaiting_rereview",
                         ![k].head = <<l, job[l].sha>>, ![k].round = @ + 1, ![k].since = 0]
  BY <1>1 DEF RecordUpdate
<1>3. k \in Leases /\ submission[k].state = "revising" /\ Recorded(k)
  <2>1. PICK j \in SubmissionsOf(w) : submission[j].state = "revising"
    BY <1>0, <1>1 DEF RoundInv, RevisionsInRound, InRound
  <2> QED BY <2>1, OneSubmissionOf, SubmissionsKnown
<1>4. /\ submission'[k].state = "awaiting_rereview"
      /\ submission'[k].round = submission[k].round + 1
      /\ \A j \in Leases : j # k => submission'[j] = submission[j]
  <2> DEFINE row == [submission[k] EXCEPT !.state = "awaiting_rereview",
                       !.head = <<l, job[l].sha>>, !.round = submission[k].round + 1,
                       !.since = 0]
  <2>1. submission \in [Leases -> SubmissionRows] /\ submission[k] \in SubmissionRows
    BY <1>0, <1>3 DEF TypeOK
  <2>2. submission' = [submission EXCEPT ![k] = row]
    BY <1>2, <1>3, <2>1
  <2>3. row.state = "awaiting_rereview" /\ row.round = submission[k].round + 1
    BY <2>1 DEF SubmissionRows
  <2> HIDE DEF row
  <2> QED BY <1>3, <2>1, <2>2, <2>3
<1>5. LegalRounds
  BY <1>3, <1>4 DEF LegalRounds, Legal, SameRound
<1>6. /\ \A j \in Leases : j # l => lease'[j] = lease[j]
      /\ lease'[l].state = "submitted"
  BY <1>0, SubmitCarries
<1>7. \A j \in Leases : lease'[j].state \in Active /\ lease'[j].kind = "revision" =>
        lease'[j].work # w
  <2> SUFFICES ASSUME NEW j \in Leases, lease'[j].state \in Active, lease'[j].work = w
               PROVE  FALSE
    OBVIOUS
  <2>1. j # l
    BY <1>6 DEF Active
  <2>2. lease[j].state \in Active /\ lease[j].work = w
    BY <1>6, <2>1
  <2> QED BY <1>0, <1>1, <2>1, <2>2 DEF CInv, Safe, ActiveIsCurrent
<1>8. /\ work'[w].state = "submitted"
      /\ \A v \in Works : v # w => work'[v] = work[v]
  BY <1>0, <1>1, SubmitShows
<1>9. ~HandingOver'
  BY NotHandingOver
<1>10. \A j \in Leases : lease'[j].state # "none" /\ lease'[j].kind = "revision" =>
         lease[j].state # "none" /\ (lease'[j].state \in Active => lease[j].state \in Active)
  BY <1>0, <1>6
<1>11. RoundInv'
  BY <1>4, <1>7, <1>8, <1>9, <1>10, OneRoundMoves
<1> QED BY <1>5, <1>11

LEMMA RecordRounds ==
  ASSUME PubInv, RoundInv, OnePullRequest, Carried, NEW d \in Dispatchers, Record(d)
  PROVE  RoundInv' /\ LegalRounds
<1>1. PICK l \in Leases : l = claim[d].lease /\ job[l].state # "none"
  BY ClaimKnown DEF Record
<1>2. txn' = Closed /\ lease[l].state # "none"
  BY <1>1 DEF Record, PubInv, JobsOK, JobOK, CInv, Safe, RowsOK, RowOK
<1>3. CASE UNCHANGED <<lease, work, submission>>
  <2>1. NoNewRevision /\ LegalRounds /\ ~HandingOver'
    BY <1>2, <1>3, StandingIsLegal, NotHandingOver DEF NoNewRevision, SameRound
  <2> QED BY <1>3, <2>1, RoundsStand
<1>4. CASE lease[l].kind = "initial" /\ RecordPublish(l)
  BY <1>2, <1>4, RecordPublishRounds
<1>5. CASE lease[l].kind = "revision" /\ RecordUpdate(l)
  <2>1. CASE StillPublishing(l)
    BY <1>2, <1>5, <2>1, RecordUpdateRounds
  <2>2. CASE ~StillPublishing(l)
    BY <1>3, <1>5, <2>2 DEF RecordUpdate
  <2> QED BY <2>1, <2>2
<1>6. \/ UNCHANGED workVars
      \/ UNCHANGED <<lease, work, submission>>
      \/ lease[l].kind = "initial" /\ RecordPublish(l)
      \/ lease[l].kind = "revision" /\ RecordUpdate(l)
  BY <1>1 DEF Record
<1> QED BY <1>3, <1>4, <1>5, <1>6 DEF workVars
-----------------------------------------------------------------------------
(* The rounds of the system *)

\* Every step of the server, of GitHub and of the dispatchers.
LEMMA SystemNextRounds ==
  ASSUME PubInv, RoundInv, OnePullRequest, [SystemNext]_systemVars
  PROVE  RoundInv' /\ LegalRounds
<1>0. Carried
  BY SystemNextKeeps, SystemStutters
<1>1. CASE Next
  BY <1>0, <1>1, NextRounds
<1>2. CASE GitHubStep
  BY <1>0, <1>2, RowsStand
     DEF GitHubStep, WriteReview, PushForeign, EndPullRequest, LoseWebhook, vars, coordinatorRows
<1>3. CASE WebhookStep
  BY <1>0, <1>3, RequestRevisionRounds, ReviewApprovedRounds, SynchronizeRounds,
     PullRequestEndedRounds DEF WebhookStep
<1>4. ASSUME NEW d \in Dispatchers, DispatcherStep(d) PROVE RoundInv' /\ LegalRounds
  <2>1. CASE Record(d)
    BY <1>0, <2>1, RecordRounds
  <2>2. CASE UNCHANGED vars
    BY <1>0, <2>2, RowsStand DEF vars, coordinatorRows
  <2>3. CASE Claim(d) \/ DeliveryFails(d)
    BY <1>0, <2>3, RowsStand DEF Claim, DeliveryFails, peopleVars, coordinatorRows
  <2> QED BY <1>4, <2>1, <2>2, <2>3
       DEF DispatcherStep, Delivery, Prepare, PublishBranch, PublishPullRequest, UpdateBranch,
           Crash
<1>5. ASSUME NEW l \in Leases, LockLapses(l) \/ \E u \in Retriers : Retry(u, l)
      PROVE  RoundInv' /\ LegalRounds
  BY <1>0, <1>5, RowsStand DEF LockLapses, Retry, vars, peopleVars, coordinatorRows
<1>6. CASE UNCHANGED systemVars
  BY <1>0, <1>6, RowsStand DEF systemVars, vars, coordinatorRows
<1> QED BY <1>1, <1>2, <1>3, <1>4, <1>5, <1>6 DEF SystemNext

LEMMA RoundsStart == SystemInit => RoundInv
BY DEF SystemInit, Init, UnbornLease, Closed, RoundInv, RevisionsRecorded, RevisionsInRound,
       RequestsInRound, HandoverInRound, HandingOver, Active

\* While no issue has two pull requests, an active revision is the round that its
\* submission shows as under way, and a requested one is what its reviewers asked for.
THEOREM RoundsAreUnderWay == SystemSpec /\ []OnePullRequest => []RoundInv
<1>1. PubInv /\ RoundInv /\ OnePullRequest /\ [SystemNext]_systemVars => RoundInv'
  BY SystemNextRounds
<1> QED BY SystemInvariance, RoundsStart, <1>1, PTL DEF SystemSpec

\* Each submission goes through the states of iteration.py in order: every step that moves
\* one is a request with a round left in the policy, the allocation, release or record of
\* its revision, a review of its head, an escalation, or the end of its pull request.
THEOREM RoundsAreLegal == SystemSpec /\ []OnePullRequest => [][LegalRounds]_systemVars
<1>1. PubInv /\ RoundInv /\ OnePullRequest /\ [SystemNext]_systemVars
        => [LegalRounds]_systemVars
  BY SystemNextRounds
<1> QED BY SystemInvariance, RoundsAreUnderWay, <1>1, PTL DEF SystemSpec

\* Once escalated, a submission is taken up again by nothing but the end of its pull
\* request: no later review, sweep, release, retry or delivery revives the round.
THEOREM EscalationStays == SystemSpec /\ []OnePullRequest => EscalationIsSticky
<1>1. LegalRounds => \A k \in Leases : submission[k].state = "escalated" =>
                       submission'[k].state \in {"escalated", "merged", "closed"}
  BY DEF LegalRounds, Legal
<1> QED BY RoundsAreLegal, <1>1, PTL DEF EscalationIsSticky
-----------------------------------------------------------------------------
(* The number of rounds *)

\* The policy is the first one or one that a maintainer chose.
PolicyKnown == project.policy \in Policies \cup {InitialPolicy}

\* A round is asked for only while the policy in force has one left.
RoundsLeft ==
  \A k \in Leases :
    /\ submission[k].round <= InitialPolicy.maxRounds + 1
    /\ submission[k].state \in InFlightStates => submission[k].round <= InitialPolicy.maxRounds

LEMMA NextPolicy ==
  ASSUME TypeOK, Next
  PROVE  project'.policy = project.policy \/ project'.policy \in Policies
<1>1. CASE Tick \/ Sweep \/ OpenTransaction
  BY <1>1 DEF Tick, Sweep, OpenTransaction, SweepOffer, SweepHandover, CancelNext,
              AllocateHandover, EndSweep, PollGoesOn, peopleVars
<1>2. CASE Governance
  <2>1. ASSUME NEW u \in Users, NEW policy \in Policies, NEW budget \in Budgets,
               NEW active \in BOOLEAN, UpdateProject(u, policy, budget, active)
        PROVE  project'.policy \in Policies
    BY <2>1 DEF UpdateProject
  <2>2. CASE RevokeInstallation
    BY <2>2 DEF RevokeInstallation, TypeOK
  <2> QED BY <1>2, <2>1, <2>2 DEF Governance, Watch, UpdateMember
<1>3. ASSUME NEW l \in Leases, WorkerStep(l) \/ HumanStep(l) PROVE UNCHANGED project
  BY <1>3 DEF WorkerStep, Heartbeat, HeartbeatWithUsage, Checkpoint, Complete, Block,
              HumanStep, Accept, Deny, Recover, Dib, Approve, peopleVars
<1>4. ASSUME NEW d \in Devices, DeviceStep(d) PROVE UNCHANGED project
  BY <1>4 DEF DeviceStep, PollAllocates, PollReclaims, CreateDevice, RevokeDevice,
              ToggleDevice, peopleVars
<1>5. ASSUME NEW w \in Works, IssueStep(w) PROVE UNCHANGED project
  BY <1>5 DEF IssueStep, Validate, Ingest, peopleVars
<1> QED BY <1>1, <1>2, <1>3, <1>4, <1>5 DEF Next

LEMMA SystemNextPolicy ==
  ASSUME TypeOK, PolicyKnown, [SystemNext]_systemVars
  PROVE  PolicyKnown'
<1>1. CASE Next
  BY <1>1, NextPolicy DEF PolicyKnown
<1>2. CASE GitHubStep \/ WebhookStep
  BY <1>2 DEF PolicyKnown, GitHubStep, WriteReview, PushForeign, EndPullRequest, LoseWebhook,
              vars, WebhookStep, RequestRevision, ReviewApproved, Synchronize,
              PullRequestEnded, peopleVars
<1>3. ASSUME NEW d \in Dispatchers, DispatcherStep(d) PROVE PolicyKnown'
  BY <1>3 DEF PolicyKnown, DispatcherStep, Delivery, Claim, Prepare, PublishBranch,
              PublishPullRequest, UpdateBranch, Record, DeliveryFails, Crash, vars, peopleVars
<1>4. ASSUME NEW l \in Leases, LockLapses(l) \/ \E u \in Retriers : Retry(u, l)
      PROVE  PolicyKnown'
  BY <1>4 DEF PolicyKnown, LockLapses, Retry, vars, peopleVars
<1>5. CASE UNCHANGED systemVars
  BY <1>5 DEF PolicyKnown, systemVars, vars
<1> QED BY <1>1, <1>2, <1>3, <1>4, <1>5 DEF SystemNext

LEMMA LegalRoundsLeft ==
  ASSUME \A p \in Policies : p.maxRounds <= InitialPolicy.maxRounds,
         TypeOK, TypeOK', PolicyKnown, RoundsLeft, LegalRounds
  PROVE  RoundsLeft'
<1> DEFINE M == InitialPolicy.maxRounds
           N == project.policy.maxRounds
<1>1. M \in Nat /\ N \in Nat /\ N <= M
  BY InputsAssumption DEF PolicyKnown, PolicyRows, TypeOK
<1> HIDE DEF M, N
<1> SUFFICES ASSUME NEW k \in Leases
             PROVE  /\ submission'[k].round <= M + 1
                    /\ submission'[k].state \in InFlightStates => submission'[k].round <= M
  BY DEF RoundsLeft, M
<1>2. /\ submission[k].round \in Nat /\ submission'[k].round \in Nat
      /\ submission[k].round <= M + 1
      /\ submission[k].state \in InFlightStates => submission[k].round <= M
  BY DEF TypeOK, SubmissionRows, RoundsLeft, M
<1>3. Legal(k)
  BY DEF LegalRounds
<1>4. CASE submission'[k].state = submission[k].state /\ SameRound(k)
  BY <1>2, <1>4 DEF SameRound
<1>5. CASE submission'[k].state = "open" /\ submission'[k].round = 1
  BY <1>1, <1>5 DEF InFlightStates
<1>6. CASE submission'[k].state = "changes_requested" /\ SameRound(k)
           /\ RevisionsSpent(k) < project.policy.maxRounds
  BY <1>1, <1>2, <1>6 DEF SameRound, RevisionsSpent, Greatest, N
<1>7. CASE submission[k].state \in InFlightStates /\ SameRound(k)
  BY <1>2, <1>7 DEF SameRound
<1>8. CASE /\ submission[k].state = "revising" /\ submission'[k].state = "awaiting_rereview"
           /\ submission'[k].round = submission[k].round + 1
  <2>1. submission[k].round <= M
    BY <1>2, <1>8 DEF InFlightStates
  <2>2. submission'[k].state \notin InFlightStates
    BY <1>8 DEF InFlightStates
  <2> QED BY <1>1, <1>2, <1>8, <2>1, <2>2
<1>9. CASE submission'[k].state \notin InFlightStates /\ SameRound(k)
  BY <1>2, <1>9 DEF SameRound
<1> QED BY <1>3, <1>4, <1>5, <1>6, <1>7, <1>8, <1>9 DEF Legal, InFlightStates

LEMMA RoundsLeftAtStart == SystemInit => PolicyKnown /\ RoundsLeft
BY InputsAssumption DEF SystemInit, Init, PolicyKnown, RoundsLeft, InFlightStates, PolicyRows

\* If no policy of the project grows the limit, no pull request gets more revision rounds
\* than the limit, whatever requests, releases, retries and late records come together:
\* request_revision counts the rounds that are recorded, and nothing records one more.
THEOREM RoundsStayBounded ==
  ASSUME \A p \in Policies : p.maxRounds <= InitialPolicy.maxRounds
  PROVE  SystemSpec /\ []OnePullRequest => []RoundsAreBounded
<1>1. PubInv /\ PubInv' /\ PolicyKnown /\ RoundsLeft /\ [SystemNext]_systemVars
        /\ [LegalRounds]_systemVars => (PolicyKnown /\ RoundsLeft)'
  <2> SUFFICES ASSUME PubInv, PubInv', PolicyKnown, RoundsLeft, [SystemNext]_systemVars,
                      [LegalRounds]_systemVars
               PROVE  (PolicyKnown /\ RoundsLeft)'
    OBVIOUS
  <2>1. TypeOK /\ TypeOK'
    BY DEF PubInv, CInv
  <2>2. PolicyKnown'
    BY <2>1, SystemNextPolicy
  <2>3. CASE LegalRounds
    BY <2>1, <2>2, <2>3, LegalRoundsLeft
  <2>4. CASE UNCHANGED systemVars
    BY <2>2, <2>4 DEF systemVars, vars, RoundsLeft
  <2> QED BY <2>3, <2>4
<1>2. RoundsLeft => RoundsAreBounded
  BY DEF RoundsLeft, RoundsAreBounded
<1> QED BY SystemInvariance, RoundsAreLegal, RoundsLeftAtStart, <1>1, <1>2, PTL DEF SystemSpec
-----------------------------------------------------------------------------
(* Heads.                                                                   *)
(*                                                                          *)
(* What is on a submission branch while its submission waits for a review:  *)
(* the commit that is recorded, unless outsiders pushed.  A fast-forward to *)
(* another commit is of a revision, and the round is under way then.        *)

\* The commit that the job of lease l publishes.
JobCommit(l) == <<l, job[l].sha>>

\* A branch with a pull request has a head, that of an unrecorded one is its lease's
\* commit, and the commits on it are of leases of the same issue.
BranchOK(k) ==
  LET head == remote[k].head IN
  /\ remote[k].pr # "none" => head # NoCommit
  /\ \/ Recorded(k) \/ head \in {NoCommit, Foreign}
     \/ job[k].state # "none" /\ head = JobCommit(k)
  /\ head \in {NoCommit, Foreign} \/ lease[head[1]].work = lease[k].work
BranchesOK == \A k \in Leases : BranchOK(k)

\* The head of a submission is a job's commit.
RecordedHeads ==
  \A k \in Leases : Recorded(k) =>
    \E l \in Leases : job[l].state # "none" /\ submission[k].head = JobCommit(l)

\* A revision starts from the commit of an earlier lease.
IsRevision(l) == lease[l].state # "none" /\ lease[l].kind = "revision"
BasesOK == \A l \in Leases : IsRevision(l) => lease[l].base[1] \in 1..(l - 1)

\* While a submission waits for a review its head is that of the last revision, and
\* it is on GitHub.
Waiting == {"open", "awaiting_rereview"}
NoneNewer ==
  \A k, l \in Leases :
    submission[k].state \in Waiting /\ IsRevision(l) /\ lease[l].work = lease[k].work =>
      l <= submission[k].head[1]
HeadOnGitHub ==
  \A k \in Leases : submission[k].state \in Waiting =>
    remote[k].head \in {submission[k].head, Foreign}

\* A dispatcher that updates a branch knows its row, and what it has put there is still
\* there, unless outsiders or a later revision moved it.
RequestOK(d) ==
  LET c == claim[d] IN
  /\ c.phase = "pr" => remote[c.pr].head # NoCommit
  /\ c.phase = "update" => c.valid
  /\ c.phase \in {"update", "record"} /\ c.valid /\ lease[c.lease].kind = "revision" =>
       c.pr \in SubmissionsOf(lease[c.lease].work)
  /\ c.phase = "record" /\ c.valid /\ lease[c.lease].kind = "revision" =>
       \/ remote[c.pr].head \in {JobCommit(c.lease), Foreign}
       \/ remote[c.pr].head[1] > c.lease
RequestsOK == \A d \in Dispatchers : RequestOK(d)

HeadInv ==
  BranchesOK /\ RecordedHeads /\ BasesOK /\ NoneNewer /\ HeadOnGitHub /\ RequestsOK
-----------------------------------------------------------------------------
(* What steps leave of the heads *)

\* Jobs, bases and submissions' heads, once there, stay.
JobsCarried ==
  \A l \in Leases : job[l].state # "none" => job'[l].state # "none" /\ job'[l].sha = job[l].sha
BasesCarried ==
  \A l \in Leases : lease[l].state # "none" => lease'[l].base = lease[l].base

\* A revision allocated in this step starts from an earlier commit, and its issue's
\* submission is not waiting for a review then.
RevisionsBegin ==
  \A l \in Leases : IsRevision(l)' /\ lease[l].state = "none" =>
    /\ lease'[l].base[1] \in 1..(l - 1)
    /\ \A k \in Leases : submission'[k].state \in Waiting => lease'[k].work # lease'[l].work

\* Facts of PubInv, in the form that heads need.
LEMMA JobsBorn ==
  ASSUME PubInv
  PROVE  /\ \A l \in Leases : job[l].state # "none" => lease[l].state # "none"
         /\ \A k \in Leases : Recorded(k) =>
              /\ lease[k].state # "none" /\ remote[k].pr # "none"
              /\ submission[k].head[1] \in k..MaxLeases
         /\ \A k \in Leases : remote[k].head \in {NoCommit, Foreign} \/
              \E l \in Leases : job[l].state # "none" /\ remote[k].head = JobCommit(l)
BY DEF PubInv, JobsOK, JobOK, CInv, Safe, RowsOK, RowOK, SubmissionsOK, RecordedOK, HeadsOK,
       HeadOK, JobCommit

LEMMA CommitsDiffer ==
  /\ \A l \in Leases : JobCommit(l)[1] = l /\ JobCommit(l) \notin {NoCommit, Foreign}
  /\ NoCommit # Foreign /\ NoCommit[1] = NoLease /\ Foreign[1] = NoLease
BY DEF JobCommit, NoCommit, Foreign, NoLease, NoVersion, Leases

\* A branch whose head stays, or that outsiders push to, stays as it should be.
LEMMA BranchStays ==
  ASSUME PubInv, HeadInv, Carried, JobsCarried, NEW k \in Leases,
         Recorded(k) => Recorded(k)',
         remote'[k].pr # "none" => remote[k].pr # "none",
         remote'[k].head \in {remote[k].head, Foreign}
  PROVE  BranchOK(k)'
<1>1. BranchOK(k)
  BY DEF HeadInv, BranchesOK
<1>2. CASE remote'[k].head = Foreign
  BY <1>2, CommitsDiffer DEF BranchOK
<1>3. CASE remote'[k].head = remote[k].head /\ remote[k].head = NoCommit
  BY <1>1, <1>3 DEF BranchOK
<1>4. CASE remote'[k].head = remote[k].head /\ remote[k].head \notin {NoCommit, Foreign}
  <2>1. PICK l \in Leases : job[l].state # "none" /\ remote[k].head = JobCommit(l)
    BY <1>4, JobsBorn
  <2>2. remote[k].head[1] = l /\ lease[l].state # "none" /\ lease[l].work = lease[k].work
    BY <1>1, <1>4, <2>1, CommitsDiffer, JobsBorn DEF BranchOK
  <2>3. lease[k].state # "none"
    <3>1. CASE Recorded(k)
      BY <3>1, JobsBorn
    <3>2. CASE ~Recorded(k)
      BY <1>1, <1>4, <3>2, JobsBorn DEF BranchOK
    <3> QED BY <3>1, <3>2
  <2>4. lease'[l].work = lease'[k].work
    BY <2>2, <2>3 DEF Carried
  <2>5. Recorded(k)' \/ (job'[k].state # "none" /\ remote'[k].head = JobCommit(k)')
    <3>1. CASE Recorded(k)
      BY <3>1
    <3>2. CASE ~Recorded(k)
      <4>1. job[k].state # "none" /\ remote[k].head = JobCommit(k)
        BY <1>1, <1>4, <3>2 DEF BranchOK
      <4>2. job'[k].state # "none" /\ job'[k].sha = job[k].sha
        BY <4>1 DEF JobsCarried
      <4> QED BY <1>4, <4>1, <4>2 DEF JobCommit
    <3> QED BY <3>1, <3>2
  <2> QED BY <1>4, <2>2, <2>4, <2>5 DEF BranchOK
<1> QED BY <1>2, <1>3, <1>4

\* A dispatcher that does nothing may rely on what it relied on.
LEMMA RequestStays ==
  ASSUME PubInv, HeadInv, Carried, JobsCarried, NEW d \in Dispatchers, claim'[d] = claim[d],
         \A k \in Leases : Recorded(k) => Recorded(k)',
         \A k \in Leases : remote'[k].head \in {remote[k].head, Foreign}
  PROVE  RequestOK(d)'
<1> DEFINE c == claim[d]
<1>1. RequestOK(d) /\ ClaimOK(d) /\ c \in ClaimRows
  BY DispatcherTypes DEF HeadInv, RequestsOK, PubInv, ClaimsOK
<1>2. CASE c.phase \in {"idle", "claimed", "branch"}
  BY <1>2 DEF RequestOK
<1>3. CASE c.phase = "pr"
  <2>1. c.pr \in Leases
    BY <1>1, <1>3, ClaimKnown DEF ClaimOK
  <2>2. remote'[c.pr].head # NoCommit
    BY <1>1, <1>3, <2>1, CommitsDiffer DEF RequestOK
  <2> QED BY <1>3, <2>2 DEF RequestOK
<1>4. CASE c.phase \in {"update", "record"}
  <2>1. PICK l \in Leases : l = c.lease /\ job[l].state # "none" /\ lease[l].state # "none"
    BY <1>4, ClaimKnown, JobsBorn
  <2>2. job'[l].sha = job[l].sha /\ lease'[l].work = lease[l].work
        /\ lease'[l].kind = lease[l].kind
    BY <2>1 DEF JobsCarried, Carried
  <2>3. ASSUME c.valid, lease[l].kind = "revision"
        PROVE  \E k \in Leases : k = c.pr /\ k \in SubmissionsOf(lease[l].work)
    BY <1>1, <1>4, <2>1, <2>3 DEF RequestOK, SubmissionsOf
  <2>4. ASSUME c.valid, lease[l].kind = "revision"
        PROVE  c.pr \in SubmissionsOf(lease[l].work)'
    <3>1. PICK k \in Leases : k = c.pr /\ k \in SubmissionsOf(lease[l].work)
      BY <2>3, <2>4
    <3>2. Recorded(k) /\ lease[k].work = lease[l].work /\ lease[k].state # "none"
      BY <3>1, SubmissionsKnown
    <3>3. Recorded(k)' /\ lease'[k].work = lease[k].work
      BY <3>2 DEF Carried
    <3> QED BY <2>2, <3>1, <3>2, <3>3 DEF SubmissionsOf, Recorded
  <2>5. ASSUME c.phase = "record", c.valid, lease[l].kind = "revision"
        PROVE  \/ remote'[c.pr].head \in {JobCommit(l)', Foreign}
               \/ remote'[c.pr].head[1] > l
    <3>1. PICK k \in Leases : k = c.pr
      BY <2>3, <2>5
    <3>2. remote[k].head \in {JobCommit(l), Foreign} \/ remote[k].head[1] > l
      BY <1>1, <2>1, <2>5, <3>1 DEF RequestOK
    <3>3. JobCommit(l)' = JobCommit(l)
      BY <2>2 DEF JobCommit
    <3> QED BY <3>1, <3>2, <3>3
  <2> QED BY <1>1, <1>4, <2>1, <2>2, <2>4, <2>5 DEF RequestOK
<1> QED BY <1>1, <1>2, <1>3, <1>4 DEF ClaimRows, Phases

\* Steps that move no branch but those that outsiders push to, insert no submission and
\* record no round.
LEMMA HeadsFrame ==
  ASSUME PubInv, HeadInv, Carried, JobsCarried, BasesCarried, SubmissionsStay, RevisionsBegin,
         \A k \in Leases : submission'[k].state \in Waiting => submission[k].state \in Waiting,
         \A k \in Leases : /\ remote'[k].pr # "none" => remote[k].pr # "none"
                           /\ remote'[k].head \in {remote[k].head, Foreign},
         \A d \in Dispatchers : claim'[d] = claim[d] \/ RequestOK(d)'
  PROVE  HeadInv'
<1>1. \A k \in Leases : /\ Recorded(k)' <=> Recorded(k)
                        /\ submission'[k].head = submission[k].head
  BY DEF SubmissionsStay, Recorded
<1>2. BranchesOK'
  BY <1>1, BranchStays DEF BranchesOK
<1>3. RequestsOK'
  BY <1>1, RequestStays DEF RequestsOK
<1>4. RecordedHeads'
  <2> SUFFICES ASSUME NEW k \in Leases, Recorded(k)'
               PROVE  \E l \in Leases : job'[l].state # "none"
                                        /\ submission'[k].head = JobCommit(l)'
    BY DEF RecordedHeads
  <2>1. PICK l \in Leases : job[l].state # "none" /\ submission[k].head = JobCommit(l)
    BY <1>1 DEF HeadInv, RecordedHeads
  <2>2. job'[l].state # "none" /\ job'[l].sha = job[l].sha
    BY <2>1 DEF JobsCarried
  <2> QED BY <1>1, <2>1, <2>2 DEF JobCommit
<1>5. BasesOK'
  BY DEF BasesOK, IsRevision, HeadInv, BasesCarried, Carried, RevisionsBegin
<1>6. NoneNewer'
  <2> SUFFICES ASSUME NEW k \in Leases, NEW l \in Leases, submission'[k].state \in Waiting,
                      IsRevision(l)', lease'[l].work = lease'[k].work
               PROVE  l <= submission'[k].head[1]
    BY DEF NoneNewer
  <2>1. lease[l].state # "none"
    BY DEF RevisionsBegin
  <2>2. submission[k].state \in Waiting /\ lease[k].state # "none"
    BY JobsBorn DEF Recorded, Waiting
  <2>3. IsRevision(l) /\ lease[l].work = lease[k].work
    BY <2>1, <2>2 DEF IsRevision, Carried
  <2> QED BY <1>1, <2>2, <2>3 DEF HeadInv, NoneNewer
<1>7. HeadOnGitHub'
  BY <1>1 DEF HeadInv, HeadOnGitHub
<1> QED BY <1>2, <1>3, <1>4, <1>5, <1>6, <1>7 DEF HeadInv
-----------------------------------------------------------------------------
(* The heads under the steps of the coordinator, of GitHub and of webhooks *)

\* A step that begins and ends no round leaves the submissions that wait.
LEMMA NoneComesToWait ==
  ASSUME TypeOK, LegalRounds, SubmissionsStay, NEW k \in Leases,
         submission'[k].state \in Waiting
  PROVE  submission[k].state \in Waiting
<1>1. Legal(k) /\ submission[k].round \in Nat /\ submission'[k].round = submission[k].round
      /\ (submission'[k].state = "none" <=> submission[k].state = "none")
  BY DEF LegalRounds, SubmissionsStay, TypeOK, SubmissionRows
<1>2. submission[k].round # submission[k].round + 1
  BY <1>1
<1> QED BY <1>1, <1>2 DEF Legal, Waiting

\* A step that begins no revision.
LEMMA NoneBegins ==
  ASSUME \A l \in Leases : lease'[l].state # "none" => lease[l].state # "none"
  PROVE  RevisionsBegin
BY DEF RevisionsBegin, IsRevision

\* Rows that stay, but for the states of jobs.
LEMMA RowsHeads ==
  ASSUME PubInv, HeadInv, UNCHANGED coordinatorRows, JobsStay,
         \A k \in Leases : /\ remote'[k].pr # "none" => remote[k].pr # "none"
                           /\ remote'[k].head \in {remote[k].head, Foreign},
         \A d \in Dispatchers : claim'[d] = claim[d] \/ RequestOK(d)'
  PROVE  HeadInv'
<1>1. UNCHANGED lease /\ UNCHANGED submission
  BY DEF coordinatorRows
<1>2. Carried
  BY <1>1 DEF Carried
<1>3. JobsCarried
  BY DEF JobsStay, JobsCarried
<1>4. BasesCarried
  BY <1>1 DEF BasesCarried
<1>5. SubmissionsStay
  BY <1>1 DEF SubmissionsStay
<1>6. RevisionsBegin
  BY <1>1, NoneBegins
<1>7. \A k \in Leases : submission'[k].state \in Waiting => submission[k].state \in Waiting
  BY <1>1
<1> QED BY <1>2, <1>3, <1>4, <1>5, <1>6, <1>7, HeadsFrame

\* A revision starts from the head of the submission whose round it is.
LEMMA AllocationBegins ==
  ASSUME PubInv, HeadInv, OnePullRequest, NEW l \in Leases, NEW w \in Works, Granted(l, w)
  PROVE  RevisionsBegin /\ BasesCarried
<1>1. /\ lease[l].state = "none" /\ lease'[l].work = w
      /\ \A j \in Leases : j # l => lease'[j] = lease[j]
      /\ \A j \in Leases : lease[j].state = "none" => l <= j
  BY DEF Granted, NextLease, Unborn
<1>2. BasesCarried
  BY <1>1 DEF BasesCarried
<1>3. CASE lease'[l].kind = "initial"
  BY <1>1, <1>2, <1>3 DEF RevisionsBegin, IsRevision
<1>4. ASSUME NEW k \in SubmissionsOf(w), lease'[l].base = submission[k].head,
             submission' = [submission EXCEPT ![k].state = "revising", ![k].since = 0]
      PROVE  RevisionsBegin
  <2>1. k \in Leases /\ Recorded(k) /\ TypeOK
    BY <1>4, SubmissionsKnown DEF PubInv, CInv
  <2>2. PICK m \in Leases : job[m].state # "none" /\ submission[k].head = JobCommit(m)
    BY <2>1 DEF HeadInv, RecordedHeads
  <2>3. lease[m].state # "none" /\ lease'[l].base[1] = m
    BY <1>4, <2>2, JobsBorn, CommitsDiffer
  <2>4. m < l
    <3>1. ~(l <= m)
      BY <1>1, <2>3 DEF PubInv, InOrder
    <3> QED BY <3>1 DEF Leases
  <2>5. lease'[l].base[1] \in 1..(l - 1)
    BY <2>3, <2>4 DEF Leases
  <2>6. /\ submission'[k].state = "revising"
        /\ \A j \in Leases : j # k => submission'[j] = submission[j]
    BY <1>4, <2>1, OneRowMoves
  <2>7. ASSUME NEW j \in Leases, submission'[j].state \in Waiting, lease'[j].work = w
        PROVE  FALSE
    <3>1. j # k /\ submission[j].state \in Waiting
      BY <2>6, <2>7 DEF Waiting
    <3>2. Recorded(j) /\ lease[j].state # "none"
      BY <3>1, JobsBorn DEF Waiting, Recorded
    <3>3. lease[j].work = w
      BY <1>1, <2>7, <3>2
    <3>4. j \in SubmissionsOf(w)
      BY <3>2, <3>3 DEF SubmissionsOf, Recorded
    <3> QED BY <3>1, <3>4, OneSubmissionOf
  <2>8. \A j \in Leases : lease'[j].state # "none" /\ lease[j].state = "none" => j = l
    BY <1>1
  <2> QED BY <1>1, <2>5, <2>7, <2>8 DEF RevisionsBegin, IsRevision
<1> QED BY <1>2, <1>3, <1>4 DEF Granted

LEMMA NextHeads ==
  ASSUME PubInv, OnePullRequest, HeadInv, LegalRounds, Carried, Next,
         UNCHANGED <<iterationVars, publicationVars>>
  PROVE  HeadInv'
<1>1. CInv /\ TypeOK /\ Kept /\ SubmissionsStay /\ JobsOK
  <2>1. CInv /\ TypeOK /\ JobsOK
    BY DEF PubInv, CInv
  <2> QED BY <2>1, NextKeeps, NextSubmissions
<1>2. JobsCarried
  BY <1>1, NextJobs, ApproveJobs DEF JobsCarried
<1>3. RevisionsBegin /\ BasesCarried
  <2>1. CASE Quiet
    <3>1. \A l \in Leases : /\ lease'[l].state # "none" => lease[l].state # "none"
                            /\ lease'[l].base = lease[l].base
      BY <2>1 DEF Quiet, Evolves, Follows
    <3> QED BY <3>1, NoneBegins DEF BasesCarried
  <2>2. ASSUME NEW d \in Devices, NEW w \in Works, Allocate(d, w)
        PROVE  RevisionsBegin /\ BasesCarried
    BY <1>1, <2>2, AllocateGrants, AllocationBegins
  <2> QED BY <1>1, <2>1, <2>2 DEF Kept
<1>4. \A k \in Leases : submission'[k].state \in Waiting => submission[k].state \in Waiting
  BY <1>1, NoneComesToWait
<1>5. \A k \in Leases : /\ remote'[k].pr # "none" => remote[k].pr # "none"
                        /\ remote'[k].head \in {remote[k].head, Foreign}
  BY DEF iterationVars
<1>6. \A d \in Dispatchers : claim'[d] = claim[d] \/ RequestOK(d)'
  BY DEF publicationVars
<1> QED BY <1>1, <1>2, <1>3, <1>4, <1>5, <1>6, HeadsFrame

LEMMA GitHubHeads ==
  ASSUME PubInv, HeadInv, GitHubStep, UNCHANGED publicationVars
  PROVE  HeadInv'
<1>1. UNCHANGED coordinatorRows /\ JobsStay
  BY DEF GitHubStep, WriteReview, PushForeign, EndPullRequest, LoseWebhook, vars,
         coordinatorRows, JobsStay
<1>2. \A k \in Leases : /\ remote'[k].pr # "none" => remote[k].pr # "none"
                        /\ remote'[k].head \in {remote[k].head, Foreign}
  <2>1. CASE UNCHANGED remote
    BY <2>1
  <2>2. ASSUME NEW k \in Leases, PushForeign(k)
        PROVE  \A j \in Leases : /\ remote'[j].pr = remote[j].pr
                                 /\ remote'[j].head \in {remote[j].head, Foreign}
    BY <2>2, DispatcherTypes DEF PushForeign, IterationTypeOK
  <2>3. ASSUME NEW k \in Leases, NEW how \in Closures, EndPullRequest(k, how)
        PROVE  \A j \in Leases : /\ remote'[j].pr # "none" => remote[j].pr # "none"
                                 /\ remote'[j].head = remote[j].head
    BY <2>3, DispatcherTypes DEF EndPullRequest, IterationTypeOK
  <2>4. \/ UNCHANGED remote
        \/ \E k \in Leases : PushForeign(k) \/ \E how \in Closures : EndPullRequest(k, how)
    BY DEF GitHubStep, WriteReview, LoseWebhook
  <2> QED BY <2>1, <2>2, <2>3, <2>4
<1>3. \A d \in Dispatchers : claim'[d] = claim[d] \/ RequestOK(d)'
  BY DEF publicationVars
<1> QED BY <1>1, <1>2, <1>3, RowsHeads

\* What a webhook leaves of the rows that heads are about.
LEMMA WebhookLeaves ==
  ASSUME PubInv, WebhookStep
  PROVE  /\ SubmissionsStay /\ UNCHANGED job /\ UNCHANGED remote
         /\ \A l \in Leases : /\ lease'[l].base = lease[l].base
                              /\ lease'[l].state # "none" => lease[l].state # "none"
<1> DEFINE LeasesStay ==
             \A l \in Leases : /\ lease'[l].base = lease[l].base
                               /\ lease'[l].state # "none" => lease[l].state # "none"
<1>1. PICK m \in webhooks :
        RequestRevision(m) \/ ReviewApproved(m) \/ Synchronize(m) \/ PullRequestEnded(m)
  BY DEF WebhookStep
<1>2. /\ TypeOK /\ CInv /\ Deliver(m) /\ UNCHANGED job /\ m.pr \in Leases
  BY <1>1, DeliveredWebhook
     DEF RequestRevision, ReviewApproved, Synchronize, PullRequestEnded, PubInv, CInv
<1>3. UNCHANGED remote
  BY <1>2 DEF Deliver
<1>4. SubmissionsStay
  <2>1. CASE UNCHANGED submission
    BY <2>1 DEF SubmissionsStay
  <2>2. ASSUME Recorded(m.pr), NEW s \in SubmissionStates \ {"none"},
               submission' = [submission EXCEPT ![m.pr].state = s, ![m.pr].since = 0]
        PROVE  SubmissionsStay
    BY <1>2, <2>2, OneSubmission DEF Recorded
  <2>3. CASE submission' = [submission EXCEPT ![m.pr].since = 0]
    BY <1>2, <2>3 DEF TypeOK, SubmissionRows, SubmissionsStay
  <2>4. {"escalated", "changes_requested", "approved", "merged", "closed"} \subseteq
          SubmissionStates \ {"none"}
    BY DEF SubmissionStates
  <2>5. CASE RequestRevision(m)
    BY <2>1, <2>2, <2>4, <2>5 DEF RequestRevision, Heard, Escalated
  <2>6. CASE ReviewApproved(m)
    BY <2>1, <2>2, <2>4, <2>6 DEF ReviewApproved, Recorded
  <2>7. CASE Synchronize(m)
    BY <2>1, <2>2, <2>3, <2>4, <2>7 DEF Synchronize, Escalated
  <2>8. CASE PullRequestEnded(m)
    BY <2>1, <2>2, <2>4, <2>8 DEF PullRequestEnded
  <2> QED BY <1>1, <2>5, <2>6, <2>7, <2>8
<1>5. LeasesStay
  <2>1. CASE UNCHANGED lease
    BY <2>1
  <2>2. CASE lease' = [l \in Leases |-> IF l \in Latest(lease[m.pr].work)
                                        THEN [lease[l] EXCEPT !.feedback = m.mentions]
                                        ELSE lease[l]]
    BY <1>2, <2>2 DEF TypeOK, LeaseRows
  <2>3. ASSUME NEW w \in Works, NEW s \in {"review_invalidated", "merged", "closed"},
               lease' = ActiveBecomes(w, s)
        PROVE  LeasesStay
    <3>1. Loose
      BY <1>2, <2>3, ActiveEnds
    <3> QED BY <3>1 DEF Loose, Follows
  <2>4. Recorded(m.pr) => lease[m.pr].work \in Works
    BY <1>2, DeliveredWebhook
  <2> QED BY <1>1, <2>1, <2>2, <2>3, <2>4
       DEF RequestRevision, ReviewApproved, Synchronize, PullRequestEnded
<1> QED BY <1>2, <1>3, <1>4, <1>5

LEMMA WebhookHeads ==
  ASSUME PubInv, HeadInv, LegalRounds, Carried, WebhookStep, UNCHANGED publicationVars
  PROVE  HeadInv'
<1>1. /\ SubmissionsStay /\ UNCHANGED job /\ UNCHANGED remote
      /\ \A l \in Leases : /\ lease'[l].base = lease[l].base
                           /\ lease'[l].state # "none" => lease[l].state # "none"
  BY WebhookLeaves
<1>2. JobsCarried
  BY <1>1 DEF JobsCarried
<1>3. BasesCarried
  BY <1>1 DEF BasesCarried
<1>4. RevisionsBegin
  BY <1>1, NoneBegins
<1>5. TypeOK
  BY DEF PubInv, CInv
<1>6. \A k \in Leases : submission'[k].state \in Waiting => submission[k].state \in Waiting
  BY <1>1, <1>5, NoneComesToWait
<1>7. \A k \in Leases : /\ remote'[k].pr # "none" => remote[k].pr # "none"
                        /\ remote'[k].head \in {remote[k].head, Foreign}
  BY <1>1
<1>8. \A d \in Dispatchers : claim'[d] = claim[d] \/ RequestOK(d)'
  BY DEF publicationVars
<1> QED BY <1>1, <1>2, <1>3, <1>4, <1>6, <1>7, <1>8, HeadsFrame
-----------------------------------------------------------------------------
(* The heads under the steps of the dispatchers *)

\* Steps that leave the rows and the heads, and move one dispatcher on.
LEMMA OneRequestMoves ==
  ASSUME PubInv, HeadInv, UNCHANGED coordinatorRows, JobsStay, NEW d \in Dispatchers,
         \A k \in Leases : /\ remote'[k].pr # "none" => remote[k].pr # "none"
                           /\ remote'[k].head = remote[k].head,
         \A e \in Dispatchers : e # d => claim'[e] = claim[e],
         RequestOK(d)'
  PROVE  HeadInv'
BY RowsHeads

\* A dispatcher that is idle, or only begins, relies on nothing.
LEMMA IdleIsOK ==
  ASSUME NEW d \in Dispatchers, claim'[d].phase \in {"idle", "claimed", "branch"}
  PROVE  RequestOK(d)'
BY DEF RequestOK

LEMMA LeavesIdle ==
  ASSUME PubInv, NEW d \in Dispatchers, Leaves(d)
  PROVE  RequestOK(d)' /\ \A e \in Dispatchers : e # d => claim'[e] = claim[e]
<1>1. claim'[d].phase = "idle" /\ \A e \in Dispatchers : e # d => claim'[e] = claim[e]
  BY DispatcherTypes DEF Leaves, Idle
<1> QED BY <1>1, IdleIsOK

LEMMA PrepareHeads ==
  ASSUME PubInv, HeadInv, NEW d \in Dispatchers, Prepare(d)
  PROVE  HeadInv'
<1>1. UNCHANGED coordinatorRows /\ UNCHANGED job /\ UNCHANGED remote /\ UNCHANGED lease
      /\ UNCHANGED submission
  BY DEF Prepare, vars, coordinatorRows, iterationVars
<1>2. JobsStay
  BY <1>1 DEF JobsStay
<1>3. PICK l \in Leases : l = claim[d].lease
  BY ClaimKnown DEF Prepare
<1>4. claim[d].phase = "claimed" /\ ~claim[d].valid /\ claim[d] \in ClaimRows
  BY DispatcherTypes DEF Prepare, PubInv, ClaimsOK, ClaimOK
<1>5. RequestOK(d)' /\ \A e \in Dispatchers : e # d => claim'[e] = claim[e]
  <2>1. CASE Leaves(d)
    BY <2>1, LeavesIdle
  <2>2. ASSUME NEW k \in Targets(l),
               claim' = [claim EXCEPT ![d].phase = FirstRequest(l), ![d].pr = k,
                                      ![d].valid = TRUE]
        PROVE  RequestOK(d)' /\ \A e \in Dispatchers : e # d => claim'[e] = claim[e]
    <3> DEFINE c == [claim[d] EXCEPT !.phase = FirstRequest(l), !.pr = k, !.valid = TRUE]
    <3>1. c.phase = FirstRequest(l) /\ c.pr = k /\ c.lease = l /\ c.valid
      BY <1>3, <1>4 DEF ClaimRows
    <3>2. claim' = [claim EXCEPT ![d] = c]
      BY <2>2, DispatcherTypes
    <3> HIDE DEF c
    <3>3. claim'[d] = c /\ \A e \in Dispatchers : e # d => claim'[e] = claim[e]
      BY <3>2, DispatcherTypes
    <3>4. CASE lease[l].kind = "revision"
      <4>1. c.phase = "update" /\ k \in SubmissionsOf(lease[l].work)
        BY <2>2, <3>1, <3>4 DEF FirstRequest, Targets
      <4>2. SubmissionsOf(lease[l].work)' = SubmissionsOf(lease[l].work)
        BY <1>1 DEF SubmissionsOf
      <4> QED BY <1>1, <3>1, <3>3, <4>1, <4>2 DEF RequestOK
    <3>5. CASE lease[l].kind # "revision"
      <4>1. claim'[d].phase = "branch"
        BY <3>1, <3>3, <3>5 DEF FirstRequest
      <4> QED BY <3>3, <4>1, IdleIsOK
    <3> QED BY <3>4, <3>5
  <2>3. CASE Goes(d, "record")
    <3> DEFINE c == [claim[d] EXCEPT !.phase = "record"]
    <3>1. c.phase = "record" /\ ~c.valid
      BY <1>4 DEF ClaimRows
    <3>2. claim' = [claim EXCEPT ![d] = c]
      BY <2>3, DispatcherTypes DEF Goes
    <3> HIDE DEF c
    <3>3. claim'[d] = c /\ \A e \in Dispatchers : e # d => claim'[e] = claim[e]
      BY <3>2, DispatcherTypes
    <3> QED BY <3>1, <3>3 DEF RequestOK
  <2> QED BY <1>3, <2>1, <2>2, <2>3 DEF Prepare
<1> QED BY <1>1, <1>2, <1>5, OneRequestMoves

LEMMA QuietDispatcherHeads ==
  ASSUME PubInv, HeadInv, NEW d \in Dispatchers, Claim(d) \/ DeliveryFails(d) \/ Crash(d)
  PROVE  HeadInv'
<1>1. UNCHANGED coordinatorRows /\ UNCHANGED remote
  BY DEF Claim, DeliveryFails, Crash, vars, peopleVars, coordinatorRows, iterationVars
<1>2. JobsStay
  <2>1. CASE Claim(d)
    <3>1. PICK l \in Leases : /\ job[l].state \in {"pending", "working"}
                              /\ job' = [job EXCEPT ![l].state = "working"]
      BY <2>1 DEF Claim
    <3> QED BY <3>1, DispatcherTypes DEF JobsStay, JobRows
  <2>2. CASE DeliveryFails(d)
    <3>1. PICK l \in Leases : l = claim[d].lease /\ job[l].state # "none"
      BY <2>2, ClaimKnown DEF DeliveryFails
    <3>2. \/ UNCHANGED job
          \/ \E s \in {"failed", "pending"} : job' = [job EXCEPT ![l].state = s]
      BY <2>2, <3>1 DEF DeliveryFails
    <3> QED BY <3>1, <3>2, DispatcherTypes DEF JobsStay, JobRows
  <2>3. CASE Crash(d)
    BY <2>3 DEF Crash, vars, JobsStay
  <2> QED BY <2>1, <2>2, <2>3
<1>3. RequestOK(d)' /\ \A e \in Dispatchers : e # d => claim'[e] = claim[e]
  <2>1. CASE Claim(d)
    <3>1. PICK l \in Leases :
            claim' = [claim EXCEPT ![d] = [Idle EXCEPT !.phase = "claimed", !.lease = l]]
      BY <2>1 DEF Claim
    <3>2. claim'[d].phase = "claimed" /\ \A e \in Dispatchers : e # d => claim'[e] = claim[e]
      BY <3>1, DispatcherTypes DEF Idle
    <3> QED BY <3>2, IdleIsOK
  <2>2. CASE Leaves(d)
    BY <2>2, LeavesIdle
  <2> QED BY <2>1, <2>2 DEF DeliveryFails, Crash
<1> QED BY <1>1, <1>2, <1>3, OneRequestMoves

\* A request to GitHub that changes one branch or opens its pull request.
LEMMA OneBranchMoves ==
  ASSUME PubInv, HeadInv, UNCHANGED coordinatorRows, UNCHANGED job, NEW k \in Leases,
         \A j \in Leases : j # k => remote'[j] = remote[j],
         BranchOK(k)',
         submission[k].state \in Waiting =>
           remote'[k].head \in {submission[k].head, Foreign},
         RequestsOK'
  PROVE  HeadInv'
<1>1. UNCHANGED lease /\ UNCHANGED submission /\ UNCHANGED work
  BY DEF coordinatorRows
<1>2. BranchesOK'
  <2> SUFFICES ASSUME NEW j \in Leases, j # k PROVE BranchOK(j)'
    BY DEF BranchesOK
  <2>1. BranchOK(j) /\ remote'[j] = remote[j]
    BY DEF HeadInv, BranchesOK
  <2> QED BY <1>1, <2>1 DEF BranchOK, Recorded, JobCommit
<1>3. RecordedHeads' /\ BasesOK' /\ NoneNewer'
  BY <1>1 DEF HeadInv, RecordedHeads, BasesOK, NoneNewer, Recorded, JobCommit, IsRevision
<1>4. HeadOnGitHub'
  BY <1>1 DEF HeadInv, HeadOnGitHub
<1> QED BY <1>2, <1>3, <1>4 DEF HeadInv

\* What the dispatcher goes on to rely on.
LEMMA ClaimMoves ==
  ASSUME PubInv, NEW d \in Dispatchers, NEW phase, Goes(d, phase)
  PROVE  /\ claim'[d].phase = phase /\ claim'[d].lease = claim[d].lease
         /\ claim'[d].pr = claim[d].pr /\ claim'[d].valid = claim[d].valid
         /\ \A e \in Dispatchers : e # d => claim'[e] = claim[e]
<1>1. claim \in [Dispatchers -> ClaimRows] /\ claim[d] \in ClaimRows
  BY DispatcherTypes
<1>2. claim'[d].phase = phase /\ claim'[d].lease = claim[d].lease
  BY <1>1 DEF ClaimRows, Goes
<1>3. claim'[d].pr = claim[d].pr /\ claim'[d].valid = claim[d].valid
  BY <1>1 DEF ClaimRows, Goes
<1>4. \A e \in Dispatchers : e # d => claim'[e] = claim[e]
  BY <1>1 DEF Goes
<1> QED BY <1>2, <1>3, <1>4

\* Where only branch k moves, and only from nothing, the other dispatchers may rely on
\* what they relied on.
LEMMA OthersStay ==
  ASSUME PubInv, HeadInv, UNCHANGED coordinatorRows, UNCHANGED job,
         NEW d \in Dispatchers, \A e \in Dispatchers : e # d => claim'[e] = claim[e],
         RequestOK(d)', NEW k \in Leases, ~Recorded(k),
         remote'[k].head # NoCommit,
         \A j \in Leases : j # k => remote'[j].head = remote[j].head
  PROVE  RequestsOK'
<1>1. UNCHANGED lease /\ UNCHANGED submission
  BY DEF coordinatorRows
<1> SUFFICES ASSUME NEW e \in Dispatchers, e # d PROVE RequestOK(e)'
  BY DEF RequestsOK
<1>2. RequestOK(e) /\ claim'[e] = claim[e] /\ ClaimOK(e)
  BY DEF HeadInv, RequestsOK, PubInv, ClaimsOK
<1>3. CASE claim[e].phase = "pr"
  <2>1. PICK j \in Leases : j = claim[e].pr
    BY <1>2, <1>3, ClaimKnown DEF ClaimOK
  <2>2. remote'[j].head # NoCommit
    BY <1>2, <1>3, <2>1 DEF RequestOK
  <2> QED BY <1>2, <1>3, <2>1, <2>2 DEF RequestOK
<1>4. CASE claim[e].phase \in {"update", "record"}
  <2>1. PICK l \in Leases : l = claim[e].lease
    BY <1>4, ClaimKnown
  <2>2. SubmissionsOf(lease[l].work)' = SubmissionsOf(lease[l].work)
        /\ JobCommit(l)' = JobCommit(l)
    BY <1>1 DEF SubmissionsOf, JobCommit
  <2>3. CASE claim[e].valid /\ lease[l].kind = "revision"
    <3>1. PICK j \in Leases : j = claim[e].pr /\ j \in SubmissionsOf(lease[l].work)
      BY <1>2, <1>4, <2>1, <2>3 DEF RequestOK, SubmissionsOf
    <3>2. remote'[j].head = remote[j].head
      BY <3>1, SubmissionsKnown
    <3> QED BY <1>1, <1>2, <1>4, <2>1, <2>2, <2>3, <3>1, <3>2 DEF RequestOK
  <2>4. CASE ~(claim[e].valid /\ lease[l].kind = "revision")
    BY <1>1, <1>2, <1>4, <2>1, <2>4 DEF RequestOK
  <2> QED BY <2>3, <2>4
<1>5. CASE claim[e].phase \notin {"pr", "update", "record"}
  BY <1>2, <1>5 DEF RequestOK
<1> QED BY <1>3, <1>4, <1>5

\* GitHub.publish creates the branch of a pull request that does not exist yet.
LEMMA PublishBranchHeads ==
  ASSUME PubInv, HeadInv, NEW d \in Dispatchers, PublishBranch(d)
  PROVE  HeadInv'
<1>1. PICK k \in Leases :
        /\ k = claim[d].pr /\ k = claim[d].lease /\ job[k].state # "none"
        /\ claim[d].phase = "branch" /\ Pushed(d) = JobCommit(k)
  BY ClaimKnown DEF PublishBranch, PubInv, ClaimsOK, ClaimOK, Pushed, JobCommit
<1>2. UNCHANGED coordinatorRows /\ UNCHANGED job /\ UNCHANGED lease /\ UNCHANGED submission
  BY DEF PublishBranch, vars, coordinatorRows
<1>3. /\ remote'[k].head = JobCommit(k) /\ remote'[k].pr = remote[k].pr
      /\ \A j \in Leases : j # k => remote'[j] = remote[j]
      /\ remote[k].head \in {NoCommit, JobCommit(k)}
  <2> DEFINE row == [remote[k] EXCEPT !.head = JobCommit(k)]
  <2>1. remote' = [remote EXCEPT ![k] = row]
    BY <1>1, DispatcherTypes DEF PublishBranch, IterationTypeOK
  <2>2. row.head = JobCommit(k) /\ row.pr = remote[k].pr
    BY DispatcherTypes DEF IterationTypeOK
  <2> HIDE DEF row
  <2>3. remote[k].head \in {NoCommit, JobCommit(k)}
    BY <1>1 DEF PublishBranch
  <2> QED BY <2>1, <2>2, <2>3, DispatcherTypes DEF IterationTypeOK
<1>4. /\ claim'[d].phase = "pr" /\ claim'[d].pr = k
      /\ \A e \in Dispatchers : e # d => claim'[e] = claim[e]
  <2>1. Goes(d, "pr")
    BY DEF PublishBranch
  <2> QED BY <1>1, <2>1, ClaimMoves
<1>5. RequestOK(d)'
  BY <1>3, <1>4, CommitsDiffer DEF RequestOK
<1>6. CASE remote[k].head = JobCommit(k)
  <2>1. \A j \in Leases : /\ remote'[j].pr # "none" => remote[j].pr # "none"
                          /\ remote'[j].head = remote[j].head
    BY <1>3, <1>6
  <2>2. JobsStay
    BY <1>2 DEF JobsStay
  <2> QED BY <1>2, <1>4, <1>5, <2>1, <2>2, OneRequestMoves
<1>7. CASE remote[k].head = NoCommit
  <2>1. ~Recorded(k) /\ submission[k].state \notin Waiting
    BY <1>7, JobsBorn DEF HeadInv, BranchesOK, BranchOK, Recorded, Waiting
  <2>2. RequestsOK'
    <3>1. remote'[k].head # NoCommit
      BY <1>3, CommitsDiffer
    <3>2. \A j \in Leases : j # k => remote'[j].head = remote[j].head
      BY <1>3
    <3> QED BY <1>2, <1>4, <1>5, <2>1, <3>1, <3>2, OthersStay
  <2>3. BranchOK(k)'
    <3>1. JobCommit(k)' = JobCommit(k)
      BY <1>2 DEF JobCommit
    <3> QED BY <1>1, <1>2, <1>3, <3>1, CommitsDiffer DEF BranchOK
  <2>4. \A j \in Leases : j # k => remote'[j] = remote[j]
    BY <1>3
  <2> QED BY <1>2, <2>1, <2>2, <2>3, <2>4, OneBranchMoves
<1> QED BY <1>3, <1>6, <1>7

LEMMA PublishPullRequestHeads ==
  ASSUME PubInv, HeadInv, NEW d \in Dispatchers, PublishPullRequest(d)
  PROVE  HeadInv'
<1>1. PICK k \in Leases :
        /\ k = claim[d].pr /\ k = claim[d].lease
        /\ claim[d].phase = "pr" /\ lease[k].kind = "initial"
  BY ClaimKnown DEF PublishPullRequest, PubInv, ClaimsOK, ClaimOK
<1>2. UNCHANGED coordinatorRows /\ UNCHANGED job /\ UNCHANGED lease /\ UNCHANGED submission
  BY DEF PublishPullRequest, vars, coordinatorRows
<1>3. /\ claim'[d].phase = "record" /\ claim'[d].lease = k
      /\ \A e \in Dispatchers : e # d => claim'[e] = claim[e]
  <2>1. Goes(d, "record")
    BY DEF PublishPullRequest
  <2> QED BY <1>1, <2>1, ClaimMoves
<1>4. RequestOK(d)'
  BY <1>1, <1>2, <1>3 DEF RequestOK
<1>5. JobsStay
  BY <1>2 DEF JobsStay
<1>6. CASE UNCHANGED remote
  <2>1. \A j \in Leases : /\ remote'[j].pr # "none" => remote[j].pr # "none"
                          /\ remote'[j].head = remote[j].head
    BY <1>6
  <2> QED BY <1>2, <1>3, <1>4, <1>5, <2>1, OneRequestMoves
<1>7. CASE remote[k].pr = "none" /\ remote' = [remote EXCEPT ![k].pr = "open"]
  <2>1. /\ \A j \in Leases : remote'[j].head = remote[j].head
        /\ \A j \in Leases : j # k => remote'[j] = remote[j]
    BY <1>7, DispatcherTypes DEF IterationTypeOK
  <2>2. remote[k].head # NoCommit /\ BranchOK(k)
    BY <1>1 DEF HeadInv, RequestsOK, RequestOK, BranchesOK
  <2>3. BranchOK(k)'
    BY <1>2, <2>1, <2>2 DEF BranchOK, Recorded, JobCommit
  <2>4. submission[k].state \in Waiting => remote'[k].head \in {submission[k].head, Foreign}
    BY <2>1 DEF HeadInv, HeadOnGitHub
  <2>5. RequestsOK'
    <3>1. Carried /\ JobsCarried
      BY <1>2 DEF Carried, JobsCarried
    <3>2. \A j \in Leases : Recorded(j) => Recorded(j)'
      BY <1>2 DEF Recorded
    <3>3. \A j \in Leases : remote'[j].head \in {remote[j].head, Foreign}
      BY <2>1
    <3>4. ASSUME NEW e \in Dispatchers, e # d PROVE RequestOK(e)'
      <4>1. claim'[e] = claim[e]
        BY <1>3, <3>4
      <4> QED BY <3>1, <3>2, <3>3, <4>1, RequestStays
    <3> QED BY <1>4, <3>4 DEF RequestsOK
  <2>6. \A j \in Leases : j # k => remote'[j] = remote[j]
    BY <2>1
  <2> QED BY <1>2, <2>3, <2>4, <2>5, <2>6, OneBranchMoves
<1> QED BY <1>1, <1>6, <1>7 DEF PublishPullRequest

\* GitHub.update_submission_branch fast-forwards from the commit the revision started
\* from, or from an earlier one of its own; so what waits for a review stays.
LEMMA UpdateBranchHeads ==
  ASSUME PubInv, HeadInv, NEW d \in Dispatchers, UpdateBranch(d)
  PROVE  HeadInv'
<1>1. PICK l \in Leases :
        /\ l = claim[d].lease /\ job[l].state # "none" /\ lease[l].state # "none"
        /\ claim[d].phase = "update" /\ Pushed(d) = JobCommit(l)
        /\ lease[l].kind = "revision" /\ claim[d].valid
        /\ claim[d].pr \in SubmissionsOf(lease[l].work)
  BY ClaimKnown, JobsBorn
     DEF UpdateBranch, PubInv, ClaimsOK, ClaimOK, Pushed, JobCommit, HeadInv, RequestsOK,
         RequestOK
<1>2. PICK k \in Leases :
        k = claim[d].pr /\ Recorded(k) /\ lease[k].work = lease[l].work
  BY <1>1, SubmissionsKnown
<1>3. UNCHANGED coordinatorRows /\ UNCHANGED job /\ UNCHANGED lease /\ UNCHANGED submission
  BY DEF UpdateBranch, vars, coordinatorRows
<1>4. /\ remote'[k].head = JobCommit(l) /\ remote'[k].pr = remote[k].pr
      /\ \A j \in Leases : j # k => remote'[j] = remote[j]
  <2> DEFINE row == [remote[k] EXCEPT !.head = JobCommit(l)]
  <2>1. remote' = [remote EXCEPT ![k] = row]
    BY <1>1, <1>2, DispatcherTypes DEF UpdateBranch, IterationTypeOK
  <2>2. row.head = JobCommit(l) /\ row.pr = remote[k].pr
    BY DispatcherTypes DEF IterationTypeOK
  <2> HIDE DEF row
  <2> QED BY <2>1, <2>2, DispatcherTypes DEF IterationTypeOK
<1>5. /\ claim'[d].phase = "record" /\ claim'[d].lease = l /\ claim'[d].pr = k
      /\ \A e \in Dispatchers : e # d => claim'[e] = claim[e]
  <2>1. Goes(d, "record")
    BY DEF UpdateBranch
  <2> QED BY <1>1, <1>2, <2>1, ClaimMoves
<1>6. JobCommit(l)' = JobCommit(l) /\ \A w : SubmissionsOf(w)' = SubmissionsOf(w)
  BY <1>3 DEF JobCommit, SubmissionsOf
<1>7. IsRevision(l) /\ lease[l].base[1] \in 1..(l - 1)
  BY <1>1 DEF IsRevision, HeadInv, BasesOK
<1>8. \/ remote[k].head = lease[l].base
      \/ remote[k].head[1] = l
  BY <1>1, <1>2, CommitsDiffer DEF UpdateBranch, DescendsFrom
<1>9. remote[k].head # Foreign
  BY <1>7, <1>8, CommitsDiffer DEF NoLease, Leases
<1>10. remote[k].head[1] \in Nat /\ remote[k].head[1] <= l
  BY <1>7, <1>8 DEF Leases
<1>11. RequestOK(d)'
  BY <1>1, <1>2, <1>3, <1>4, <1>5, <1>6 DEF RequestOK
<1>12. RequestsOK'
  <2> SUFFICES ASSUME NEW e \in Dispatchers, e # d PROVE RequestOK(e)'
    BY <1>11 DEF RequestsOK
  <2>1. RequestOK(e) /\ claim'[e] = claim[e] /\ ClaimOK(e)
    BY <1>5 DEF HeadInv, RequestsOK, PubInv, ClaimsOK
  <2>2. CASE claim[e].phase = "pr"
    <3>1. PICK j \in Leases : j = claim[e].pr
      BY <2>1, <2>2, ClaimKnown DEF ClaimOK
    <3>2. remote'[j].head # NoCommit
      BY <1>4, <2>1, <2>2, <3>1, CommitsDiffer DEF RequestOK
    <3> QED BY <2>1, <2>2, <3>1, <3>2 DEF RequestOK
  <2>3. CASE claim[e].phase \in {"update", "record"}
    <3>1. PICK i \in Leases : i = claim[e].lease
      BY <2>3, ClaimKnown
    <3>2. JobCommit(i)' = JobCommit(i)
      BY <1>3 DEF JobCommit
    <3>3. CASE claim[e].valid /\ lease[i].kind = "revision"
      <4>1. PICK j \in Leases : j = claim[e].pr /\ j \in SubmissionsOf(lease[i].work)
        BY <2>1, <2>3, <3>1, <3>3 DEF RequestOK, SubmissionsOf
      <4>2. claim[e].phase = "record" =>
              \/ remote'[j].head \in {JobCommit(i), Foreign}
              \/ remote'[j].head[1] > i
        <5> SUFFICES ASSUME claim[e].phase = "record", j = k
                     PROVE  \/ remote'[j].head \in {JobCommit(i), Foreign}
                            \/ remote'[j].head[1] > i
          BY <1>4, <2>1, <3>1, <3>3, <4>1 DEF RequestOK
        <5>1. remote[k].head = JobCommit(i) \/ remote[k].head[1] > i
          BY <1>9, <2>1, <3>1, <3>3, <4>1 DEF RequestOK
        <5>2. i <= l
          BY <1>10, <5>1, CommitsDiffer DEF Leases
        <5> QED BY <1>4, <5>2, CommitsDiffer DEF Leases
      <4> QED BY <1>3, <1>6, <2>1, <2>3, <3>1, <3>2, <3>3, <4>1, <4>2 DEF RequestOK
    <3>4. CASE ~(claim[e].valid /\ lease[i].kind = "revision")
      BY <1>3, <2>1, <2>3, <3>1, <3>4 DEF RequestOK
    <3> QED BY <3>3, <3>4
  <2>4. CASE claim[e].phase \notin {"pr", "update", "record"}
    BY <2>1, <2>4 DEF RequestOK
  <2> QED BY <2>2, <2>3, <2>4
<1>13. BranchOK(k)'
  BY <1>2, <1>3, <1>4, CommitsDiffer DEF BranchOK, Recorded
<1>14. ASSUME submission[k].state \in Waiting
       PROVE  remote'[k].head \in {submission[k].head, Foreign}
  <2>1. remote[k].head = submission[k].head
    BY <1>9, <1>14 DEF HeadInv, HeadOnGitHub
  <2>2. l <= submission[k].head[1]
    BY <1>2, <1>7, <1>14 DEF HeadInv, NoneNewer
  <2>3. submission[k].head[1] = l
    BY <1>7, <1>8, <2>1, <2>2 DEF Leases
  <2>4. PICK m \in Leases : submission[k].head = JobCommit(m)
    BY <1>2 DEF HeadInv, RecordedHeads
  <2> QED BY <1>4, <2>3, <2>4, CommitsDiffer
<1>15. \A j \in Leases : j # k => remote'[j] = remote[j]
  BY <1>4
<1> QED BY <1>3, <1>12, <1>13, <1>14, <1>15, OneBranchMoves
-----------------------------------------------------------------------------
(* The heads under the record of an outcome *)

\* A row whose head becomes that of lease l's job, which is on the branch, and newer than
\* every revision of the issue.
LEMMA OneHeadRecorded ==
  ASSUME PubInv, HeadInv, Carried, JobsCarried, BasesCarried,
         \A j \in Leases : lease'[j].state # "none" => lease[j].state # "none",
         UNCHANGED remote, \A e \in Dispatchers : claim'[e] = claim[e] \/ RequestOK(e)',
         NEW l \in Leases, job[l].state # "none",
         NEW k \in Leases, lease[k].state # "none",
         submission'[k].state # "none", submission'[k].head = JobCommit(l),
         \A j \in Leases : j # k => submission'[j] = submission[j],
         remote[k].head \in {JobCommit(l), Foreign},
         \A r \in Leases : IsRevision(r) /\ lease[r].work = lease[k].work => r <= l
  PROVE  HeadInv'
<1>1. \A j \in Leases : Recorded(j) => Recorded(j)'
  BY DEF Recorded
<1>2. /\ \A j \in Leases : remote'[j].head \in {remote[j].head, Foreign}
      /\ \A j \in Leases : remote'[j].pr # "none" => remote[j].pr # "none"
  OBVIOUS
<1>3. BranchesOK'
  BY <1>1, <1>2, BranchStays DEF BranchesOK
<1>4. RequestsOK'
  BY <1>1, <1>2, RequestStays DEF RequestsOK
<1>5. \A j \in Leases : job[j].state # "none" =>
        job'[j].state # "none" /\ JobCommit(j)' = JobCommit(j)
  BY DEF JobsCarried, JobCommit
<1>6. RecordedHeads'
  <2> SUFFICES ASSUME NEW j \in Leases, Recorded(j)'
               PROVE  \E m \in Leases : job'[m].state # "none"
                                        /\ submission'[j].head = JobCommit(m)'
    BY DEF RecordedHeads
  <2>1. CASE j = k
    BY <1>5, <2>1
  <2>2. CASE j # k
    <3>1. Recorded(j) /\ submission'[j].head = submission[j].head
      BY <2>2 DEF Recorded
    <3>2. PICK m \in Leases : job[m].state # "none" /\ submission[j].head = JobCommit(m)
      BY <3>1 DEF HeadInv, RecordedHeads
    <3> QED BY <1>5, <3>1, <3>2
  <2> QED BY <2>1, <2>2
<1>7. \A r \in Leases : IsRevision(r)' => IsRevision(r) /\ lease'[r].work = lease[r].work
  BY DEF IsRevision, Carried
<1>8. BasesOK'
  BY <1>7 DEF HeadInv, BasesOK, BasesCarried, IsRevision
<1>9. NoneNewer'
  <2> SUFFICES ASSUME NEW j \in Leases, NEW r \in Leases, submission'[j].state \in Waiting,
                      IsRevision(r)', lease'[r].work = lease'[j].work
               PROVE  r <= submission'[j].head[1]
    BY DEF NoneNewer
  <2>1. CASE j = k
    <3>1. lease'[k].work = lease[k].work
      BY DEF Carried
    <3> QED BY <1>7, <2>1, <3>1, CommitsDiffer
  <2>2. CASE j # k
    <3>1. submission'[j] = submission[j] /\ lease[j].state # "none"
      BY <2>2, JobsBorn DEF Recorded, Waiting
    <3>2. lease'[j].work = lease[j].work
      BY <3>1 DEF Carried
    <3> QED BY <1>7, <3>1, <3>2 DEF HeadInv, NoneNewer
  <2> QED BY <2>1, <2>2
<1>10. HeadOnGitHub'
  BY DEF HeadInv, HeadOnGitHub
<1> QED BY <1>3, <1>4, <1>6, <1>8, <1>9, <1>10 DEF HeadInv

\* Whether the lease is submitted or left, its base and kind stay.
LEMMA SubmitBases ==
  ASSUME PubInv, NEW l \in Leases, lease[l].state # "none",
         (StillPublishing(l) /\ Submit(l)) \/ UNCHANGED <<lease, work>>
  PROVE  BasesCarried /\ \A j \in Leases : lease'[j].state # "none" => lease[j].state # "none"
<1>1. CASE UNCHANGED lease
  BY <1>1 DEF BasesCarried
<1>2. CASE StillPublishing(l) /\ Submit(l)
  <2>1. \A j \in Leases : j # l => lease'[j] = lease[j]
    BY <1>2, SubmitCarries
  <2>2. lease'[l].base = lease[l].base
    BY <1>2 DEF Submit, PubInv, CInv, TypeOK, LeaseRows
  <2> QED BY <2>1, <2>2 DEF BasesCarried
<1> QED BY <1>1, <1>2

\* The row of a new pull request shows the commit that opened it.
LEMMA RecordPublishHeads ==
  ASSUME PubInv, RoundInv, OnePullRequest', HeadInv, Carried, JobsCarried, NEW d \in Dispatchers,
         Record(d), NEW l \in Leases, l = claim[d].lease, claim[d].valid,
         lease[l].kind = "initial", RecordPublish(l)
  PROVE  HeadInv'
<1>0. /\ TypeOK /\ UNCHANGED remote /\ job[l].state # "none" /\ lease[l].state # "none"
      /\ claim[d].phase = "record"
  BY ClaimKnown, JobsBorn DEF Record, PubInv, CInv, iterationVars
<1>1. BasesCarried /\ \A j \in Leases : lease'[j].state # "none" => lease[j].state # "none"
  <2>1. (StillPublishing(l) /\ Submit(l)) \/ UNCHANGED <<lease, work>>
    BY DEF RecordPublish
  <2> QED BY <1>0, <2>1, SubmitBases
<1>2. \A e \in Dispatchers : claim'[e] = claim[e] \/ RequestOK(e)'
  BY LeavesIdle DEF Record
<1>3. CASE UNCHANGED submission
  <2>1. SubmissionsStay
    BY <1>3 DEF SubmissionsStay
  <2>2. RevisionsBegin
    BY <1>1, NoneBegins
  <2>3. /\ \A k \in Leases : submission'[k].state \in Waiting => submission[k].state \in Waiting
        /\ \A k \in Leases : /\ remote'[k].pr # "none" => remote[k].pr # "none"
                             /\ remote'[k].head \in {remote[k].head, Foreign}
    BY <1>0, <1>3
  <2> QED BY <1>1, <1>2, <2>1, <2>2, <2>3, HeadsFrame
<1>4. ASSUME submission[l].state = "none",
             submission' = [submission EXCEPT ![l] = [state |-> "open", head |-> <<l, job[l].sha>>,
                                                      round |-> 1, since |-> 0]]
      PROVE  HeadInv'
  <2>1. /\ submission'[l].state # "none" /\ submission'[l].head = JobCommit(l)
        /\ \A j \in Leases : j # l => submission'[j] = submission[j]
    BY <1>0, <1>4 DEF TypeOK, JobCommit
  <2>2. remote[l].head \in {JobCommit(l), Foreign}
    <3>1. remote[l].pr # "none"
      BY <1>0 DEF PubInv, ClaimsOK, ClaimOK
    <3> QED BY <1>4, <3>1 DEF HeadInv, BranchesOK, BranchOK, Recorded
  <2>3. ASSUME NEW r \in Leases, IsRevision(r), lease[r].work = lease[l].work
        PROVE  FALSE
    <3>1. PICK j \in SubmissionsOf(lease[r].work) : TRUE
      BY <2>3 DEF RoundInv, RevisionsRecorded, IsRevision
    <3>2. j \in Leases /\ Recorded(j) /\ lease[j].work = lease[r].work /\ lease[j].state # "none"
      BY <3>1, SubmissionsKnown
    <3>3. j # l
      BY <1>4, <3>2 DEF Recorded
    <3>4. Recorded(j)' /\ Recorded(l)'
      BY <2>1, <3>2, <3>3 DEF Recorded
    <3>5. lease'[j].work = lease'[l].work
      BY <1>0, <2>3, <3>2 DEF Carried
    <3> QED BY <3>2, <3>3, <3>4, <3>5 DEF OnePullRequest
  <2>4. \A r \in Leases : IsRevision(r) /\ lease[r].work = lease[l].work => r <= l
    BY <2>3
  <2> QED BY <1>0, <1>1, <1>2, <2>1, <2>2, <2>4, OneHeadRecorded
<1> QED BY <1>3, <1>4 DEF RecordPublish

\* The row of an updated pull request shows the commit of its last revision.
LEMMA RecordUpdateHeads ==
  ASSUME PubInv, OnePullRequest, HeadInv, Carried, JobsCarried, NEW d \in Dispatchers,
         Record(d), NEW l \in Leases, l = claim[d].lease, claim[d].valid,
         lease[l].kind = "revision", RecordUpdate(l), StillPublishing(l)
  PROVE  HeadInv'
<1>0. /\ TypeOK /\ UNCHANGED remote /\ job[l].state # "none" /\ lease[l].state # "none"
      /\ claim[d].phase = "record" /\ Submit(l)
  BY ClaimKnown, JobsBorn DEF Record, PubInv, CInv, iterationVars, RecordUpdate
<1>1. BasesCarried /\ \A j \in Leases : lease'[j].state # "none" => lease[j].state # "none"
  BY <1>0, SubmitBases
<1>2. \A e \in Dispatchers : claim'[e] = claim[e] \/ RequestOK(e)'
  BY LeavesIdle DEF Record
<1>3. PICK w \in Works : w = lease[l].work
  BY <1>0 DEF PubInv, CInv, Safe, Born
<1>4. PICK k \in SubmissionsOf(w) :
        submission' = [submission EXCEPT ![k].state = "awaiting_rereview",
                         ![k].head = <<l, job[l].sha>>, ![k].round = @ + 1, ![k].since = 0]
  BY <1>3 DEF RecordUpdate
<1>5. k \in Leases /\ Recorded(k) /\ lease[k].work = w /\ lease[k].state # "none"
  BY SubmissionsKnown
<1>6. /\ submission'[k].state # "none" /\ submission'[k].head = JobCommit(l)
      /\ \A j \in Leases : j # k => submission'[j] = submission[j]
  <2> DEFINE row == [submission[k] EXCEPT !.state = "awaiting_rereview",
                       !.head = <<l, job[l].sha>>, !.round = submission[k].round + 1,
                       !.since = 0]
  <2>1. submission \in [Leases -> SubmissionRows] /\ submission[k] \in SubmissionRows
    BY <1>0, <1>5 DEF TypeOK
  <2>2. submission' = [submission EXCEPT ![k] = row]
    BY <1>4, <1>5, <2>1
  <2>3. row.state = "awaiting_rereview" /\ row.head = JobCommit(l)
    BY <2>1 DEF SubmissionRows, JobCommit
  <2> HIDE DEF row
  <2> QED BY <1>5, <2>1, <2>2, <2>3
<1>7. \A r \in Leases : lease[r].state # "none" /\ lease[r].work = w => r <= l
  <2>1. work[w].active = l /\ l # NoLease
    BY <1>3 DEF StillPublishing, NoLease, Leases
  <2> QED BY <2>1 DEF PubInv, InOrder, LeasesOf
<1>8. remote[k].head \in {JobCommit(l), Foreign}
  <2>1. claim[d].pr \in SubmissionsOf(w)
    BY <1>0, <1>3 DEF HeadInv, RequestsOK, RequestOK
  <2>2. claim[d].pr = k
    BY <2>1, OneSubmissionOf
  <2>3. remote[k].head \in {JobCommit(l), Foreign} \/ remote[k].head[1] > l
    BY <1>0, <2>2 DEF HeadInv, RequestsOK, RequestOK
  <2>4. ASSUME remote[k].head[1] > l PROVE remote[k].head \in {JobCommit(l), Foreign}
    <3>1. remote[k].head # NoCommit
      BY <2>4, CommitsDiffer DEF NoLease, Leases
    <3>2. CASE remote[k].head \notin {NoCommit, Foreign}
      <4>1. PICK m \in Leases : job[m].state # "none" /\ remote[k].head = JobCommit(m)
        BY <1>5, <3>2, JobsBorn
      <4>2. remote[k].head[1] = m /\ lease[m].state # "none"
        BY <4>1, CommitsDiffer, JobsBorn
      <4>3. lease[m].work = w
        BY <1>5, <3>2, <4>2 DEF HeadInv, BranchesOK, BranchOK
      <4>4. m <= l
        BY <1>7, <4>2, <4>3
      <4> QED BY <2>4, <4>2, <4>4 DEF Leases
    <3> QED BY <3>1, <3>2
  <2> QED BY <2>3, <2>4
<1>9. \A r \in Leases : IsRevision(r) /\ lease[r].work = lease[k].work => r <= l
  BY <1>5, <1>7 DEF IsRevision
<1> QED BY <1>0, <1>1, <1>2, <1>5, <1>6, <1>8, <1>9, OneHeadRecorded

LEMMA RecordHeads ==
  ASSUME PubInv, RoundInv, OnePullRequest, OnePullRequest', HeadInv, Carried,
         NEW d \in Dispatchers, Record(d)
  PROVE  HeadInv'
<1>1. PICK l \in Leases : l = claim[d].lease /\ job[l].state # "none"
  BY ClaimKnown DEF Record
<1>2. JobsStay
  <2>1. \/ UNCHANGED job
        \/ \E s \in {"done", "cancelled"} : job' = [job EXCEPT ![l].state = s]
    BY <1>1 DEF Record, workVars
  <2> QED BY <1>1, <2>1, DispatcherTypes DEF JobsStay, JobRows
<1>3. JobsCarried
  BY <1>2 DEF JobsStay, JobsCarried
<1>4. UNCHANGED remote
  BY DEF Record, iterationVars
<1>5. CASE UNCHANGED <<lease, work, submission>>
  <2>1. UNCHANGED coordinatorRows
    BY <1>5 DEF Record, workVars, peopleVars, coordinatorRows
  <2>2. RequestOK(d)' /\ \A e \in Dispatchers : e # d => claim'[e] = claim[e]
    BY LeavesIdle DEF Record
  <2> QED BY <1>2, <1>4, <2>1, <2>2, OneRequestMoves
<1>6. CASE claim[d].valid /\ lease[l].kind = "initial" /\ RecordPublish(l)
  BY <1>1, <1>3, <1>6, RecordPublishHeads
<1>7. CASE claim[d].valid /\ lease[l].kind = "revision" /\ RecordUpdate(l)
  <2>1. CASE StillPublishing(l)
    BY <1>1, <1>3, <1>7, <2>1, RecordUpdateHeads
  <2>2. CASE ~StillPublishing(l)
    BY <1>5, <1>7, <2>2 DEF RecordUpdate
  <2> QED BY <2>1, <2>2
<1>8. \/ UNCHANGED <<lease, work, submission>>
      \/ claim[d].valid /\ lease[l].kind = "initial" /\ RecordPublish(l)
      \/ claim[d].valid /\ lease[l].kind = "revision" /\ RecordUpdate(l)
  BY <1>1 DEF Record, workVars
<1> QED BY <1>5, <1>6, <1>7, <1>8
-----------------------------------------------------------------------------
(* The heads of the system *)

LEMMA SystemNextHeads ==
  ASSUME PubInv, RoundInv, OnePullRequest, OnePullRequest', HeadInv, [SystemNext]_systemVars
  PROVE  HeadInv'
<1>1. Carried
  BY SystemNextKeeps, SystemStutters
<1>2. LegalRounds
  BY SystemNextRounds
<1>3. CASE Next /\ UNCHANGED <<iterationVars, publicationVars>>
  BY <1>1, <1>2, <1>3, NextHeads
<1>4. CASE GitHubStep /\ UNCHANGED publicationVars
  BY <1>4, GitHubHeads
<1>5. CASE WebhookStep /\ UNCHANGED publicationVars
  BY <1>1, <1>2, <1>5, WebhookHeads
<1>6. ASSUME NEW d \in Dispatchers, DispatcherStep(d) PROVE HeadInv'
  BY <1>1, <1>6, QuietDispatcherHeads, PrepareHeads, PublishBranchHeads,
     PublishPullRequestHeads, UpdateBranchHeads, RecordHeads DEF DispatcherStep, Delivery
<1>7. ASSUME UNCHANGED coordinatorRows, JobsStay, UNCHANGED remote, UNCHANGED claim
      PROVE  HeadInv'
  BY <1>7, RowsHeads
<1>8. ASSUME NEW l \in Leases, LockLapses(l) \/ \E u \in Retriers : Retry(u, l)
      PROVE  HeadInv'
  <2>1. CASE LockLapses(l)
    BY <1>7, <2>1 DEF LockLapses, vars, coordinatorRows, iterationVars, JobsStay
  <2>2. CASE \E u \in Retriers : Retry(u, l)
    <3>1. JobsStay
      BY <2>2, DispatcherTypes DEF Retry, JobsStay, JobRows
    <3> QED BY <1>7, <2>2, <3>1 DEF Retry, peopleVars, coordinatorRows, iterationVars
  <2> QED BY <1>8, <2>1, <2>2
<1>9. CASE UNCHANGED systemVars
  BY <1>7, <1>9 DEF systemVars, vars, coordinatorRows, iterationVars, publicationVars, JobsStay
<1> QED BY <1>3, <1>4, <1>5, <1>6, <1>8, <1>9 DEF SystemNext

LEMMA HeadsStart == SystemInit => HeadInv
BY DEF SystemInit, Init, IterationInit, UnbornLease, Idle, HeadInv, BranchesOK, BranchOK,
       RecordedHeads, Recorded, BasesOK, IsRevision, NoneNewer, Waiting, HeadOnGitHub,
       RequestsOK, RequestOK

\* While no issue has two pull requests, the head that a submission records while it waits
\* for a review is the commit on its branch, whatever was retried, lapsed or raced, unless
\* outsiders pushed to it.
THEOREM HeadsAreOnGitHub == SystemSpec /\ []OnePullRequest => []HeadInv
<1>1. PubInv /\ RoundInv /\ OnePullRequest /\ OnePullRequest' /\ HeadInv
        /\ [SystemNext]_systemVars => HeadInv'
  BY SystemNextHeads
<1> QED BY SystemInvariance, RoundsAreUnderWay, HeadsStart, <1>1, PTL DEF SystemSpec

\* So the review that approves a submission was of the commit that its pull request has.
THEOREM ApprovalsAreOfTheHead == SystemSpec /\ []OnePullRequest => ApprovalIsOfTheHead
<1>1. ASSUME HeadInv, LegalRounds, NEW k \in Leases,
             submission[k].state # "approved", submission'[k].state = "approved"
      PROVE  \E m \in webhooks \ webhooks' :
               /\ m.type = "approved" /\ m.pr = k
               /\ \/ remote[k].head \in {m.head, Foreign}
                  \/ Hook("synchronize", k, remote[k].head) \in webhooks
  <2>1. /\ submission[k].state \in Waiting
        /\ \E m \in webhooks \ webhooks' : ApprovedBy(k, m)
    BY <1>1 DEF LegalRounds, Legal, Waiting
  <2>2. remote[k].head \in {submission[k].head, Foreign}
    BY <1>1, <2>1 DEF HeadInv, HeadOnGitHub
  <2> QED BY <2>1, <2>2 DEF ApprovedBy
<1>2. HeadInv /\ LegalRounds =>
        \A k \in Leases : submission[k].state # "approved" /\ submission'[k].state = "approved" =>
          \E m \in webhooks \ webhooks' :
            /\ m.type = "approved" /\ m.pr = k
            /\ \/ remote[k].head \in {m.head, Foreign}
               \/ Hook("synchronize", k, remote[k].head) \in webhooks
  BY <1>1
<1>3. HeadInv /\ [LegalRounds]_systemVars =>
        [\A k \in Leases : submission[k].state # "approved" /\ submission'[k].state = "approved" =>
           \E m \in webhooks \ webhooks' :
             /\ m.type = "approved" /\ m.pr = k
             /\ \/ remote[k].head \in {m.head, Foreign}
                \/ Hook("synchronize", k, remote[k].head) \in webhooks]_systemVars
  BY <1>2
<1> QED BY HeadsAreOnGitHub, RoundsAreLegal, <1>3, PTL DEF ApprovalIsOfTheHead
-----------------------------------------------------------------------------
(* What the coordinator's governance is worth in the whole system.  The webhooks and the *)
(* dispatchers write lease rows beside the coordinator, but never an account, and never  *)
(* a state in which a lease runs, waits to recover or is published.                      *)

\* A webhook or a dispatcher writes q over the row r of a lease: the evidence, the
\* approvals and the account stay, and the state, if it changes, is an end.
Passes(r, q) ==
  /\ q.device = r.device /\ q.reservation = r.reservation /\ q.settled = r.settled
  /\ q.reviewed = r.reviewed /\ q.sha = r.sha
  /\ q.approved = r.approved /\ q.maintainer = r.maintainer
  /\ \/ q.state = r.state /\ q.age = r.age /\ q.dibLeft = r.dibLeft
     \/ q.state \notin Active \cup {"none", "reassigned"}

Passing ==
  /\ UNCHANGED <<project, ledger, member, device, txn>> /\ JobsStay
  /\ \A l \in Leases : Passes(lease[l], lease'[l])
  /\ \A w \in Works : work'[w].checkpoint = work[w].checkpoint

\* What a step of the whole system does to the core, and that the action properties
\* allow it.
CoreKept == Core' /\ HandsOverLate /\ ChargesUnknown /\ Fenced

LEMMA PassingKeepsCore ==
  ASSUME CInv, Core, Passing
  PROVE  CoreKept
<1>1. \A l \in Leases : Passes(lease[l], lease'[l])
  BY DEF Passing
<1>2. UNCHANGED <<project, ledger, member, device, txn>> /\ JobsStay
  BY DEF Passing
<1>3. "none" \notin Active /\ "dibbed" \in Active /\ "publishing" \in Active
      /\ "running" \in Active
  BY DEF Active
<1>4. UnbornRows' /\ Unsettled'
  BY <1>1, <1>3 DEF Core, UnbornRows, Unsettled, Passes
<1>5. ReservationLedger'
  <2>1. LedgerSum(lease') = LedgerSum(lease)
    BY <1>1, SumStays DEF Passes
  <2> QED BY <2>1, <1>2, LedgerInv, LedgerInvNext DEF Core
<1>6. Windows'
  BY <1>1, <1>3 DEF Core, Windows, WindowOK, Passes
<1>7. Approved' /\ Queued'
  BY <1>1, <1>2 DEF Core, Approved, ApprovalOK, Queued, Passes, JobsStay
<1>8. TxnLeases'
  BY <1>2 DEF Core, TxnLeases
<1>9. RunningIsAuthorised'
  <2>1. \A l \in Leases : lease'[l].state \in Active =>
          lease'[l].state = lease[l].state /\ lease'[l].device = lease[l].device
    BY <1>1 DEF Passes
  <2> QED BY <1>2, <2>1, AuthorityStays DEF Core
<1>10. PublishingIsApproved'
  <2>1. \A l \in Leases : lease'[l].state = "publishing" => lease[l].state = "publishing"
    BY <1>1, <1>3 DEF Passes
  <2> QED BY <1>1, <1>2, <2>1 DEF Core, PublishingIsApproved, Passes, JobsStay
<1>11. HandsOverLate
  BY <1>1 DEF HandsOverLate, Passes
<1>12. ChargesUnknown
  BY <1>1 DEF ChargesUnknown, Passes
<1>13. Fenced
  BY DEF Fenced, Passing
<1> QED BY <1>4, <1>5, <1>6, <1>7, <1>8, <1>9, <1>10, <1>11, <1>12, <1>13 DEF Core, CoreKept

\* A step that writes no row of the coordinator but jobs.
LEMMA JobsPass ==
  ASSUME UNCHANGED coordinatorRows, JobsStay
  PROVE  Passing
BY DEF coordinatorRows, Passing, Passes

LEMMA NothingPasses ==
  ASSUME UNCHANGED vars
  PROVE  Passing
<1>1. UNCHANGED coordinatorRows /\ JobsStay
  BY DEF vars, coordinatorRows, JobsStay
<1> QED BY <1>1, JobsPass

\* One job changes its state.
LEMMA OneJobStays ==
  ASSUME PubInv, NEW l \in Leases, job[l].state # "none", NEW s, s # "none",
         job' = [job EXCEPT ![l].state = s]
  PROVE  JobsStay
BY DispatcherTypes DEF JobsStay, JobRows

LEMMA DispatcherPasses ==
  ASSUME PubInv, NEW d \in Dispatchers,
         Claim(d) \/ Prepare(d) \/ PublishBranch(d) \/ PublishPullRequest(d)
           \/ UpdateBranch(d) \/ DeliveryFails(d) \/ Crash(d)
  PROVE  Passing
<1>1. CASE Prepare(d) \/ PublishBranch(d) \/ PublishPullRequest(d) \/ UpdateBranch(d) \/ Crash(d)
  <2>1. UNCHANGED vars
    BY <1>1 DEF Prepare, PublishBranch, PublishPullRequest, UpdateBranch, Crash
  <2> QED BY <2>1, NothingPasses
<1>2. CASE Claim(d)
  <2>1. UNCHANGED coordinatorRows
    BY <1>2 DEF Claim, peopleVars, coordinatorRows
  <2>2. PICK l \in Leases : job[l].state \in {"pending", "working"}
                            /\ job' = [job EXCEPT ![l].state = "working"]
    BY <1>2 DEF Claim
  <2>3. JobsStay
    BY <2>2, OneJobStays
  <2> QED BY <2>1, <2>3, JobsPass
<1>3. CASE DeliveryFails(d)
  <2>1. UNCHANGED coordinatorRows
    BY <1>3 DEF DeliveryFails, peopleVars, coordinatorRows
  <2>2. PICK l \in Leases : l = claim[d].lease /\ job[l].state # "none"
    BY <1>3, ClaimKnown DEF DeliveryFails
  <2>3. \/ UNCHANGED job
        \/ job' = [job EXCEPT ![l].state = "failed"]
        \/ job' = [job EXCEPT ![l].state = "pending"]
    BY <1>3, <2>2 DEF DeliveryFails
  <2>4. JobsStay
    BY <2>2, <2>3, OneJobStays DEF JobsStay
  <2> QED BY <2>1, <2>4, JobsPass
<1> QED BY <1>1, <1>2, <1>3

\* The transaction that ends as expected submits the lease.
LEMMA SubmitPasses ==
  ASSUME CInv, NEW l \in Leases, StillPublishing(l), Submit(l)
  PROVE  /\ \A k \in Leases : Passes(lease[k], lease'[k])
         /\ \A w \in Works : work'[w].checkpoint = work[w].checkpoint
<1>1. lease \in [Leases -> LeaseRows] /\ work \in [Works -> WorkRows]
  BY DEF CInv, TypeOK
<1> DEFINE q == [lease[l] EXCEPT !.state = "submitted", !.age = 0]
           w == lease[l].work
           row == [work[w] EXCEPT !.state = "submitted", !.active = NoLease]
<1>2. w \in Works
  BY DEF CInv, Safe, Born, StillPublishing
<1>3. lease' = [lease EXCEPT ![l] = q] /\ work' = [work EXCEPT ![w] = row]
  BY <1>1, <1>2 DEF Submit
<1>4. Passes(lease[l], q)
  BY <1>1 DEF Passes, LeaseRows, Active
<1>5. row.checkpoint = work[w].checkpoint
  BY <1>1, <1>2 DEF WorkRows
<1>6. \A k \in Leases : Passes(lease[k], lease[k])
  BY DEF Passes
<1> HIDE DEF q, row, w, Passes
<1>7. /\ \A k \in Leases : lease'[k] = IF k = l THEN q ELSE lease[k]
      /\ \A v \in Works : work'[v] = IF v = w THEN row ELSE work[v]
  BY <1>1, <1>3
<1> QED BY <1>4, <1>5, <1>6, <1>7

LEMMA RecordPasses ==
  ASSUME PubInv, NEW d \in Dispatchers, Record(d)
  PROVE  Passing
<1>0. PICK l \in Leases : l = claim[d].lease /\ job[l].state # "none"
  BY ClaimKnown DEF Record
<1>1. UNCHANGED <<project, ledger, member, device, txn>>
  BY DEF Record, peopleVars, workVars
<1>2. JobsStay
  <2>1. \/ UNCHANGED job
        \/ job' = [job EXCEPT ![l].state = "done"]
        \/ job' = [job EXCEPT ![l].state = "cancelled"]
    BY <1>0 DEF Record, workVars
  <2> QED BY <1>0, <2>1, OneJobStays DEF JobsStay
<1>3. UNCHANGED <<lease, work>> \/ (StillPublishing(l) /\ Submit(l))
  BY <1>0 DEF Record, workVars, RecordPublish, RecordUpdate
<1>4. /\ \A k \in Leases : Passes(lease[k], lease'[k])
      /\ \A w \in Works : work'[w].checkpoint = work[w].checkpoint
  <2>1. CASE UNCHANGED <<lease, work>>
    BY <2>1 DEF Passes
  <2>2. CASE StillPublishing(l) /\ Submit(l)
    BY <2>2, SubmitPasses DEF PubInv
  <2> QED BY <1>3, <2>1, <2>2
<1> QED BY <1>1, <1>2, <1>4 DEF Passing

LEMMA LapseOrRetryPasses ==
  ASSUME PubInv, NEW l \in Leases, LockLapses(l) \/ \E u \in Retriers : Retry(u, l)
  PROVE  Passing
<1>1. CASE LockLapses(l)
  BY <1>1, NothingPasses DEF LockLapses
<1>2. ASSUME NEW u \in Retriers, Retry(u, l) PROVE Passing
  <2>1. UNCHANGED coordinatorRows
    BY <1>2 DEF Retry, peopleVars, coordinatorRows
  <2>2. JobsStay
    BY <1>2, OneJobStays DEF Retry
  <2> QED BY <2>1, <2>2, JobsPass
<1> QED BY <1>1, <1>2

\* A pull request's end or moved head puts an end to the lease that is active.
LEMMA ActivePasses ==
  ASSUME CInv, NEW w, NEW s \in {"review_invalidated", "merged", "closed"}, NEW k,
         lease' = ActiveBecomes(w, s), work' = [work EXCEPT ![k].state = s]
  PROVE  /\ \A l \in Leases : Passes(lease[l], lease'[l])
         /\ \A v \in Works : work'[v].checkpoint = work[v].checkpoint
<1>1. lease \in [Leases -> LeaseRows] /\ work \in [Works -> WorkRows]
  BY DEF CInv, TypeOK
<1>2. ASSUME NEW l \in Leases
      PROVE  /\ Passes(lease[l], lease[l])
             /\ Passes(lease[l], [lease[l] EXCEPT !.state = s])
  BY <1>1 DEF Passes, LeaseRows, Active
<1>3. \A l \in Leases : lease'[l] = IF work[w].active = l THEN [lease[l] EXCEPT !.state = s]
                                                         ELSE lease[l]
  BY DEF ActiveBecomes
<1>4. \A l \in Leases : Passes(lease[l], lease'[l])
  BY <1>2, <1>3
<1>5. \A v \in Works : work'[v].checkpoint = work[v].checkpoint
  BY <1>1 DEF WorkRows
<1> QED BY <1>4, <1>5

LEMMA WebhookPasses ==
  ASSUME PubInv, NEW m \in webhooks,
         RequestRevision(m) \/ ReviewApproved(m) \/ Synchronize(m) \/ PullRequestEnded(m)
  PROVE  Passing
<1>1. UNCHANGED <<project, ledger, member, device, txn>> /\ JobsStay
  <2>1. UNCHANGED <<project, ledger, member, device, txn, job>>
    BY DEF RequestRevision, ReviewApproved, Synchronize, PullRequestEnded, peopleVars
  <2> QED BY <2>1 DEF JobsStay
<1>2. CInv /\ lease \in [Leases -> LeaseRows] /\ work \in [Works -> WorkRows]
  BY DEF PubInv, CInv, TypeOK
<1> DEFINE w == lease[m.pr].work
<1>3. CASE UNCHANGED <<lease, work>>
  BY <1>1, <1>3 DEF Passing, Passes
<1>4. CASE /\ lease' = ActiveBecomes(w, "review_invalidated")
           /\ work' = [work EXCEPT ![w].state = "review_invalidated"]
  <2>1. /\ \A l \in Leases : Passes(lease[l], lease'[l])
        /\ \A v \in Works : work'[v].checkpoint = work[v].checkpoint
    BY <1>2, <1>4, ActivePasses
  <2> QED BY <1>1, <2>1 DEF Passing
<1>5. CASE /\ m.type \in {"merged", "closed"} /\ lease' = ActiveBecomes(w, m.type)
           /\ work' = [work EXCEPT ![w].state = m.type]
  <2>1. PICK s \in {"review_invalidated", "merged", "closed"} : s = m.type
    BY <1>5
  <2>2. lease' = ActiveBecomes(w, s) /\ work' = [work EXCEPT ![w].state = s]
    BY <1>5, <2>1
  <2>3. /\ \A l \in Leases : Passes(lease[l], lease'[l])
        /\ \A v \in Works : work'[v].checkpoint = work[v].checkpoint
    BY <1>2, <2>2, ActivePasses
  <2> QED BY <1>1, <2>3 DEF Passing
<1>6. CASE /\ work' = [work EXCEPT ![w].state = "revision_requested"]
           /\ lease' = [l \in Leases |-> IF l \in Latest(w)
                                         THEN [lease[l] EXCEPT !.feedback = m.mentions]
                                         ELSE lease[l]]
  <2>1. ASSUME NEW l \in Leases
        PROVE  /\ Passes(lease[l], lease[l])
               /\ Passes(lease[l], [lease[l] EXCEPT !.feedback = m.mentions])
    BY <1>2 DEF Passes, LeaseRows
  <2>2. \A l \in Leases : Passes(lease[l], lease'[l])
    BY <1>6, <2>1
  <2>3. \A v \in Works : work'[v].checkpoint = work[v].checkpoint
    BY <1>2, <1>6 DEF WorkRows
  <2> QED BY <1>1, <2>2, <2>3 DEF Passing
<1>7. CASE RequestRevision(m)
  BY <1>3, <1>6, <1>7 DEF RequestRevision
<1>8. CASE ReviewApproved(m)
  BY <1>3, <1>8 DEF ReviewApproved
<1>9. CASE Synchronize(m)
  BY <1>3, <1>4, <1>9 DEF Synchronize
<1>10. CASE PullRequestEnded(m)
  BY <1>3, <1>5, <1>10 DEF PullRequestEnded
<1> QED BY <1>7, <1>8, <1>9, <1>10

\* Every step of the whole system keeps the core and is one that the action properties
\* allow.
LEMMA SystemNextCore ==
  ASSUME PubInv, Core, [SystemNext]_systemVars
  PROVE  CoreKept
<1>1. CInv
  BY DEF PubInv
<1>2. CASE Next
  BY <1>1, <1>2, NextKeepsCore DEF CoreKept
<1>3. CASE Passing
  BY <1>1, <1>3, PassingKeepsCore
<1>4. CASE GitHubStep
  <2>1. UNCHANGED vars
    BY <1>4 DEF GitHubStep, WriteReview, PushForeign, EndPullRequest, LoseWebhook
  <2> QED BY <1>3, <2>1, NothingPasses
<1>5. CASE WebhookStep
  BY <1>3, <1>5, WebhookPasses DEF WebhookStep
<1>6. ASSUME NEW d \in Dispatchers, DispatcherStep(d) PROVE CoreKept
  BY <1>3, <1>6, DispatcherPasses, RecordPasses DEF DispatcherStep, Delivery
<1>7. ASSUME NEW l \in Leases, LockLapses(l) \/ \E u \in Retriers : Retry(u, l) PROVE CoreKept
  BY <1>3, <1>7, LapseOrRetryPasses
<1>8. CASE UNCHANGED systemVars
  BY <1>3, <1>8, NothingPasses DEF systemVars
<1> QED BY <1>2, <1>4, <1>5, <1>6, <1>7, <1>8 DEF SystemNext

\* The core of the governance invariant holds of the whole system.
THEOREM SystemGoverns == SystemSpec => []Core
<1>1. SystemInit => Core
  BY InitIsGoverned DEF SystemInit, GInv
<1>2. PubInv /\ Core /\ [SystemNext]_systemVars => Core'
  BY SystemNextCore DEF CoreKept
<1> QED BY <1>1, <1>2, SystemInvariance, PTL DEF SystemSpec

\* With webhooks that end leases and dispatchers that submit them, reserved_tokens is
\* still the sum of what the unsettled leases reserve.  The webhook that ends an active
\* lease does not settle it (app.py:1462): its row stays unsettled, its reservation counted.
THEOREM SystemLedgerBalances == SystemSpec => []ReservationLedger
BY SystemGoverns, PTL DEF Core

\* Nobody is left running without authority, whatever the reviews of its pull request
\* and the deliveries to GitHub do meanwhile.
THEOREM SystemRunsAuthorised == SystemSpec => []RunningIsAuthorised
BY SystemGoverns, PTL DEF Core

\* What dispatchers are given to publish has the approvals that the policy in force asks
\* for, of the commit in the outbox row.
THEOREM SystemPublishesApproved == SystemSpec => []PublishingIsApproved
BY SystemGoverns, PTL DEF Core

\* A webhook or a dispatcher hands no allocation over early.
THEOREM SystemHandsOverLate == SystemSpec => NoEarlyHandover
<1>1. PubInv /\ Core /\ [SystemNext]_systemVars =>
        [\A l \in Leases : lease[l].state # "reassigned" /\ lease'[l].state = "reassigned" =>
           lease[l].age >= StaleAfter + RecoveryWindow]_vars
  BY SystemNextCore DEF CoreKept, HandsOverLate
<1> QED BY SystemInvariance, SystemGoverns, <1>1, PTL DEF SystemSpec, NoEarlyHandover

\* No step of the whole system settles a started lease without charging what is unknown.
THEOREM SystemChargesUnknown == SystemSpec => UnknownIsNotFree
<1>1. PubInv /\ Core /\ [SystemNext]_systemVars =>
        [\A l \in Leases :
           /\ lease[l].state \in Active \ {"offered"}
           /\ ~lease[l].settled /\ lease'[l].settled
           /\ ~Known(lease'[l].usage)
           => ledger'.spent >= ledger.spent + lease[l].reservation]_vars
  BY SystemNextCore DEF CoreKept, ChargesUnknown
<1> QED BY SystemInvariance, SystemGoverns, <1>1, PTL DEF SystemSpec, UnknownIsNotFree

\* Only the holder, or the allocation of a revision, moves an issue's checkpoint: no
\* webhook and no dispatcher does.
THEOREM SystemCheckpointIsFenced == SystemSpec => CheckpointIsFenced
<1>1. PubInv /\ Core /\ [SystemNext]_systemVars =>
        [\A w \in Works : work'[w].checkpoint # work[w].checkpoint =>
           \/ /\ work'[w].checkpoint[1] = work[w].active
              /\ work[w].active # NoLease
           \/ /\ work'[w].generation > work[w].generation
              /\ lease'[work'[w].active].kind = "revision"]_vars
  BY SystemNextCore DEF CoreKept, Fenced
<1> QED BY SystemInvariance, SystemGoverns, <1>1, PTL DEF SystemSpec, CheckpointIsFenced
=============================================================================
