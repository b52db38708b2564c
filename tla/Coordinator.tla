---------------------------- MODULE Coordinator ----------------------------
(***************************************************************************)
(* The Co4 coordinator: allocation of issues to contributors' devices,     *)
(* fenced leases, the recovery window ("dibs"), token accounting and human *)
(* approval.  It models co4/domain.py and the handlers of co4/app.py that  *)
(* change the rows of projects, members, devices, work, leases and         *)
(* submissions.                                                            *)
(*                                                                         *)
(* Every handler runs in one database transaction that first updates the   *)
(* single Mutex row (co4/db.py), so handlers are atomic and serial.  The   *)
(* few that release one lease and go on within the same transaction are    *)
(* two actions; the variable txn says that the transaction is still open   *)
(* and every other handler waits for it.                                   *)
(*                                                                         *)
(* Time is the age of a row: code only ever compares "now - timestamp"     *)
(* with a constant, so ages that saturate just above the largest constant  *)
(* say all that matters.                                                   *)
(***************************************************************************)
EXTENDS Integers, FiniteSetsExt

CONSTANTS
  Users, Owner,           \* contributors; the project's owner_id
  Devices, NoDevice,      \* device rows; the null of a device column
  UserOf,                 \* device.user_id
  Automatic,              \* devices with autonomy = "automatic"
  Advertising,            \* devices whose poll lists this repository
  MaxTokens,              \* device.max_tokens
  DeviceLabels,           \* device.labels
  InitialDevices,         \* devices registered before the first step
  InitialMembers,         \* member rows at the first step
  Managed,                \* bound: devices whose owner pauses or revokes them
  Watchers,               \* bound: users who start or stop watching
  Suspensions,            \* {TRUE} if the installation may be revoked, else {}
  MaxWorks, MaxLeases,    \* bounds: issues, and leases ever allocated
  Labels,                 \* issue labels the policies and devices mention
  Private,                \* project.private
  Policies, Budgets,      \* what a maintainer may set
  InitialPolicy, InitialBudget,
  MemberSettings,         \* [role, verified] pairs a maintainer may set
  IssueEvents,            \* the kinds of issue webhooks / imports
  Usages,                 \* usage reports a worker may send
  MaxVersion,             \* bound: commits a lease's work branch may carry
  LastPhase,              \* index of "ready" (5: baseline spec red green verify)
  OrphanAfter, OfferAfter, StaleAfter, RecoveryWindow,
                          \* 300 s, 1800 s, 12 h, 12 h, in ticks
  MaxAffinity             \* bound: the largest revision_affinity_seconds

Works == 1..MaxWorks      \* numbered in order of creation
Leases == 1..MaxLeases    \* numbered in order of creation
NoLease == 0
Versions == 1..MaxVersion \* commits of one lease's branch; 0 is ""
NoVersion == 0
NoCommit == <<NoLease, NoVersion>>
Commits == (Leases \X Versions) \cup {NoCommit}

Privileged == {"owner", "maintainer"}
Reviewers == Privileged \cup {"triager"}
Roles == Reviewers \cup {"contributor"}
MemberRoles == Roles \cup {"none", "suspended"}

Active == {"offered", "running", "blocked", "awaiting_review", "dibbed", "publishing"}
Staleable == {"running", "blocked", "awaiting_review"}
LeaseStates == Active \cup {"none", "released", "reclaimed", "reassigned", "cancelled",
                            "submitted", "review_invalidated", "merged", "closed"}
Allocatable == {"queued", "revision_requested"}
WorkStates == Allocatable \cup {"none", "validation_pending", "in_progress", "review",
                "publishing", "submitted", "review_invalidated", "merged", "closed"}
SubmissionStates == {"none", "open", "changes_requested", "revising", "awaiting_rereview",
                     "approved", "escalated", "merged", "closed"}
JobStates == {"none", "pending", "working", "done", "cancelled", "failed"}

Least(a, b) == IF a <= b THEN a ELSE b
Greatest(a, b) == IF a >= b THEN a ELSE b

Unknown == -1             \* a token counter the harness did not report
UsageRows == [tokens : Nat \cup {Unknown}, complete : BOOLEAN]
NoUsage == [tokens |-> Unknown, complete |-> FALSE]

PolicyRows == [access : {"open", "verified", "maintainers"}, requireValidation : BOOLEAN,
               requireMaintainer : BOOLEAN, maxTask : Nat, excluded : SUBSET Labels,
               maintainerLabels : SUBSET Labels, maxRounds : Nat, affinity : 0..MaxAffinity,
               triggers : SUBSET {"changes_requested", "revise_comment"}]
MemberRows == [role : MemberRoles, verified : BOOLEAN, watching : BOOLEAN]
EventRows == [changed : BOOLEAN, labels : SUBSET Labels, closed : BOOLEAN, ready : BOOLEAN]

ASSUME DevicesAssumption ==
  /\ NoDevice \notin Devices
  /\ Owner \in Users
  /\ UserOf \in [Devices -> Users]
  /\ MaxTokens \in [Devices -> Nat]
  /\ DeviceLabels \in [Devices -> SUBSET Labels]
  /\ InitialMembers \in [Users -> MemberRows]
  /\ Private \in BOOLEAN
  /\ Managed \subseteq Devices /\ Watchers \subseteq Users /\ Suspensions \subseteq BOOLEAN
ASSUME BoundsAssumption ==
  /\ MaxWorks \in Nat /\ MaxLeases \in Nat /\ MaxVersion \in Nat /\ LastPhase \in Nat
  /\ OrphanAfter \in Nat /\ OfferAfter \in Nat /\ StaleAfter \in Nat /\ RecoveryWindow \in Nat
  /\ MaxAffinity \in Nat
ASSUME InputsAssumption ==
  /\ Policies \subseteq PolicyRows /\ InitialPolicy \in PolicyRows
  /\ Budgets \subseteq Nat /\ InitialBudget \in Nat
  /\ MemberSettings \subseteq [role : Roles \cup {"suspended"}, verified : BOOLEAN]
  /\ IssueEvents \subseteq EventRows
  /\ Usages \subseteq UsageRows

VARIABLES
  project,      \* [active, policy, budget]
  ledger,       \* [reserved, spent]: the project's token columns
  member,       \* member rows by user
  device,       \* [enabled, token] by device
  declined,     \* pairs <<user, work>> with a Decline row
  work,         \* [state, generation, active, checkpoint, labels] by issue
  lease,        \* lease rows; an unborn lease has state "none"
  submission,   \* the PR opened from a lease, keyed by that lease
  job,          \* the publish / update_submission outbox row of a lease
  txn           \* the open transaction, or Closed

peopleVars == <<project, member, device, declined>>
workVars == <<work, lease, ledger, submission, job>>
vars == <<project, ledger, member, device, declined, work, lease, submission, job, txn>>

MaxAge == StaleAfter + RecoveryWindow

LeaseRows ==
  [state : LeaseStates, device : Devices \cup {NoDevice}, work : Works \cup {0},
   generation : Nat, phase : 0..LastPhase, age : 0..MaxAge, reservation : Nat,
   usage : UsageRows, settled : BOOLEAN, sha : 0..MaxVersion, approved : 0..MaxVersion,
   maintainer : 0..MaxVersion, reviewed : BOOLEAN, dibDevice : Devices \cup {NoDevice},
   dibLeft : 0..RecoveryWindow, kind : {"initial", "revision"}, base : Commits,
   feedback : SUBSET Users]
WorkRows ==
  [state : WorkStates, generation : Nat, active : Leases \cup {NoLease},
   checkpoint : Commits, labels : SUBSET Labels]
SubmissionRows ==
  [state : SubmissionStates, head : Commits, round : Nat, since : 0..MaxAffinity]
Transactions ==
  [op : {"closed", "poll", "sweep", "cancel"}, device : Devices \cup {NoDevice},
   work : Works \cup {0}, leases : SUBSET Leases]

Closed == [op |-> "closed", device |-> NoDevice, work |-> 0, leases |-> {}]
UnbornLease ==
  [state |-> "none", device |-> NoDevice, work |-> 0, generation |-> 0, phase |-> 0,
   age |-> 0, reservation |-> 0, usage |-> NoUsage, settled |-> FALSE, sha |-> NoVersion,
   approved |-> NoVersion, maintainer |-> NoVersion, reviewed |-> FALSE,
   dibDevice |-> NoDevice, dibLeft |-> 0, kind |-> "initial", base |-> NoCommit,
   feedback |-> {}]

\* Types of every row: what the columns of co4/models.py may hold.
TypeOK ==
  /\ project \in [active : BOOLEAN, policy : PolicyRows, budget : Nat]
  /\ ledger \in [reserved : Nat, spent : Nat]
  /\ member \in [Users -> MemberRows]
  /\ device \in [Devices -> [enabled : BOOLEAN, token : {"none", "valid", "revoked"}]]
  /\ declined \subseteq Users \X Works
  /\ work \in [Works -> WorkRows]
  /\ lease \in [Leases -> LeaseRows]
  /\ submission \in [Leases -> SubmissionRows]
  /\ job \in [Leases -> [state : JobStates, sha : 0..MaxVersion]]
  /\ txn \in Transactions
-----------------------------------------------------------------------------
(* Rows and relations *)

Holder(l) == UserOf[lease[l].device]
HeldBy(u) == {l \in Leases : lease[l].state \in Active /\ Holder(l) = u}
LeasesOf(w) == {l \in Leases : lease[l].state # "none" /\ lease[l].work = w}
Latest(w) == {l \in LeasesOf(w) : \A k \in LeasesOf(w) : k <= l}
SubmissionsOf(w) == {k \in Leases : submission[k].state # "none" /\ lease[k].work = w}
Unborn == {l \in Leases : lease[l].state = "none"}
NextLease(l) == l \in Unborn /\ \A k \in Unborn : l <= k

Visible(u) ==
  \/ ~Private /\ member[u].role # "suspended"
  \/ member[u].role \in Roles
IsMember(u) == member[u].role \notin {"none", "suspended"}

Admits(access, m) ==
  CASE access = "open"        -> TRUE
    [] access = "verified"    -> m.verified \/ m.role \in Privileged
    [] access = "maintainers" -> m.role \in Privileged

\* Mutant: a member who lost verification stays eligible.
EligibleUnverified(m, d, w) ==
  /\ project.active /\ device[d].enabled
  /\ m.role \in Roles /\ m.watching
  /\ <<UserOf[d], w>> \notin declined

\* Coordinator.eligible, for the member row m of the device's user.
EligibleAs(m, d, w) ==
  /\ project.active
  /\ device[d].enabled
  /\ m.role \in Roles /\ m.watching
  /\ <<UserOf[d], w>> \notin declined
  /\ Admits(project.policy.access, m)
  /\ work[w].labels \cap project.policy.excluded = {}
  /\ work[w].labels \cap project.policy.maintainerLabels # {} => m.role \in Privileged
  /\ DeviceLabels[d] = {} \/ DeviceLabels[d] \cap work[w].labels # {}
Eligible(d, w) == EligibleAs(member[UserOf[d]], d, w)

-----------------------------------------------------------------------------
(* Accounting: Coordinator.settle *)

Observed(usage) == IF usage.tokens = Unknown THEN 0 ELSE usage.tokens
Known(usage) == usage.complete /\ usage.tokens # Unknown

\* Mutant: what was not reported is free.
ChargeObserved(r) == Observed(r.usage)

\* What settling the lease row r adds to spent_tokens.
Charge(r) ==
  IF Known(r.usage) THEN Observed(r.usage)
  ELSE IF r.state = "offered" THEN 0
  ELSE Greatest(Observed(r.usage), r.reservation)

\* Mutant: a lease that was settled is settled again.
SettledAgain(r) ==
  [reserved |-> Greatest(0, ledger.reserved - r.reservation),
   spent    |-> ledger.spent + Charge(r)]

Settled(r) ==
  IF r.settled THEN ledger
  ELSE [reserved |-> Greatest(0, ledger.reserved - r.reservation),
        spent    |-> ledger.spent + Charge(r)]

-----------------------------------------------------------------------------
(* Coordinator.release *)

\* Mutants: the lease is not fenced out; the lease is not marked as settled.
EndLeaseUnfenced(l, terminal) ==
  /\ ledger' = Settled(lease[l])
  /\ lease' = [lease EXCEPT ![l].settled = TRUE, ![l].age = 0]
EndLeaseUnsettled(l, terminal) ==
  /\ ledger' = Settled(lease[l])
  /\ lease' = [lease EXCEPT ![l].state = terminal, ![l].age = 0]

EndLease(l, terminal) ==
  /\ ledger' = Settled(lease[l])
  /\ lease' = [lease EXCEPT ![l].state = terminal, ![l].settled = TRUE, ![l].age = 0]

StateAfterRelease(l, requeue) ==
  IF ~requeue THEN "validation_pending"
  ELSE IF lease[l].kind = "revision" THEN "revision_requested"
  ELSE "queued"

\* The submission row a released revision reopens.  The code takes the first row
\* of an unordered SELECT; k is any of them.
ReopenRound(l, requeue) ==
  IF requeue /\ lease[l].kind = "revision"
  THEN \E k \in SubmissionsOf(lease[l].work) :
         submission' = IF submission[k].state = "revising"
                       THEN [submission EXCEPT ![k].state = "changes_requested",
                                               ![k].since = 0]
                       ELSE submission
  ELSE UNCHANGED submission

Release(l, terminal, requeue) ==
  LET w == lease[l].work IN
  /\ EndLease(l, terminal)
  /\ IF work[w].active = l
     THEN /\ work' = [work EXCEPT ![w].active = NoLease,
                                  ![w].state = StateAfterRelease(l, requeue)]
          /\ ReopenRound(l, requeue)
     ELSE UNCHANGED <<work, submission>>

-----------------------------------------------------------------------------
(* Coordinator.allocate *)

Amount(d) == Least(MaxTokens[d], project.policy.maxTask)

\* Mutant: one active lease per device, not per person.
CanAllocateToDevice(d, w) ==
  /\ work[w].state \in Allocatable /\ work[w].active = NoLease
  /\ Eligible(d, w)
  /\ {l \in HeldBy(UserOf[d]) : lease[l].device = d} = {}
  /\ ledger.spent + ledger.reserved + Amount(d) <= project.budget
  /\ work[w].state = "revision_requested" => SubmissionsOf(w) # {}
  /\ Unborn # {}

\* MaxLeases stands beside the budget: when it is reached nothing more is allocated.
CanAllocate(d, w) ==
  /\ work[w].state \in Allocatable /\ work[w].active = NoLease
  /\ Eligible(d, w)
  /\ HeldBy(UserOf[d]) = {}
  /\ ledger.spent + ledger.reserved + Amount(d) <= project.budget
  /\ work[w].state = "revision_requested" => SubmissionsOf(w) # {}
  /\ Unborn # {}

\* Mutant: the kind of the lease is left at the column's default.
NewLeaseInitial(d, w, kind, base, feedback) ==
  [UnbornLease EXCEPT
     !.state = IF d \in Automatic THEN "running" ELSE "offered",
     !.device = d, !.work = w, !.generation = work[w].generation + 1,
     !.reservation = Amount(d), !.base = base, !.feedback = feedback]

NewLease(d, w, kind, base, feedback) ==
  [UnbornLease EXCEPT
     !.state = IF d \in Automatic THEN "running" ELSE "offered",
     !.device = d, !.work = w, !.generation = work[w].generation + 1,
     !.reservation = Amount(d), !.kind = kind, !.base = base, !.feedback = feedback]

\* Lease l of device d for work w.  A revision starts from the App-frozen head of
\* the submission k, and inherits the latest lease's feedback.
Grant(l, d, w) ==
  /\ ledger' = [ledger EXCEPT !.reserved = @ + Amount(d)]
  /\ \/ /\ work[w].state = "queued"
        /\ lease' = [lease EXCEPT ![l] = NewLease(d, w, "initial", work[w].checkpoint, {})]
        /\ work' = [work EXCEPT ![w].active = l, ![w].state = "in_progress",
                                ![w].generation = @ + 1]
        /\ UNCHANGED submission
     \/ /\ work[w].state = "revision_requested"
        /\ \E k \in SubmissionsOf(w) :
             /\ lease' = [lease EXCEPT ![l] =
                  NewLease(d, w, "revision", submission[k].head,
                           UNION {lease[b].feedback : b \in Latest(w)})]
             /\ work' = [work EXCEPT ![w].active = l, ![w].state = "in_progress",
                                     ![w].generation = @ + 1,
                                     ![w].checkpoint = submission[k].head]
             /\ submission' = [submission EXCEPT ![k].state = "revising", ![k].since = 0]

Allocate(d, w) == CanAllocate(d, w) /\ \E l \in Leases : NextLease(l) /\ Grant(l, d, w)
-----------------------------------------------------------------------------
(* Time *)

OfferExpired(l) == lease[l].state = "offered" /\ lease[l].age >= OfferAfter
RecoveryExpired(l) == lease[l].state = "dibbed" /\ lease[l].dibLeft = 0
Orphaned(l) == lease[l].state = "running" /\ lease[l].age >= OrphanAfter
\* Mutant: an allocation can be asked for before it is stale.
StaleAtOnce(l) == lease[l].state \in Staleable

Stale(l) == lease[l].state \in Staleable /\ lease[l].age >= StaleAfter

\* Leases whose age some handler compares with the clock.
Timed == {"offered", "dibbed"} \cup Staleable

\* Mutant: the recovery deadline is counted past.
AgedPastDeadline(r) ==
  IF r.state \in Timed
  THEN [r EXCEPT !.age = Least(@ + 1, MaxAge),
                 !.dibLeft = IF r.state = "dibbed" THEN @ - 1 ELSE @]
  ELSE r

Aged(r) ==
  IF r.state \in Timed
  THEN [r EXCEPT !.age = Least(@ + 1, MaxAge),
                 !.dibLeft = IF r.state = "dibbed" THEN Greatest(0, @ - 1) ELSE @]
  ELSE r

\* The clock does not move within a transaction.
Tick ==
  /\ txn = Closed
  /\ lease' = [l \in Leases |-> Aged(lease[l])]
  /\ submission' = [k \in Leases |->
       IF submission[k].state = "none" THEN submission[k]
       ELSE [submission[k] EXCEPT !.since = Least(@ + 1, MaxAffinity)]]
  /\ UNCHANGED <<peopleVars, work, ledger, job, txn>>

-----------------------------------------------------------------------------
(* Coordinator.sweep: one transaction of every dispatcher tick, and the start of   *)
(* every poll's.  It releases each expired lease, in any order, and tries to give  *)
(* handed over work to the device that asked; then it escalates revisions.         *)

\* Mutants: the sweep forgets the offers; the sweep forgets the handovers.
DueHandovers == {l \in Leases : RecoveryExpired(l)}
DueOffers == {l \in Leases : OfferExpired(l)}

Due == {l \in Leases : OfferExpired(l) \/ RecoveryExpired(l)}

\* iteration.any_device_eligible.  It asks neither for a usable token nor for a free
\* holder.
AnyDeviceEligible(w) == \E d \in Devices : Eligible(d, w)

\* Nobody can take the revision although its affinity window has elapsed.
EscalationDue(k) == LET w == lease[k].work IN
  /\ submission[k].state = "changes_requested"
  /\ work[w].state = "revision_requested"
  /\ submission[k].since >= project.policy.affinity
  /\ ~AnyDeviceEligible(w)

Sweeping(leases) == [Closed EXCEPT !.op = "sweep", !.leases = leases]

Sweep ==
  /\ txn = Closed
  /\ Due # {} \/ \E k \in Leases : EscalationDue(k)
  /\ txn' = Sweeping(Due)
  /\ UNCHANGED <<peopleVars, workVars>>

Swept(l) == txn.op = "sweep" /\ txn.device = NoDevice /\ l \in txn.leases

SweepOffer(l) ==
  /\ Swept(l)
  /\ OfferExpired(l)
  /\ Release(l, "released", TRUE)
  /\ declined' = declined \cup {<<Holder(l), lease[l].work>>}
  /\ txn' = Sweeping(txn.leases \ {l})
  /\ UNCHANGED <<project, member, device, job>>

SweepHandover(l) ==
  /\ Swept(l)
  /\ RecoveryExpired(l)
  /\ Release(l, "reassigned", TRUE)
  /\ txn' = [Sweeping(txn.leases \ {l}) EXCEPT !.device = lease[l].dibDevice,
                                               !.work = lease[l].work]
  /\ UNCHANGED <<peopleVars, job>>

AllocateHandover ==
  /\ txn.op = "sweep" /\ txn.device # NoDevice
  /\ \/ Allocate(txn.device, txn.work)
     \/ ~CanAllocate(txn.device, txn.work) /\ UNCHANGED workVars
  /\ txn' = Sweeping(txn.leases)
  /\ UNCHANGED <<peopleVars, job>>

\* iteration.escalate, as it changes the submission rows.
Escalated(k) == [submission EXCEPT ![k].state = "escalated", ![k].since = 0]

\* The end of the transaction: of each work's submission rows, the one row f[w] that
\* an unordered SELECT returns first is escalated if that is due.
EndSweep ==
  /\ txn = Sweeping({})
  /\ \E f \in [Works -> Leases] :
       /\ \A w \in Works : SubmissionsOf(w) # {} => f[w] \in SubmissionsOf(w)
       /\ submission' = [k \in Leases |->
            IF EscalationDue(k) /\ f[lease[k].work] = k THEN Escalated(k)[k]
                                                        ELSE submission[k]]
  /\ txn' = Closed
  /\ UNCHANGED <<peopleVars, work, lease, ledger, job>>

\* A poll's own sweep, which is a Sweep just before it, has left nothing to do.
NothingDue ==
  /\ Due = {}
  /\ \A w \in Works : SubmissionsOf(w) # {} => \E k \in SubmissionsOf(w) : ~EscalationDue(k)

-----------------------------------------------------------------------------
(* iteration.route and Coordinator.poll *)

\* _mentioned_members_with_devices, for the feedback stashed on lease b.
Mentioned(b) ==
  {u \in lease[b].feedback :
     /\ member[u].role \in Roles /\ member[u].watching
     /\ \E d \in Devices : UserOf[d] = u /\ device[d].enabled}

Routed(d, w, k) ==
  /\ submission[k].state # "escalated"
  /\ \/ \E b \in Latest(w) : UserOf[d] \in {Holder(b)} \cup Mentioned(b)
     \/ submission[k].since >= project.policy.affinity

MayTake(d, w) ==
  /\ CanAllocate(d, w)
  /\ work[w].state = "revision_requested" => \E k \in SubmissionsOf(w) : Routed(d, w, k)
MustTake(d, w) ==
  /\ CanAllocate(d, w)
  /\ work[w].state = "revision_requested" => \A k \in SubmissionsOf(w) : Routed(d, w, k)

\* Candidates are tried oldest first under both strategies (priority is never set).
TakeOldest(d) ==
  /\ d \in Advertising
  /\ \E w \in Works : /\ MayTake(d, w)
                      /\ \A v \in 1..(w - 1) : ~MustTake(d, v)
                      /\ Allocate(d, w)

CanPoll(d) == device[d].token = "valid" /\ device[d].enabled

\* A poll that finds work.  A poll that returns the device's current lease, or
\* finds nothing, changes no row.
PollAllocates(d) ==
  /\ txn = Closed
  /\ CanPoll(d)
  /\ NothingDue
  /\ TakeOldest(d)
  /\ UNCHANGED <<peopleVars, job, txn>>

\* Mutant: only the leases of paused devices are reclaimed.
PollReclaimsPaused(d) ==
  /\ txn = Closed
  /\ CanPoll(d)
  /\ NothingDue
  /\ \E l \in HeldBy(UserOf[d]) :
       /\ lease[l].device # d
       /\ Orphaned(l) /\ ~device[lease[l].device].enabled
       /\ Release(l, "reclaimed", TRUE)
  /\ txn' = [Closed EXCEPT !.op = "poll", !.device = d]
  /\ UNCHANGED <<peopleVars, job>>

\* A poll by another device of the holder of an orphaned lease.
PollReclaims(d) ==
  /\ txn = Closed
  /\ CanPoll(d)
  /\ NothingDue
  /\ \E l \in HeldBy(UserOf[d]) :
       /\ lease[l].device # d
       /\ Orphaned(l)
       /\ Release(l, "reclaimed", TRUE)
  /\ txn' = [Closed EXCEPT !.op = "poll", !.device = d]
  /\ UNCHANGED <<peopleVars, job>>

PollGoesOn ==
  /\ txn.op = "poll"
  /\ \/ TakeOldest(txn.device)
     \/ /\ \A w \in Works : txn.device \in Advertising => ~MustTake(txn.device, w)
        /\ UNCHANGED workVars
  /\ txn' = Closed
  /\ UNCHANGED <<peopleVars, job>>

-----------------------------------------------------------------------------
(* Worker requests: heartbeat, checkpoint, complete, blocked *)

\* Mutants: the fence does not ask for the lease's state; nor whether it is current.
FenceAnyState(l) ==
  /\ lease[l].state # "none"
  /\ device[lease[l].device].token = "valid" /\ device[lease[l].device].enabled
  /\ work[lease[l].work].active = l
  /\ project.active /\ IsMember(Holder(l))
FenceAnyLease(l) ==
  /\ lease[l].state # "none"
  /\ device[lease[l].device].token = "valid" /\ device[lease[l].device].enabled
  /\ project.active /\ IsMember(Holder(l))

\* Coordinator.fence, for the device that owns lease l and the generation it was
\* given.  Every caller asks for the state "running".
Fence(l) ==
  /\ lease[l].state = "running"
  /\ device[lease[l].device].token = "valid"
  /\ device[lease[l].device].enabled
  /\ work[lease[l].work].active = l
  /\ work[lease[l].work].generation = lease[l].generation
  /\ project.active
  /\ IsMember(Holder(l))

Reports(l, phase) ==
  /\ txn = Closed
  /\ Fence(l)
  /\ phase \in {lease[l].phase, lease[l].phase + 1}

Heartbeat(l, phase) ==
  /\ Reports(l, phase)
  /\ lease' = [lease EXCEPT ![l].phase = phase, ![l].age = 0]
  /\ UNCHANGED <<peopleVars, work, ledger, submission, job, txn>>

\* Cumulative counters may not decrease (Unknown is below every count); reaching
\* the reservation blocks the lease.
HeartbeatWithUsage(l, phase, usage) ==
  /\ Reports(l, phase)
  /\ usage.tokens >= lease[l].usage.tokens
  /\ lease' = [lease EXCEPT ![l].phase = phase, ![l].age = 0, ![l].usage = usage,
                 ![l].state = IF Observed(usage) >= lease[l].reservation
                              THEN "blocked" ELSE @]
  /\ UNCHANGED <<peopleVars, work, ledger, submission, job, txn>>

Checkpoint(l, v) ==
  /\ txn = Closed
  /\ Fence(l)
  /\ lease' = [lease EXCEPT ![l].sha = v, ![l].age = 0]
  /\ work' = [work EXCEPT ![lease[l].work].checkpoint = <<l, v>>]
  /\ UNCHANGED <<peopleVars, ledger, submission, job, txn>>

\* The usage of the final report replaces the earlier ones and is settled at once.
Complete(l, v, usage) ==
  LET r == [lease[l] EXCEPT !.sha = v, !.usage = usage, !.reviewed = TRUE,
              !.approved = NoVersion, !.maintainer = NoVersion,
              !.state = "awaiting_review", !.age = 0] IN
  /\ txn = Closed
  /\ Fence(l)
  /\ lease[l].phase = LastPhase
  /\ ledger' = Settled(r)
  /\ lease' = [lease EXCEPT ![l] = [r EXCEPT !.settled = TRUE]]
  /\ work' = [work EXCEPT ![lease[l].work].checkpoint = <<l, v>>,
                          ![lease[l].work].state = "review"]
  /\ UNCHANGED <<peopleVars, submission, job, txn>>

Block(l) ==
  /\ txn = Closed
  /\ Fence(l)
  /\ lease' = [lease EXCEPT ![l].state = "blocked", ![l].age = 0]
  /\ UNCHANGED <<peopleVars, work, ledger, submission, job, txn>>
-----------------------------------------------------------------------------
(* The contributor's requests *)

Accept(l) ==
  /\ txn = Closed
  /\ lease[l].state = "offered" /\ lease[l].age < OfferAfter
  /\ Eligible(lease[l].device, lease[l].work)
  /\ lease' = [lease EXCEPT ![l].state = "running", ![l].age = 0]
  /\ UNCHANGED <<peopleVars, work, ledger, submission, job, txn>>

Deny(l) ==
  /\ txn = Closed
  /\ lease[l].state \in Active \ {"publishing"}
  /\ Release(l, "released", TRUE)
  /\ declined' = declined \cup {<<Holder(l), lease[l].work>>}
  /\ UNCHANGED <<project, member, device, job, txn>>

\* Another contributor asks, for device d, to take over a stale lease.
Dib(l, d) ==
  /\ txn = Closed
  /\ Stale(l)
  /\ UserOf[d] # Holder(l)
  /\ Eligible(d, lease[l].work)
  /\ HeldBy(UserOf[d]) = {}
  /\ lease' = [lease EXCEPT ![l].state = "dibbed", ![l].dibDevice = d,
                            ![l].dibLeft = RecoveryWindow]
  /\ UNCHANGED <<peopleVars, work, ledger, submission, job, txn>>

\* Mutant: a recovered lease runs again, reviewed or not.
RecoverToRunning(l) ==
  /\ txn = Closed
  /\ ~RecoveryExpired(l)
  /\ lease[l].state \in {"dibbed", "blocked"} \/ Stale(l)
  /\ Eligible(lease[l].device, lease[l].work)
  /\ lease' = [lease EXCEPT ![l].state = "running", ![l].age = 0,
                            ![l].dibDevice = NoDevice, ![l].dibLeft = 0]
  /\ UNCHANGED <<peopleVars, work, ledger, submission, job, txn>>

Recover(l) ==
  /\ txn = Closed
  /\ ~RecoveryExpired(l)
  /\ lease[l].state \in {"dibbed", "blocked"} \/ Stale(l)
  /\ Eligible(lease[l].device, lease[l].work)
  /\ lease' = [lease EXCEPT
       ![l].state = IF lease[l].reviewed THEN "awaiting_review" ELSE "running",
       ![l].age = 0, ![l].dibDevice = NoDevice, ![l].dibLeft = 0]
  /\ UNCHANGED <<peopleVars, work, ledger, submission, job, txn>>

\* User u approves commit v, and the evidence reviewed with it, of lease l.  The
\* last approval the policy asks for queues the publication.
Approvals(u, l, v) ==
  IF u = Holder(l) THEN [lease[l] EXCEPT !.approved = v]
                   ELSE [lease[l] EXCEPT !.maintainer = v]
\* Mutant: the contributor's approval is always enough.
ApprovedByHolder(r) == r.approved # NoVersion

FullyApproved(r) ==
  /\ r.approved # NoVersion
  /\ project.policy.requireMaintainer => r.maintainer # NoVersion

Approve(u, l, v) ==
  LET r == Approvals(u, l, v) IN
  /\ txn = Closed
  /\ IsMember(u)
  /\ project.active
  /\ lease[l].state = "awaiting_review" /\ work[lease[l].work].active = l
  /\ v = lease[l].sha
  /\ u = Holder(l) \/ member[u].role \in Privileged
  /\ \/ /\ FullyApproved(r)
        /\ lease' = [lease EXCEPT ![l] = [r EXCEPT !.state = "publishing"]]
        /\ work' = [work EXCEPT ![lease[l].work].state = "publishing"]
        /\ job' = IF job[l].state = "none"
                  THEN [job EXCEPT ![l] = [state |-> "pending", sha |-> v]] ELSE job
     \/ /\ ~FullyApproved(r)
        /\ lease' = [lease EXCEPT ![l] = r]
        /\ UNCHANGED <<work, job>>
  /\ UNCHANGED <<peopleVars, ledger, submission, txn>>

-----------------------------------------------------------------------------
(* Devices *)

CreateDevice(d) ==
  /\ txn = Closed
  /\ device[d].token = "none"
  /\ device' = [device EXCEPT ![d] = [enabled |-> TRUE, token |-> "valid"]]
  /\ UNCHANGED <<project, member, declined, workVars, txn>>

\* Pausing a device blocks its running lease.  Nothing here asks whether the device
\* has been revoked.
ToggleDevice(d, enabled) ==
  /\ txn = Closed
  /\ device[d].token # "none"
  /\ device' = [device EXCEPT ![d].enabled = enabled]
  /\ lease' = [l \in Leases |->
       IF ~enabled /\ lease[l].device = d /\ lease[l].state = "running"
       THEN [lease[l] EXCEPT !.state = "blocked"] ELSE lease[l]]
  /\ UNCHANGED <<project, member, declined, work, ledger, submission, job, txn>>

\* A user holds at most one active lease, so the loop over the device's leases
\* releases at most one.
RevokeDevice(d) ==
  LET held == {l \in Leases : lease[l].device = d /\ lease[l].state \in Active} IN
  /\ txn = Closed
  /\ device[d].token # "none"
  /\ device' = [device EXCEPT ![d] = [enabled |-> FALSE, token |-> "revoked"]]
  /\ \/ held = {} /\ UNCHANGED <<work, lease, ledger, submission>>
     \/ \E l \in held : Release(l, "cancelled", TRUE)
  /\ UNCHANGED <<project, member, declined, job, txn>>

-----------------------------------------------------------------------------
(* Members *)

Watch(u, enabled) ==
  /\ txn = Closed
  /\ Visible(u)
  /\ member' = [member EXCEPT ![u] =
       IF @.role = "none"
       THEN [role |-> "contributor", verified |-> FALSE, watching |-> enabled]
       ELSE [@ EXCEPT !.watching = enabled]]
  /\ UNCHANGED <<project, device, declined, workVars, txn>>

\* Maintainer a sets the role of u.  The active lease of u, if it is no longer
\* eligible, is cancelled (at most one: see RevokeDevice).
UpdateMember(a, u, setting) ==
  LET row == [role |-> setting.role, verified |-> setting.verified,
              watching |-> member[u].role = "none" \/ member[u].watching]
      lost == {l \in HeldBy(u) : ~EligibleAs(row, lease[l].device, lease[l].work)} IN
  /\ txn = Closed
  /\ member[a].role \in Privileged
  /\ u # Owner
  /\ member[a].role = "owner" \/ "maintainer" \notin {setting.role, member[u].role}
  /\ member' = [member EXCEPT ![u] = row]
  /\ \/ lost = {} /\ UNCHANGED <<work, lease, ledger, submission>>
     \/ \E l \in lost : Release(l, "cancelled", TRUE)
  /\ UNCHANGED <<project, device, declined, job, txn>>

-----------------------------------------------------------------------------
(* The project *)

Assigned == {work[w].active : w \in Works} \ {NoLease}
Cancelling(leases) == IF leases = {} THEN Closed
                      ELSE [Closed EXCEPT !.op = "cancel", !.leases = leases]

\* A changed policy, or deactivation, cancels every assigned lease before the
\* transaction ends: see CancelNext.
UpdateProject(u, policy, budget, active) ==
  /\ txn = Closed
  /\ member[u].role \in Privileged
  /\ budget >= ledger.spent + ledger.reserved
  /\ project' = [active |-> active, policy |-> policy, budget |-> budget]
  /\ txn' = IF policy # project.policy \/ ~active THEN Cancelling(Assigned) ELSE Closed
  /\ UNCHANGED <<ledger, member, device, declined, work, lease, submission, job>>

CancelNext(l) ==
  /\ txn.op = "cancel"
  /\ l \in txn.leases
  /\ Release(l, "cancelled", FALSE)
  /\ txn' = Cancelling(txn.leases \ {l})
  /\ UNCHANGED <<peopleVars, job>>

\* The installation was deleted or suspended, or lost access to the repository.
RevokeInstallation ==
  /\ txn = Closed
  /\ project' = [project EXCEPT !.active = FALSE]
  /\ txn' = Cancelling(Assigned)
  /\ UNCHANGED <<ledger, member, device, declined, work, lease, submission, job>>
-----------------------------------------------------------------------------
(* Issues *)

\* The button and the "/co4 validate" comment.
Validate(u, w) ==
  /\ txn = Closed
  /\ member[u].role \in Reviewers
  /\ work[w].state = "validation_pending" /\ project.active
  /\ work' = [work EXCEPT ![w].state = "queued"]
  /\ UNCHANGED <<peopleVars, lease, ledger, submission, job, txn>>

Excluded(e) == e.labels \cap project.policy.excluded # {}
\* Mutant: an issue that gets an excluded label keeps its lease.
WithdrawnWhenClosed(e) == e.closed

Withdrawn(e) == e.closed \/ Excluded(e)

\* The state of an issue row after event e, when it was s before.  An issue never
\* seen before is inserted as "validation_pending" and is not "changed".
IngestedState(s, e) ==
  LET seen == IF s = "none" THEN "validation_pending" ELSE s
      next == CASE e.closed -> "closed"
                [] ~e.closed /\ (Excluded(e) \/ e.changed \/ seen = "closed")
                     -> "validation_pending"
                [] OTHER -> seen
  IN IF /\ next = "validation_pending" /\ project.active /\ ~Excluded(e)
        /\ ~project.policy.requireValidation \/ e.ready
     THEN "queued" ELSE next

\* app.ingest_issue, from a webhook or an import.  An edited, closed or excluded
\* issue loses its lease.
Ingest(w, e) ==
  LET l == work[w].active
      cancels == l # NoLease /\ (e.changed \/ Withdrawn(e)) IN
  /\ txn = Closed
  /\ work[w].state = "none" => ~e.changed /\ \A v \in 1..(w - 1) : work[v].state # "none"
  /\ work' = [work EXCEPT ![w].state = IngestedState(@, e), ![w].labels = e.labels,
                          ![w].active = IF cancels THEN NoLease ELSE @]
  /\ \/ cancels /\ EndLease(l, "cancelled")
     \/ ~cancels /\ UNCHANGED <<ledger, lease>>
  /\ UNCHANGED <<peopleVars, submission, job, txn>>

-----------------------------------------------------------------------------
Init ==
  /\ project = [active |-> TRUE, policy |-> InitialPolicy, budget |-> InitialBudget]
  /\ ledger = [reserved |-> 0, spent |-> 0]
  /\ member = InitialMembers
  /\ device = [d \in Devices |-> IF d \in InitialDevices
                                 THEN [enabled |-> TRUE, token |-> "valid"]
                                 ELSE [enabled |-> FALSE, token |-> "none"]]
  /\ declined = {}
  /\ work = [w \in Works |-> [state |-> "none", generation |-> 0, active |-> NoLease,
                              checkpoint |-> NoCommit, labels |-> {}]]
  /\ lease = [l \in Leases |-> UnbornLease]
  /\ submission = [k \in Leases |->
       [state |-> "none", head |-> NoCommit, round |-> 0, since |-> 0]]
  /\ job = [l \in Leases |-> [state |-> "none", sha |-> NoVersion]]
  /\ txn = Closed

\* The steps of a device's worker on lease l.
WorkerStep(l) ==
  \/ \E phase \in 0..LastPhase :
       \/ Heartbeat(l, phase)
       \/ \E usage \in Usages : HeartbeatWithUsage(l, phase, usage)
  \/ \E v \in Versions : Checkpoint(l, v)
  \/ \E v \in Versions, usage \in Usages : Complete(l, v, usage)
  \/ Block(l)

\* What people ask about lease l.
HumanStep(l) ==
  \/ Accept(l) \/ Deny(l) \/ Recover(l)
  \/ \E d \in Devices : Dib(l, d)
  \/ \E u \in Users, v \in Versions : Approve(u, l, v)

\* The rest of a transaction that has released a lease.
OpenTransaction ==
  \/ \E l \in Leases : SweepOffer(l) \/ SweepHandover(l) \/ CancelNext(l)
  \/ AllocateHandover
  \/ EndSweep
  \/ PollGoesOn

DeviceStep(d) ==
  \/ PollAllocates(d) \/ PollReclaims(d)
  \/ CreateDevice(d)
  \/ d \in Managed /\ (RevokeDevice(d) \/ \E enabled \in BOOLEAN : ToggleDevice(d, enabled))

Governance ==
  \/ \E u \in Watchers, enabled \in BOOLEAN : Watch(u, enabled)
  \/ \E a, u \in Users, setting \in MemberSettings : UpdateMember(a, u, setting)
  \/ \E u \in Users, policy \in Policies, budget \in Budgets, active \in BOOLEAN :
       UpdateProject(u, policy, budget, active)
  \/ \E suspended \in Suspensions : suspended /\ RevokeInstallation

IssueStep(w) ==
  \/ \E u \in Users : Validate(u, w)
  \/ \E e \in IssueEvents : Ingest(w, e)

Next ==
  \/ Tick
  \/ Sweep
  \/ OpenTransaction
  \/ Governance
  \/ \E l \in Leases : WorkerStep(l) \/ HumanStep(l)
  \/ \E d \in Devices : DeviceStep(d)
  \/ \E w \in Works : IssueStep(w)

Spec == Init /\ [][Next]_vars
-----------------------------------------------------------------------------
(* Safety *)

\* A person has at most one active allocation across their devices, whichever of
\* polling, handover and recovery the leases come from.
OneActivePerUser ==
  \A l, k \in Leases :
    lease[l].state \in Active /\ lease[k].state \in Active /\ Holder(l) = Holder(k) => l = k

\* A lease that can still act on its work is the one lease the work points to, and
\* carries the work's current fencing generation.
ActiveIsCurrent ==
  \A l \in Leases : lease[l].state \in Active =>
    /\ work[lease[l].work].active = l
    /\ work[lease[l].work].generation = lease[l].generation

\* The state shown for an issue agrees with its lease, through dibs, recovery,
\* pauses, cancellations and edits of the issue.
WorkShowsLease ==
  \A w \in Works : LET l == work[w].active IN
    /\ l = NoLease <=> work[w].state \in {"none", "closed", "validation_pending", "queued"}
    /\ l # NoLease =>
         /\ lease[l].state \in Active
         /\ work[w].state = IF lease[l].state = "publishing" THEN "publishing"
                            ELSE IF lease[l].reviewed THEN "review" ELSE "in_progress"

\* reserved_tokens is exactly what the unsettled leases reserve: no path settles a
\* lease twice, and none forgets to.
ReservationLedger ==
  ledger.reserved =
    MapThenSumSet(LAMBDA l : lease[l].reservation, {l \in Leases : ~lease[l].settled})

\* A lease is settled when its evidence is under review or it has ended, never
\* earlier and never later.
SettledWhenOver ==
  \A l \in Leases : lease[l].state # "none" =>
    (lease[l].settled <=> lease[l].reviewed \/ lease[l].state \notin Active)

\* Whoever runs is authorised to now: pausing the device, suspending the member,
\* tightening the policy or losing the installation stops the lease in the same
\* transaction.
RunningIsAuthorised ==
  \A l \in Leases \ txn.leases : lease[l].state \in Active =>
    /\ project.active
    /\ member[Holder(l)].role \in Roles
    /\ Admits(project.policy.access, member[Holder(l)])
    /\ lease[l].state = "running" => device[lease[l].device].enabled

\* What the App may publish has the contributor's approval of the reviewed commit,
\* and the maintainer's when the policy in force asks for it.
PublishingIsApproved ==
  \A l \in Leases \ txn.leases : lease[l].state = "publishing" =>
    /\ lease[l].reviewed
    /\ lease[l].approved = lease[l].sha
    /\ project.policy.requireMaintainer => lease[l].maintainer = lease[l].sha
    /\ job[l].state # "none" /\ job[l].sha = lease[l].sha

-----------------------------------------------------------------------------
(* Action properties *)

\* Once evidence is submitted for review nothing replaces the commit or the usage
\* the reviewers read, not even a recovery after a handover request.
ReviewIsFrozen ==
  [][\A l \in Leases : lease[l].reviewed =>
       /\ lease'[l].reviewed
       /\ lease'[l].sha = lease[l].sha /\ lease'[l].usage = lease[l].usage]_vars

\* A work's handover checkpoint is moved only by its current holder; a fenced-out
\* device cannot overwrite what its successor builds on.
CheckpointIsFenced ==
  [][\A w \in Works : work'[w].checkpoint # work[w].checkpoint =>
       \/ /\ work'[w].checkpoint[1] = work[w].active
          /\ work[w].active # NoLease
       \/ /\ work'[w].generation > work[w].generation
          /\ lease'[work'[w].active].kind = "revision"]_vars

\* An allocation passes to another contributor only after its holder was silent for
\* the whole stale period and then for the whole recovery window.
NoEarlyHandover ==
  [][\A l \in Leases : lease[l].state # "reassigned" /\ lease'[l].state = "reassigned" =>
       lease[l].age >= StaleAfter + RecoveryWindow]_vars

\* Unknown consumption is not zero: a started lease that ends without a complete
\* report costs the project at least its whole reservation.
UnknownIsNotFree ==
  [][\A l \in Leases :
       /\ lease[l].state \in Active \ {"offered"}
       /\ ~lease[l].settled /\ lease'[l].settled
       /\ ~Known(lease'[l].usage)
       => ledger'.spent >= ledger.spent + lease[l].reservation]_vars

-----------------------------------------------------------------------------
(* Liveness *)

\* The clock runs, and the dispatcher's loop runs a sweep again and again, each
\* waiting for the mutex row.  An open transaction ends.
Fairness ==
  /\ WF_vars(Tick)
  /\ WF_vars(OpenTransaction)
  /\ SF_vars(Sweep)

\* Device d's worker keeps polling.
PollFairness(d) == SF_vars(PollReclaims(d))

FairSpec == Spec /\ Fairness /\ \A d \in Devices : PollFairness(d)

\* No offer and no handover request is left undecided, whoever fails to answer.
OffersAreResolved == \A l \in Leases : lease[l].state = "offered" ~> lease[l].state # "offered"
HandoversAreResolved == \A l \in Leases : lease[l].state = "dibbed" ~> lease[l].state # "dibbed"

\* A person's dead device does not hold up their live one: an orphaned lease is
\* reclaimed, unless its own device speaks again or the live one is taken away.
OrphansAreReclaimed ==
  \A l \in Leases, d \in Devices :
    (/\ Orphaned(l) /\ d # lease[l].device
     /\ UserOf[d] = Holder(l) /\ CanPoll(d)) ~> (~Orphaned(l) \/ ~CanPoll(d))
=============================================================================
