---------------------------- MODULE Publication ----------------------------
(***************************************************************************)
(* The whole server: the coordinator, the review of pull requests, and the *)
(* dispatchers of co4/outbox.py that publish approved commits to GitHub    *)
(* (co4/github.py publish and update_submission_branch).                   *)
(*                                                                         *)
(* A dispatcher claims an outbox row, reads it, calls GitHub and records   *)
(* the outcome in four separate transactions or requests.  Between them    *)
(* anything may happen: policy changes, webhooks, a second dispatcher      *)
(* after the lock lapsed, a crash, a failed request.                       *)
(***************************************************************************)
EXTENDS Iteration

CONSTANTS
  Dispatchers, Nobody,    \* the dispatcher loop of each API process; ""
  MaxAttempts,            \* failures after which a job is "failed" (10)
  MaxCrashes,             \* bound: restarts of API processes
  MaxLapses,              \* bound: locks that lapse under a slow dispatcher
  Retriers                \* bound: users who retry jobs

ASSUME DispatchersAssumption ==
  /\ Nobody \notin Dispatchers
  /\ MaxAttempts \in Nat \ {0} /\ MaxCrashes \in Nat /\ MaxLapses \in Nat
  /\ Retriers \subseteq Users

VARIABLES
  claim,     \* what each dispatcher is doing
  lock,      \* by job: the dispatcher whose claim wrote job.lock_token
  free,      \* by job: locked_until is in the past
  attempts,  \* by job: failed deliveries
  mishaps    \* [crashes, lapses] so far

publicationVars == <<claim, lock, free, attempts, mishaps>>
systemVars == <<vars, iterationVars, publicationVars>>

Phases == {"idle", "claimed", "branch", "pr", "update", "record"}
Idle == [phase |-> "idle", lease |-> NoLease, pr |-> NoLease, valid |-> FALSE]

PublicationTypeOK ==
  /\ TypeOK /\ IterationTypeOK
  /\ claim \in [Dispatchers -> [phase : Phases, lease : Leases \cup {NoLease},
                                pr : Leases \cup {NoLease}, valid : BOOLEAN]]
  /\ lock \in [Leases -> Dispatchers \cup {Nobody}]
  /\ free \in [Leases -> BOOLEAN]
  /\ attempts \in [Leases -> 0..MaxAttempts]
  /\ mishaps \in [crashes : 0..MaxCrashes, lapses : 0..MaxLapses]

-----------------------------------------------------------------------------
(* Claiming and reading a job *)

Goes(d, phase) == claim' = [claim EXCEPT ![d].phase = phase]
Leaves(d) == claim' = [claim EXCEPT ![d] = Idle]
Locked(d) == lock[claim[d].lease] = d

\* Mutant: a job whose dispatcher died is never claimed again.
ClaimPending(d) ==
  /\ txn = Closed
  /\ claim[d].phase = "idle"
  /\ \E l \in Leases :
       /\ job[l].state = "pending" /\ free[l]
       /\ job' = [job EXCEPT ![l].state = "working"]
       /\ lock' = [lock EXCEPT ![l] = d]
       /\ free' = [free EXCEPT ![l] = FALSE]
       /\ claim' = [claim EXCEPT ![d] = [Idle EXCEPT !.phase = "claimed", !.lease = l]]
  /\ UNCHANGED <<peopleVars, work, lease, ledger, submission, txn, iterationVars,
                 attempts, mishaps>>

Claim(d) ==
  /\ txn = Closed
  /\ claim[d].phase = "idle"
  /\ \E l \in Leases :
       /\ job[l].state \in {"pending", "working"} /\ free[l]
       /\ job' = [job EXCEPT ![l].state = "working"]
       /\ lock' = [lock EXCEPT ![l] = d]
       /\ free' = [free EXCEPT ![l] = FALSE]
       /\ claim' = [claim EXCEPT ![d] = [Idle EXCEPT !.phase = "claimed", !.lease = l]]
  /\ UNCHANGED <<peopleVars, work, lease, ledger, submission, txn, iterationVars,
                 attempts, mishaps>>

\* Mutant: the maintainer's approval is asked for by every policy.
PublishableStrictly(l) ==
  /\ project.active
  /\ lease[l].state = "publishing" /\ work[lease[l].work].active = l
  /\ job[l].sha = lease[l].approved /\ job[l].sha = lease[l].maintainer

\* Is the row's lease still being published, at the commit that was approved?
Publishable(l) ==
  /\ project.active
  /\ lease[l].state = "publishing" /\ work[lease[l].work].active = l
  /\ job[l].sha = lease[l].approved /\ job[l].sha = lease[l].sha
  /\ project.policy.requireMaintainer => lease[l].maintainer = job[l].sha

\* The pull requests the job of lease l may be about.
Targets(l) == IF lease[l].kind = "revision" THEN SubmissionsOf(lease[l].work) ELSE {l}

FirstRequest(l) == IF lease[l].kind = "revision" THEN "update" ELSE "branch"

Prepare(d) ==
  LET l == claim[d].lease IN
  /\ txn = Closed
  /\ claim[d].phase = "claimed"
  /\ \/ ~Locked(d) /\ Leaves(d)
     \/ /\ Locked(d) /\ Publishable(l)
        /\ \E k \in Targets(l) :
             claim' = [claim EXCEPT ![d].phase = FirstRequest(l), ![d].pr = k,
                                    ![d].valid = TRUE]
     \/ /\ Locked(d) /\ ~(Publishable(l) /\ Targets(l) # {})
        /\ Goes(d, "record")
  /\ UNCHANGED <<vars, iterationVars, lock, free, attempts, mishaps>>

-----------------------------------------------------------------------------
(* The requests to GitHub.  One that fails has no effect here: DeliveryFails. *)

Pushed(d) == <<claim[d].lease, job[claim[d].lease].sha>>

\* Mutant: a branch left by an earlier attempt is taken for a finished publication.
PublishBranchOnly(d) ==
  LET k == claim[d].pr IN
  /\ claim[d].phase = "branch"
  /\ remote[k].head \in {NoCommit, Pushed(d)}
  /\ remote' = [remote EXCEPT ![k].head = Pushed(d)]
  /\ Goes(d, IF remote[k].head = Pushed(d) THEN "record" ELSE "pr")
  /\ UNCHANGED <<vars, webhooks, lastReview, reviews, lock, free, attempts, mishaps>>

\* GitHub.publish creates the submission branch unless it is there already.
PublishBranch(d) ==
  LET k == claim[d].pr IN
  /\ claim[d].phase = "branch"
  /\ remote[k].head \in {NoCommit, Pushed(d)}
  /\ remote' = [remote EXCEPT ![k].head = Pushed(d)]
  /\ Goes(d, "pr")
  /\ UNCHANGED <<vars, webhooks, lastReview, reviews, lock, free, attempts, mishaps>>

\* It then opens the pull request, unless one exists in whatever state.  GitHub has one per
\* branch: a second creation between the question and the request fails (DeliveryFails).
PublishPullRequest(d) ==
  LET k == claim[d].pr IN
  /\ claim[d].phase = "pr"
  /\ \/ /\ remote[k].pr = "none"
        /\ remote' = [remote EXCEPT ![k].pr = "open"]
     \/ /\ remote[k].pr # "none" /\ remote[k].head = Pushed(d)
        /\ UNCHANGED remote
  /\ Goes(d, "record")
  /\ UNCHANGED <<vars, webhooks, lastReview, reviews, lock, free, attempts, mishaps>>

\* Lease l's commits descend from its base and from each other.
DescendsFrom(new, old) ==
  old = lease[new[1]].base \/ (old[1] = new[1] /\ old[2] <= new[2])

\* GitHub.update_submission_branch: the ref moves by a fast-forward only.
UpdateBranch(d) ==
  LET k == claim[d].pr IN
  /\ claim[d].phase = "update"
  /\ DescendsFrom(Pushed(d), remote[k].head)
  /\ remote' = [remote EXCEPT ![k].head = Pushed(d)]
  /\ webhooks' = IF remote[k].pr = "open" /\ remote[k].head # Pushed(d)
                 THEN webhooks \cup {Hook("synchronize", k, Pushed(d))} ELSE webhooks
  /\ Goes(d, "record")
  /\ UNCHANGED <<vars, lastReview, reviews, lock, free, attempts, mishaps>>

-----------------------------------------------------------------------------
(* Recording the outcome *)

\* The lease's transaction ended as it was expected to: it is submitted.
Submit(l) ==
  /\ lease' = [lease EXCEPT ![l].state = "submitted", ![l].age = 0]
  /\ work' = [work EXCEPT ![lease[l].work].state = "submitted",
                          ![lease[l].work].active = NoLease]

StillPublishing(l) == lease[l].state = "publishing" /\ work[lease[l].work].active = l

\* The pull request exists, so its row is added even when a cancellation raced with
\* its creation.
RecordPublish(l) ==
  /\ IF StillPublishing(l) THEN Submit(l) ELSE UNCHANGED <<lease, work>>
  /\ submission' = IF submission[l].state = "none"
       THEN [submission EXCEPT ![l] = [state |-> "open", head |-> <<l, job[l].sha>>,
                                       round |-> 1, since |-> 0]]
       ELSE submission

\* Mutant: the round is counted even when the update raced with a cancellation.
RecordUpdateRaced(l) ==
  /\ IF StillPublishing(l) THEN Submit(l) ELSE UNCHANGED <<lease, work>>
  /\ \E k \in SubmissionsOf(lease[l].work) :
       submission' = [submission EXCEPT ![k].state = "awaiting_rereview",
                        ![k].head = <<l, job[l].sha>>, ![k].round = @ + 1,
                        ![k].since = 0]

RecordUpdate(l) ==
  \/ /\ StillPublishing(l)
     /\ Submit(l)
     /\ \E k \in SubmissionsOf(lease[l].work) :
          submission' = [submission EXCEPT ![k].state = "awaiting_rereview",
                           ![k].head = <<l, job[l].sha>>, ![k].round = @ + 1,
                           ![k].since = 0]
  \/ ~StillPublishing(l) /\ UNCHANGED <<lease, work, submission>>

Record(d) ==
  LET l == claim[d].lease IN
  /\ txn = Closed
  /\ claim[d].phase = "record"
  /\ Leaves(d)
  /\ \/ /\ ~Locked(d)
        /\ UNCHANGED <<workVars, free>>
     \/ /\ Locked(d)
        /\ free' = [free EXCEPT ![l] = TRUE]
        /\ job' = [job EXCEPT ![l].state = IF claim[d].valid THEN "done" ELSE "cancelled"]
        /\ \/ ~claim[d].valid /\ UNCHANGED <<lease, work, submission>>
           \/ claim[d].valid /\ lease[l].kind = "initial" /\ RecordPublish(l)
           \/ claim[d].valid /\ lease[l].kind = "revision" /\ RecordUpdate(l)
        /\ UNCHANGED ledger
  /\ UNCHANGED <<peopleVars, txn, iterationVars, lock, attempts, mishaps>>

\* Mutant: a job is given up one failure too late.
DeliveryFailsLate(d) ==
  LET l == claim[d].lease IN
  /\ txn = Closed
  /\ claim[d].phase \notin {"idle", "claimed"}
  /\ Leaves(d)
  /\ IF Locked(d)
     THEN /\ attempts' = [attempts EXCEPT ![l] = @ + 1]
          /\ job' = [job EXCEPT ![l].state =
                       IF attempts[l] >= MaxAttempts THEN "failed" ELSE "pending"]
          /\ free' = [free EXCEPT ![l] = TRUE]
     ELSE UNCHANGED <<attempts, job, free>>
  /\ UNCHANGED <<peopleVars, work, lease, ledger, submission, txn, iterationVars, lock,
                 mishaps>>

\* An exception anywhere in a delivery, before or after GitHub acted on it.
DeliveryFails(d) ==
  LET l == claim[d].lease IN
  /\ txn = Closed
  /\ claim[d].phase \notin {"idle", "claimed"}
  /\ Leaves(d)
  /\ IF Locked(d)
     THEN /\ attempts' = [attempts EXCEPT ![l] = @ + 1]
          /\ job' = [job EXCEPT ![l].state =
                       IF attempts[l] + 1 >= MaxAttempts THEN "failed" ELSE "pending"]
          /\ free' = [free EXCEPT ![l] = TRUE]
     ELSE UNCHANGED <<attempts, job, free>>
  /\ UNCHANGED <<peopleVars, work, lease, ledger, submission, txn, iterationVars, lock,
                 mishaps>>

-----------------------------------------------------------------------------
(* Crashes, expiring locks and retries *)

\* The API process of dispatcher d restarts; the row stays locked until it lapses.
Crash(d) ==
  /\ claim[d].phase # "idle"
  /\ mishaps.crashes < MaxCrashes
  /\ mishaps' = [mishaps EXCEPT !.crashes = @ + 1]
  /\ Leaves(d)
  /\ UNCHANGED <<vars, iterationVars, lock, free, attempts>>

\* The 300 s of the claim are over: its dispatcher died, or is slow.
Abandoned(l) == \A d \in Dispatchers : claim[d].lease # l
LockLapses(l) ==
  /\ ~free[l]
  /\ \/ Abandoned(l) /\ UNCHANGED mishaps
     \/ /\ ~Abandoned(l) /\ mishaps.lapses < MaxLapses
        /\ mishaps' = [mishaps EXCEPT !.lapses = @ + 1]
  /\ free' = [free EXCEPT ![l] = TRUE]
  /\ UNCHANGED <<vars, iterationVars, claim, lock, attempts>>

\* app.retry_job.
Retry(u, l) ==
  /\ txn = Closed
  /\ member[u].role \in Privileged
  /\ job[l].state \in {"failed", "pending"}
  /\ job' = [job EXCEPT ![l].state = "pending"]
  /\ attempts' = [attempts EXCEPT ![l] = 0]
  /\ UNCHANGED <<peopleVars, work, lease, ledger, submission, txn, iterationVars, claim,
                 lock, free, mishaps>>

-----------------------------------------------------------------------------
SystemInit ==
  /\ Init /\ IterationInit
  /\ claim = [d \in Dispatchers |-> Idle]
  /\ lock = [l \in Leases |-> Nobody]
  /\ free = [l \in Leases |-> TRUE]
  /\ attempts = [l \in Leases |-> 0]
  /\ mishaps = [crashes |-> 0, lapses |-> 0]

\* What a dispatcher does by itself; DeliveryFails is GitHub's or the network's doing.
Delivery(d) == Prepare(d) \/ PublishBranch(d) \/ PublishPullRequest(d) \/ UpdateBranch(d)
               \/ Record(d) \/ DeliveryFails(d)

DispatcherStep(d) == Claim(d) \/ Delivery(d) \/ Crash(d)

SystemNext ==
  \/ Next /\ UNCHANGED <<iterationVars, publicationVars>>
  \/ (GitHubStep \/ WebhookStep) /\ UNCHANGED publicationVars
  \/ \E d \in Dispatchers : DispatcherStep(d)
  \/ \E l \in Leases : LockLapses(l) \/ \E u \in Retriers : Retry(u, l)

SystemSpec == SystemInit /\ [][SystemNext]_systemVars
-----------------------------------------------------------------------------
(* Safety *)

\* Whatever the App has put on a submission branch is a commit whose evidence was
\* submitted for review and whose contributor approved exactly it.
OnlyApprovedIsPublished ==
  \A k \in Leases : LET l == remote[k].head[1] IN
    l # NoLease => lease[l].reviewed /\ lease[l].approved = remote[k].head[2]

\* A lease shown as submitted is on GitHub: its pull request exists, has a row, and
\* the row's head is the lease's commit or a later round's.
SubmittedIsOnGitHub ==
  \A l \in Leases : lease[l].state = "submitted" =>
    \E k \in SubmissionsOf(lease[l].work) :
      /\ remote[k].pr # "none"
      /\ submission[k].head[1] >= l

\* Each fast-forward is counted once, whatever was retried, lapsed or raced: the
\* revision rounds spent on an issue are its submitted revisions.
RoundsAreCountedOnce ==
  \A w \in Works :
    MapThenSumSet(LAMBDA k : submission[k].round - 1, SubmissionsOf(w)) =
      Cardinality({l \in LeasesOf(w) : lease[l].kind = "revision"
                                        /\ lease[l].state = "submitted"})

\* No pull request gets more revision rounds than the policy allows.
RoundsAreBounded ==
  \A k \in Leases : submission[k].round <= InitialPolicy.maxRounds + 1

\* Only the end of its pull request takes a submission out of escalation.
EscalationIsSticky ==
  [][\A k \in Leases : submission[k].state = "escalated" =>
       submission'[k].state \in {"escalated", "merged", "closed"}]_systemVars

\* An issue gets one pull request, however its revisions are released, declined, retried
\* or raced: "the same PR, never a second one" (test_bdd_review_iteration.py).  An edit of
\* the issue while its pull request is open starts a second one.
OnePullRequest ==
  \A k, j \in Leases : Recorded(k) /\ Recorded(j) /\ lease[k].work = lease[j].work => k = j

\* The review that approves a submission was of the commit its pull request has on
\* GitHub, unless outsiders pushed or the webhook that escalates it is on its way.
ApprovalIsOfTheHead ==
  [][\A k \in Leases : submission[k].state # "approved" /\ submission'[k].state = "approved" =>
       \E m \in webhooks \ webhooks' :
         /\ m.type = "approved" /\ m.pr = k
         /\ \/ remote[k].head \in {m.head, Foreign}
            \/ Hook("synchronize", k, remote[k].head) \in webhooks]_systemVars

-----------------------------------------------------------------------------
(* Liveness *)

\* Each dispatcher's loop goes on; a delivery ends, by a request's time limit if not
\* otherwise; a lock that nobody holds any more lapses.
DispatcherFairness ==
  /\ WF_systemVars(OpenTransaction /\ UNCHANGED <<iterationVars, publicationVars>>)
  /\ \A d \in Dispatchers : SF_systemVars(Claim(d)) /\ SF_systemVars(Delivery(d))
  /\ \A l \in Leases : WF_systemVars(LockLapses(l))

FairSystemSpec == SystemSpec /\ DispatcherFairness

\* A delivery ends, also when dispatchers crash in the middle of it.
DeliveriesEnd ==
  \A l \in Leases : job[l].state \in {"pending", "working"} ~>
                     job[l].state \in {"done", "cancelled", "failed"}

\* No lease stays "publishing" silently: it is submitted, or its delivery has failed
\* where the operators see it.
PublicationsAreDecided ==
  \A l \in Leases : lease[l].state = "publishing" ~>
                     lease[l].state # "publishing" \/ job[l].state = "failed"

-----------------------------------------------------------------------------
(* What the code says of itself and does not do *)

\* iteration.py calls "revising" a state in which a revision round is in flight.
RevisingMeansInFlight ==
  \A k \in Leases : submission[k].state = "revising" =>
    \E l \in LeasesOf(lease[k].work) : lease[l].kind = "revision"
                                        /\ lease[l].state \in Active

\* A moved head escalates as "a commit Co4 did not publish".
OnlyForeignHeadsEscalate ==
  [][\A m \in webhooks \ webhooks' :
       /\ m.type = "synchronize"
       /\ submission[m.pr].state # "escalated" /\ submission'[m.pr].state = "escalated"
       => m.head = Foreign]_systemVars

\* "Branch or PR head drift is rejected or flagged."  No webhook is lost here.
DriftIsFlagged ==
  \A k \in Leases : Recorded(k) /\ remote[k] = [head |-> Foreign, pr |-> "open"] =>
    \/ submission[k].state = "escalated"
    \/ Hook("synchronize", k, Foreign) \in webhooks
=============================================================================
