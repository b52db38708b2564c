# Co4: TLA+ specifications, checks and proofs

Co4 lets contributors donate their coding agents' time to issues of a GitHub
repository.  A *coordinator* (a FastAPI service with one SQL database) hands out
issues as fenced leases to contributors' *devices*; a *worker* on the device runs
a coding agent (a *harness*) through a test-first phase machine and reports
evidence; people approve exactly that evidence; a *dispatcher* inside the service
publishes the approved commit as a pull request and later as revisions of it.

This directory models that system in TLA+, checks it with TLC on small
instances, and proves the central invariants with TLAPS for every instance.
Paths such as `domain.py` mean `src/src/co4/domain.py`; `PROJECT.json` maps every
definition to its lines.

## 1. Inventory

### 1.1 Components

| Component | State | Operations | Hard behaviour | Module |
|---|---|---|---|---|
| **Coordinator** `domain.py` | rows `Project` (policy, budget, reserved and spent tokens, active), `Member`, `Device`, `Decline`, `Work`, `Lease`, `Submission`, publication rows of `Outbox` | `eligible`, `allocate`, `poll`, `fence`, `settle`, `release`, `sweep`, `dib`, `recover`, `complete`, `approve` | releases and allocations within one transaction; expiry against the clock; handover to someone else; accounting that must settle once; liveness of dead devices | `Coordinator` |
| **API handlers** `app.py` | the same rows; `Event` rows | accept, deny, watch, devices (create, pause, revoke), members, project policy, validate, heartbeat, event, checkpoint, blocked, job retry | governance that changes under running leases; reports that are stale, repeated or refused | `Coordinator`, `Worker` (events, usage) |
| **Issue webhooks and imports** `app.py` | `Work`, `Lease`, `Delivery` (webhook ids) | `ingest_issue`, `/co4` commands, revoked installations | an edit that takes the issue away from whoever holds it | `Coordinator` |
| **Pull request iteration** `iteration.py`, `app.py` | `Submission` (state, head, round, last review), feedback stashed on the latest lease | `request_revision`, `review_approved`, `escalate`, `route`, `any_device_eligible`; synchronize, merge and close webhooks | reviews of old heads, reviews during a revision, the App's own pushes reported back | `Iteration` |
| **Dispatcher**, publications: `outbox.py`, `github.py` | `Outbox` rows (state, attempts, lock token, lock expiry), branches and pull requests on GitHub | claim, deliver, record, fail and retry; `publish`, `update_submission_branch` | two requests and two transactions with anything in between; crashes; two dispatchers on one job | `Publication` |
| **Dispatcher**, comments: `outbox.py`, `github.py` | one `Outbox` row per comment, the App's comments on GitHub | `status`, `pr_comment` (replace the text), claim, read, find, edit or post, record, fail, `retry_job` | a text replaced between any two of these; lost answers; restarts | `StatusComments` |
| **Worker** `worker.py`, `gitops.py` | `state.json`, `transcript.enc.jsonl`, the checkout, the commit checked out | `execute` (phases baseline, spec, red, green, verify, ready), `event`, `replay_events`, `ping`, `tick`, `checkpoint`, the exception handler | kills between any two writes; lost answers; an agent that edits what it should not, also while the supervisor commits, and that survives its killed worker | `Worker` |
| **Process and terminal supervision** `process.py`, `terminal.py`, `confirm_phase` of `worker.py` | child processes, pipes, a bounded queue, the terminal's mode | `run_process` with two reader threads, `kill_tree`, `run_interactive_process`, `_stop_group`, `confirm_phase` | a helper that outlives the leader; children that ignore SIGTERM, never stop printing or never print; anything that raises | `Supervision`, and in `Worker` as the steps of a running child |
| Harness adapters `adapters.py` | the usage meter | parse events, aggregate usage | counters nobody reported | `Worker` (meter, `Sum`); parsing not modelled |
| **Sign-in** `app.py`, `github.py`, `startDeviceFlow` of `static/app.js` | `OAuthState`, `DeviceFlow`, `Session`, the cookie, the page | login, callback, device code, poll, purge | GitHub is asked between two transactions; requests that arrive twice; addresses followed by another browser | `SignIn` |
| **Rate limiter** `SlidingWindowLimiter` of `app.py` | a deque per address, in memory | `hit` | threads that read the clock, prune, count and extend it without a lock | `RateLimiter` |
| Persistence `db.py`, `models.py` | the `Mutex` row | `transaction`, `read` | it makes handlers serial | the atomicity of every action |
| Schemas, configuration, command line, redaction, seed | none of their own | | | not modelled: pure input checks and one-shot commands |
| Static client `static/app.js` | none but the page of the device flow | | | `SignIn` (`startDeviceFlow`); the rest is a stateless view of the API |

### 1.2 How they interact

* **Worker to coordinator**, by HTTP: `poll`, then `heartbeat`, `event`,
  `checkpoint`, `complete` and `blocked` for one lease.  Each of these passes
  `Coordinator.fence`: the lease must be running, be the one the issue points to,
  carry the issue's generation, and belong to an enabled device of a member of an
  active project.  Any answer may be lost after the server acted.
* **GitHub to the server**, by webhooks: issues, comments, installations, reviews,
  synchronize, merge and close.  They arrive late, in any order or never; a
  `Delivery` row makes a repeated one harmless.
* **Coordinator to dispatcher**, by `Outbox` rows written in the transaction of
  the decision; the dispatcher reads the row, calls GitHub and records the
  outcome in later transactions.
* **People**: approvals, declines, dibs, recoveries, policies.
* **The mutex row** (`db.py:38`): every writing transaction first updates it, so
  transactions are serial, on SQLite and PostgreSQL alike.  What interleaves is
  transactions, GitHub requests, worker steps and the agent.

### 1.3 What makes each component correct

* Coordinator: an issue passes from free through offered, working, review and
  publishing, with one holder at a time and a new turn for each (module
  `Allocation`).  In detail: a person holds at most one lease; a lease that can act is the one
  its issue points to; every token reserved is settled once; unknown usage is not
  free; evidence under review is frozen; no handover before the holder was silent
  long enough; whoever runs is authorised by the rules in force now; nobody waits
  for ever on an offer, a handover or a dead device.
* Iteration: rounds are bounded; escalation ends only with the pull request; an
  approval is of the commit that is there.
* Dispatcher: only approved commits reach GitHub; what is shown as submitted is
  there; each fast-forward counts once; each job ends.  An issue has at most one
  status comment, and it shows the latest text once the job counts as done.
* Sign-in: one approval yields one session, in the browser that began it.
  Limiter: nobody is refused for calls recorded before the window, or refused themselves.
* Supervision: a result means that all output was received; nothing is left behind,
  not the child nor a raw terminal; no child delays the tick that keeps the lease.
* Worker: evidence is true of the commits it names, their contents as long as nothing
  that outlived a run edits between the runs; a restart resumes in step;
  the trace is the transcript; usage is never lost by an exception nor lowered;
  a revoked worker stops; a restart alone retries nothing.

`PROJECT.json` lists under "hazards" each place where these could go wrong, with
the properties that would show it.

## 2. Modules

```
Allocation  (what the coordinator promises)
    ^
    | implements (Handover!ImplementsAllocation)
    |
Handover -> Coordinator <- Iteration <- Publication    (-> EXTENDS)
    ^            ^                           ^
MCCoordinator  CoordinatorProofs       MCPublication
    HandoverProofs -> Handover, CoordinatorProofs
    GovernanceProofs -> CoordinatorProofs
    PublicationProofs -> Publication, GovernanceProofs

Worker <- WorkerProofs        StatusComments <- StatusCommentsProofs
   ^                          SignIn, RateLimiter <- SignInProofs
   |                          Supervision <- SupervisionProofs
MCWorker <- MCServices -> StatusComments, SignIn, RateLimiter, Supervision
```

### 2.1 Coordinator

One record per row: `project` and `ledger` (both columns of `Project`), `member`,
`device`, `declined`, `work`, `lease`, `submission`, `job`.  An issue is a number
in order of creation, a lease too; a lease row not inserted yet has state
`"none"`.  A commit is the lease whose branch carries it and its number there.

*One handler is one action*, since handlers are serial.  Four transactions
release leases and then go on with what they find: a poll that reclaims an
orphan, the sweep, a changed policy, and a revoked installation.  These are a
first action and a rest; `txn` says what the open transaction still has to do,
and every other handler asks for `txn = Closed`.  No behaviour has a step of
another transaction in between, exactly as with the mutex row.  A poll starts with the
sweep of `domain.py:299`: in the model it asks that nothing is due, because a
`Sweep` just before it does the same.

*Time* is the age of a row.  The code only compares `now - timestamp` with
constants, so `age` (of a lease's last progress), `dibLeft` and
`submission.since` count ticks and stop just above the largest constant.
`Tick` may happen between any two transactions, not within one.

*What the model leaves out*: titles, bodies, comments, labels and audit rows;
sessions; body limits.  `EligibleAs` keeps every condition of
`Coordinator.eligible`; where the code takes the first row of a SELECT without an
order, the model takes any.

### 2.2 Allocation and Handover

`Allocation` is the promise in one page: an issue is free or with one person, is
taken up only when free and only by somebody who has nothing else, with a new turn
each time, and goes through its stages in order.  It knows no devices, leases,
clocks, policies or transactions.  `Handover` maps each issue's row and the lease it
points to onto it: the generation is the turn, the checkpoint what a successor
starts from; paused, blocked, stale or dibbed leases are all "working", since to
whoever waits for the issue they are.  `ImplementsAllocation` is
`Abstract!Spec` under that mapping; states in the middle of a sweep are mapped too.

### 2.3 Iteration

Adds GitHub's side (`remote`: head and state of each pull request), the webhooks
under way (`webhooks`, a set: any order, possibly lost), and `lastReview`.
`GitHubStep` is what reviewers and outsiders do; `WebhookStep` is the handler's
transaction, guards in the order of `request_revision`.

### 2.4 Publication

The whole server.  A dispatcher goes through `Claim`, `Prepare` (the read and
validation of `deliver`), one or two GitHub requests (`PublishBranch`,
`PublishPullRequest`, or `UpdateBranch`) and `Record`, each its own step.
`DeliveryFails` is an exception at any of them, before or after GitHub acted;
`Crash` loses the claim but not the row; `LockLapses` ends a lock whose
dispatcher died or is slow.  Publications of `outbox.py` are modelled in full.

### 2.5 Worker

One lease executed by one device.  `pc` is where `execute()` is; a checkpoint is a
subroutine, so `back` is where it returns to; `sending` is how far `event()` got.
`mem` is `self.state`, `disk` is `state.json`: only `Save` makes them equal, and
`Kill` sets `mem` back to `disk`.  `log` is the transcript, `trace` the server's
events.  A tree is what the code's checks tell apart: whether specification
artifacts exist, the version of the tests, the version of the production code,
files a test run left.  `Edits` are the trees an agent may leave, good and bad; it
may edit at any time a child runs, also during the supervisor's checkpoint.

A command has a session of its own (`process.py:67`).  Killing the worker signals nobody
in it, so `Kill` may leave the agent or the tests running, and `kill_tree`
(`process.py:23-42`) may miss a helper when a run ends in order (`Detach`).  Either is
`loose` from then on, and `StrayEdits` lets it change the checkout at any step of the
worker, the restarted one included; `strays` counts those edits.  `EvidenceIsTrue` says
which commit was tested and shown without regard to them, and what its tree contains as
long as there was none; `EvidenceSurvives` drops that condition and does not hold (3.3).

A sequence number may be reused: a process killed after the transcript was
written (`worker.py:245`) and before the state was saved numbers its next event
the same.  The server keeps the first and refuses the other, which stops the
worker.  `TraceFollowsTranscript` is what holds in spite of that.

`Worker` has its own copy of a lease at the server, with the fence reduced to the
lease's state: whatever makes the fence refuse is `Revoke` or a blocked lease.
The full fence is in `Coordinator`.

### 2.6 StatusComments

`outbox` holds one row per comment: its state, the number of its latest text,
`attempts`, whether it is `due` (the back-off and the lock are past) and whether the
dispatcher's token is still on it (`claimed`).  Texts are numbers in order.  Every
handler that changes a lease or a submission replaces the text (`Rewrite`: back to
pending, the token gone).  The dispatcher claims, reads the text, looks for the App's
comment, edits it or posts one, and records: five steps, `FailComment` between any of
them and also after GitHub acted, `Restart` anywhere.  `comments` is what GitHub
shows.  There is one dispatcher, as `docs/deployment.md:44` asks for: two could send
an old and a new text of one comment in either order.

### 2.7 SignIn and RateLimiter

A *ticket* is an `OAuthState` or `DeviceFlow` row; `row` is "open" until it is
deleted or consumed.  A *request* is a handler between two transactions: `step` says
what it does next.  `Redeem` deletes the state before GitHub is asked;
`CheckCode`, `AskGitHub` and `Complete` look at the row before and after.  Pages
(`startDeviceFlow`) poll, lose answers, are closed and reopened.

`RateLimiter` takes `hit()` apart: it reads the clock once (`now`), then looks at the
oldest entry, drops it, counts and appends the reading, each access to the deque a step
of its own.  `TimePasses` between any two of them, so a reading may be appended behind
younger ones and the deque need not be sorted.  `history` is the reference: of every
recorded call, the reading and the time of its append.

### 2.8 Supervision

`mode` is the function that runs, `at` where it is.  The leader and a helper are
alive, stubborn (deaf to SIGTERM) or dead; `pipe`, `reader` and `queue` are the way of
the output.  `clock` holds the limits that have run out, so that a step between two
looks at the clock may take arbitrarily long.  Every call that may raise has a
disjunct that does.

## 3. Runs

All passing runs search their whole state space.  Deadlock is checked in every
run but `worker` and `services`: there the lease, the call or the bounded input
simply is over.

| Run | Configuration | Distinct states | What it shows |
|---|---|---|---|
| `handover` | `MCHandover.cfg`: 2 people, 3 devices, 2 issues, 2 leases, one device managed | 503 000 | the coordinator implements `Allocation`; exclusive allocation, pointers and generations, the ledger, settlement, frozen evidence, fenced checkpoints, no early handover, unknown is not free |
| `governance` | `MCGovernance.cfg`: 1 issue, 2 leases, 2 policies, changing roles, edits, suspension | 399 000 | what is shown for an issue agrees with its lease; whoever runs or publishes is authorised and approved by the rules now in force |
| `progress` | `MCProgress.cfg`: as handover with 1 issue, with fairness | 43 000 | offers, handovers and orphans are resolved |
| `rounds` | `MCRounds.cfg`: 3 leases, 2 reviews, 2 dispatchers, outsiders push, merges, 1 lapse | 283 000 | human gate, bounded rounds, each fast-forward counted once, sticky escalation, approvals of the head, one pull request |
| `races` | `MCRaces.cfg`: 1 dispatcher, 2 attempts, 1 crash, edits that cancel | 202 000 | submitted means on GitHub; deliveries and publications end |
| `worker` | `MCWorker.cfg`: both kinds of lease, 6 trees, 1 event, 1 failure, 1 kill, 1 edit by a process that outlived its run | 3 700 000 | whatever is reviewed is true evidence; phases stay in step |
| `services` | `MCServices.cfg`: five parts, see below | 237 000 | worker: trace, usage and the stop of a revoked worker; comments: current and decided; one session per sign-in; refusals are due; output complete, nothing left behind, ticks go on |

`MCServices` checks five modules that share no state in one run: `part`, chosen in the
initial state, is the one that moves, so the behaviours are those of each part by
itself and not their product.  The other parts stay in their initial states.  Each
part's fairness is stated for all: a part at rest has none of its fair steps enabled
there (no lease begun, no job, no child), so it excludes no behaviour of another.

### 3.1 Why the bounds are enough

* *Two people, up to two devices of one*: one person's devices compete with each
  other (reclaim, one lease per person) and with the other person (dibs).
* *Two or three leases*: the second builds on the first's checkpoint, is handed
  over from it, or revises its pull request; the third is the round that
  the policy refuses or that follows one cancelled.
* *One or two ticks per period*: what matters is which period ends first;
  `StaleAfter = 2` with `RecoveryWindow = 1` separates a lease that is orphaned
  from one that is stale.
* *Budget of 3* with reservations of 1 and 2 (`handover`): two leases of different
  people fit, a second one of 2 after a full charge does not, so the budget's
  guard is met on both sides.
* *`MaxVersion = 1`*: one commit per lease's branch.  Commits of different leases
  differ; a checkpoint that arrives after a later one of the same lease would
  need more, and is listed as a hazard without a property.
* *One failure and one kill* in `Worker` hit every point of both kinds of lease,
  before and after every call took effect, and each in any order with the other.  One
  edit by a survivor (`MaxStrays`) comes at any step of the worker, to any of the trees;
  the properties of that run either do not depend on the number of such edits, as the
  proofs show, or speak of none.  Test runs that leave files behind (`MayLeave`) would
  double that run, which would then exceed its time; the proofs of 4.2 cover them.
* *One comment, 3 texts, 3 attempts, 1 restart, 1 retry*: jobs share nothing but
  the dispatcher; a third text arrives while the second is delivered over the first,
  and the last attempt can be the first after a retry.
* *One ticket, 2 browsers, 2 requests*: tickets share no rows, and the race is between
  two requests of one ticket, from one browser or from two.  The proof covers any
  number of each.
* *Limit 2, window 2, 2 threads, 3 recorded calls, a clock up to 4*: two threads can both
  find the same oldest call, or both find the last place free; a call that began at 0 can
  be appended behind one of 1, and a third be refused at 2 for both; and there is time for
  every entry to leave the window.  The proof has no bounds.
* *Pipes of one line, a queue of 2*: both readers block on a full pipe and on a full
  queue.
* *`MaxLapses = 1`* puts two dispatchers on the same job, each at any point.

`rounds` treats the two dispatchers as interchangeable (`MCSymmetry`), which no
property of that run distinguishes; runs with liveness use no symmetry.

### 3.2 Fairness

* `WF(Tick)`: the clock runs.  `WF(OpenTransaction)`: a transaction ends.
* `SF(Sweep)`: every API process runs `dispatch` in an endless loop that sweeps
  each time; its step needs the mutex row, which others hold in between, so weak
  fairness would not do.  `SF(PollReclaims(d))`: a device's worker polls for ever,
  and each poll waits for the row likewise.
* Dispatcher: `SF` of `Claim` and of the delivery's own steps, since the loop goes
  on and a GitHub request ends by its time limit; `WF(LockLapses)`: the lock's
  300 s end.  Nothing is assumed of people, of GitHub's success or of a lock's
  holder.
* Comments: `WF(Dispatch)`, the same loop, and `WF(Lapse)`: a back-off or a lock
  ends.  No request has to succeed.
* Supervision: `WF(Loop)`, the worker's own thread.  Nothing is assumed of the child,
  of its readers or of the user at the keyboard.
* Worker: `WF(Supervise)`: Python goes on.  `SF(Tick)`: `run_process` calls
  `on_tick` at least every `tick_seconds`, however long the child runs and
  whatever it prints; an event in progress delays it, hence strong.  Nothing is
  assumed of the agent: it may never exit, and a revoked worker still stops.

### 3.3 What the code says and does not do

Five runs show a documented claim that the code does not keep.  Each checks that
one claim; TLC's trace is the scenario.

| Run | Claim | What happens |
|---|---|---|
| `stuck_round` | `iteration.py:41`: "revising" is a round in flight | an edit of the issue, or a changed policy, cancels the revision; `release(requeue=False)` does not reopen its submission, which stays "revising", and every later review is answered "already_open" |
| `own_head` | `app.py:1458`: a moved head escalates as a commit Co4 did not publish | the App's own fast-forward, reported after its lease ended, escalates the submission, even one already merged |
| `drift` | `docs/architecture.md:41`: drift is rejected or flagged | a push reported before the submission's row is recorded finds no row and is dropped |
| `retry` | `docs/deployment.md:50`: a restart alone must not authorise a retry | the report of a stop may fail, silently; then the server's lease still runs, and the restart takes that for a recovery |
| `survivor` | `docs/workflow.md:15`: changed production code stops the red phase | the worker is killed, its agent goes on; the restarted worker checks the red checkpoint (`worker.py:347`), the agent edits production code, the commit (`worker.py:349`) has it; green and verify look only at tests and specification, and the evidence reaches review |

Others were met on the way and are stated by no run:

* `docs/architecture.md:39` lets triagers retry failed deliveries; `app.py:768` asks for
  the owner or a maintainer.
* `docs/architecture.md:43` has a created pull request recorded even if its lease was
  cancelled.  If the answer of the creation is lost and the lease is cancelled before the
  retry, the retry ends the job as cancelled without asking GitHub (`outbox.py:78-93`).
* `app.py:132` refuses who "has already reached the limit within the current window".  By
  the readings in the deque that is not exact: with limit 2 and window 2, a call that
  began at 0 and was appended behind one of 1 still counts for a call at time 2.
  `RefusalsAreDue` therefore counts calls from when they were recorded.
* An issue with two submission rows (4.8).

## 4. Proofs

### 4.1 CoordinatorProofs

From the named assumptions of `Coordinator` alone (`DevicesAssumption`,
`BoundsAssumption`, `InputsAssumption`), for every number of people, devices,
issues and leases and every policy:

| Theorem | Statement |
|---|---|
| `Invariance` | `Spec => []IInv` |
| `TypeCorrect` | `Spec => []TypeOK` |
| `PersonHoldsOne` | `Spec => []OneActivePerUser` |
| `LeaseIsCurrent` | `Spec => []ActiveIsCurrent` |
| `SettlementIsTimely` | `Spec => []SettledWhenOver` |
| `EvidenceIsFrozen` | `Spec => ReviewIsFrozen` |

None of these invariants is inductive alone.  `OneActivePerUser` needs that
nothing but an allocation activates a lease; `ActiveIsCurrent` needs that a pointer
is to a lease of that issue (`PointerKnown`; an allocation asks only that the issue
has no lease); `SettledWhenOver` needs that evidence under review is never on a lease
that may still run (`RowOK`); and an open transaction must only concern rows that
exist (`TxnOK`, `Born`).

`IInv` is the conjunction of two parts.  `CInv` (types, `TxnOK`, and `Safe`: the rows,
the pointers and one active lease per person) is kept by every step of the whole
system.  `Strict` (`SettledOK` of every row, and `PointerIsLive`: an issue points to
an active lease only) is not: a webhook about a pull request ends the active lease
unsettled and leaves the issue pointing to it (`app.py:1462`).  4.8 builds on `CInv`.

The argument has two lemmas and a case per action.  `AllocateIsSafe`: the one
action that activates a lease keeps both.  `QuietIsSafe`: a step keeps them if
every lease row only `Evolves` (device, issue and generation stay, an ended lease
does not come back, evidence under review stays, what ends is settled) and the
pointer of an issue is cleared in the step that ends its lease (`Pointers`);
`LooseIsSafe` asks less (`Follows`, `PointersStay`) and gives `Safe` alone.  Each
handler then has a lemma that its rows evolve; `ReleaseIsSafe` serves the seven that
release.

### 4.2 WorkerProofs

From `WorkerAssumption`, for every reservation, every set of trees and any number of
events, failures, kills, and edits of processes that outlived their run:

| Theorem | Statement |
|---|---|
| `WorkerInvariance` | `Spec => []IInv` |
| `WorkerTypeCorrect` | `Spec => []WorkerTypeOK` |
| `ResumesInStep` | `Spec => []PhasesInStep` |
| `TraceIsTranscript` | `Spec => []TraceFollowsTranscript` |
| `NothingReportedIsLost` | `Spec => []StopsKeepUsage` |
| `ChargesNeverFall` | `Spec => UsageNeverFalls` |
| `EvidenceHolds` | `Spec => []EvidenceIsTrue` |

`PhasesOK` says what is saved when: the phase in memory and on disk agree, and the
server is at it or one behind.  `EventsOK` is needed since acknowledging one
number acknowledges all below it: numbers rise by at most one along the
transcript, so the first event above `ack` is `ack + 1` and leaves no gap.
`UsageOK` says where tokens are: in the meter while a child runs, in the state
otherwise; so raising an exception, which adds the meter to the state, loses
none.

`EvidenceIsTrue` speaks of the review alone, and what the review asserts was found out
in phases long over.  `EvidenceInv` follows it through them: what was saved is what memory
says, so a restart rests on the same evidence (`Agrees`); which phase is worked on where
(`PlacesOK`); the tree a phase begins from, also when the phase guard has to put it back
(`BeginningsOK`); the tree that is tested is the one that is committed (`TestedOK`); the
commits named red and green have the trees that failed and passed (`ShownOK`).  Then what is
submitted is what the worker knows (`ReviewedOK`).  What these parts say of the contents of
a tree is under `Quiet`: that no process edited between the runs, for then the tree that was
tested need not be the one that is committed.  Which commit is whose needs no such condition:
the head, the commit called green and the one under review are the same whoever edits.

### 4.3 HandoverProofs

| Theorem | Statement |
|---|---|
| `Refinement` | `Spec => ImplementsAllocation` |

Under `IInv` of `CoordinatorProofs` every step is of one of three kinds.  It changes
how no issue looks (polls that find nothing, heartbeats, pauses, policies, the clock);
or it changes one active lease's row (`RowLook`: accepted, checkpoint, submitted,
approved, recovered); or it ends or allocates a lease (`ReleaseLook`, `AllocateLook`).
One lemma per action of `Coordinator` says which, and a lemma per action of
`Allocation` makes the step.  The refinement needs more than the properties proved
before: a lease with evidence stands in "review" and not in "working" even when it was
paused, dibbed or went stale in between, which is `RowOK`'s link between the state and
the evidence; and whoever takes an issue is idle, also in the middle of a sweep that
released several leases, which is `ActiveIsCurrent` with `OneActivePerUser`.

### 4.4 SignInProofs

From `SignInAssumption`, for any number of browsers, overlapping requests and sign-ins:

| Theorem | Statement |
|---|---|
| `SignInInvariance` | `SignInSpec => []IInv` |
| `SignInTypeCorrect` | `SignInSpec => []SignInTypeOK` |
| `SignsInOnce` | `SignInSpec => []OneSessionPerSignIn` |

The two ways in are safe for different reasons.  A redirect's row is spent *before*
GitHub is asked, so at most one request is ever past it with one ticket (`Alone`), and
that ticket has no session yet (`RequestOK`).  A device code's row is spent *with* the
session, in one transaction; many requests may be past the first look, and it is
enough that an unspent ticket has no session (`TicketOK`).  That the session is the
right browser's follows from what cookies and pages can hold (`BrowserOK`).

The same module proves the limiter, from `LimiterAssumption`, for any limit, window and
number of callers:

| Theorem | Statement |
|---|---|
| `LimiterTypeCorrect` | `LimiterSpec => []LimiterTypeOK` |
| `RefusedIsDue` | `LimiterSpec => []RefusalsAreDue` |

A caller that is refused has counted `Limit` entries, and each must be a call recorded in
its window.  The deque holds the readings of the last calls recorded, in the order of their
appends (`Remembers`), which need not be the order of the readings.  What is in order is the
time of the appends, and no call is appended before its reading (`Chronicle`).  So when a
caller's loop stops at an oldest entry whose reading is in its window, that call and all
recorded after it were appended in its window too; and others that prune meanwhile
(`Forgotten`) only take entries away from the front (`Counted`).

### 4.5 StatusCommentsProofs

From `CommentsAssumption`, for any number of comments, texts, failures and restarts:

| Theorem | Statement |
|---|---|
| `CommentsInvariance` | `CommentsSpec => []CommentsInv` |
| `CommentsTypeCorrect` | `CommentsSpec => []CommentsTypeOK` |
| `DeliveredIsCurrent` | `CommentsSpec => []CommentIsCurrent` |

`DeliveryOK` is what one dispatcher may rely on between its transactions: its row
stays pending or working, its text is the row's for as long as its claim is on the
row, and whether a comment exists is still what it found.  It needs the single
dispatcher, and only that: a restart keeps it since nothing is remembered.  The type of
`attempts` is a fact of its own (`RowOK`): a new text does not reset the failures, so a
row that had failed is given one more attempt with each text.

### 4.6 SupervisionProofs

From `SupervisionAssumption`, for pipes and a queue of any size:

| Theorem | Statement |
|---|---|
| `SupervisionInvariance` | `SupervisionSpec => []SupervisionInv` |
| `SupervisionTypeCorrect` | `SupervisionSpec => []SupervisionTypeOK` |
| `LeavesNothingBehind` | `SupervisionSpec => []NothingLeftBehind` |
| `ReceivesAllOutput` | `SupervisionSpec => []OutputIsComplete` |

What is left behind follows from where a call of each mode can be (`Placed`).
Completeness of the output counts: a reader that has gone left one end, which is in
the queue or was received (`Counted`), and the last to go leaves nothing behind its
end (`EndsLast`).  So two ends received mean an empty queue, and a reader only ends
when its pipe is empty and nobody is left to write (`Drained`).  `StillOrNot` says
that all other steps leave the output alone.

### 4.7 GovernanceProofs

From the same assumptions as 4.1:

| Theorem | Statement |
|---|---|
| `Governs` | `Spec => []GInv` |
| `LedgerBalances` | `Spec => []ReservationLedger` |
| `WorkIsShown` | `Spec => []WorkShowsLease` |
| `RunningStaysAuthorised` | `Spec => []RunningIsAuthorised` |
| `PublishedStaysApproved` | `Spec => []PublishingIsApproved` |
| `HandoverIsLate` | `Spec => NoEarlyHandover` |
| `UnknownIsCharged` | `Spec => UnknownIsNotFree` |
| `CheckpointStaysFenced` | `Spec => CheckpointIsFenced` |

*Sums.*  `ReservationLedger` is a sum over rows.  `MapThenSumSet` is a recursive function on
the subsets of its argument that takes out the element CHOOSE picks, so even that it does
not depend on the order must be proved.  `Equation` gets the defining equation from the
fact that strict inclusion of finite sets is well founded (a smallest set without the
equation could be given it); `Total...` then say that a sum takes out any element, is
equal for equal rows and changes by one row's difference.

*`GInv`* adds to `IInv` what the checked properties need and do not say.  A lease row not
yet allocated reserves nothing (`UnbornRows`).  The silence before a dib and what is left of
its recovery window make up the whole window (`Windows`): that is what `NoEarlyHandover`
counts.  Reviewed evidence has a commit and approvals are of that commit (`Approved`), and
a job is for it (`Queued`): `PublishingIsApproved` rests on both.  Without pull requests no
lease is a revision (`FirstRound`), so what a release shows of an issue is as
`WorkShowsLease` says.  A closed transaction has no leases left to look at (`TxnLeases`):
while one is open, `RunningIsAuthorised` is not asked of the leases it still holds.

*The argument.*  Each action's rows `Continue`, `End` or `Start`; one lemma per part of
`GInv` says that each kind keeps it, and one lemma per action says of which kind it is.

*`Core` and `Shown`.*  `GInv` is the conjunction of the two.  `Core` (accounts, windows,
approvals, queue, transactions, authority) is inductive under `CInv` alone: of `IInv`'s
stricter part it needs only that a settled lease is under review or over (`Unsettled`).
`Shown` (`FirstRound`, `WorkShowsLease`) is kept only while there are no pull requests.
`NextKeepsCore` says both; 4.8 uses the first half.

### 4.8 PublicationProofs

From the assumptions of 4.1, `ReviewsAssumption` and `DispatchersAssumption`: for any
number of dispatchers, reviews, pushes of outsiders, lost webhooks, failed requests,
restarts, lapsing locks and retries:

| Theorem | Statement |
|---|---|
| `SystemInvariance` | `SystemSpec => []PubInv` |
| `PublicationTypeCorrect` | `SystemSpec => []PublicationTypeOK` |
| `NothingElseIsPublished` | `SystemSpec => []OnlyApprovedIsPublished` |
| `SubmissionsAreReal` | `SystemSpec => []SubmittedIsOnGitHub` |
| `EachRoundIsCountedOnce` | `SystemSpec => []RoundsAreCountedOnce` |
| `SystemHoldsOne` | `SystemSpec => [](OneActivePerUser /\ ActiveIsCurrent)` |
| `SystemEvidenceIsFrozen` | `SystemSpec => ReviewIsFrozen` |
| `RoundsAreUnderWay` | `SystemSpec /\ []OnePullRequest => []RoundInv` |
| `RoundsAreLegal` | `SystemSpec /\ []OnePullRequest => [][LegalRounds]_systemVars` |
| `EscalationStays` | `SystemSpec /\ []OnePullRequest => EscalationIsSticky` |
| `RoundsStayBounded` | `SystemSpec /\ []OnePullRequest => []RoundsAreBounded`, if no policy raises `maxRounds` |
| `HeadsAreOnGitHub` | `SystemSpec /\ []OnePullRequest => []HeadInv` |
| `ApprovalsAreOfTheHead` | `SystemSpec /\ []OnePullRequest => ApprovalIsOfTheHead` |
| `SystemGoverns` | `SystemSpec => []Core` |
| `SystemLedgerBalances` | `SystemSpec => []ReservationLedger` |
| `SystemRunsAuthorised` | `SystemSpec => []RunningIsAuthorised` |
| `SystemPublishesApproved` | `SystemSpec => []PublishingIsApproved` |
| `SystemHandsOverLate` | `SystemSpec => NoEarlyHandover` |
| `SystemChargesUnknown` | `SystemSpec => UnknownIsNotFree` |
| `SystemCheckpointIsFenced` | `SystemSpec => CheckpointIsFenced` |

`PubInv` adds to `CInv`:

* A job is for the reviewed commit, approved by its contributor (`JobsOK`); what is on a
  submission branch is a job's commit, unless outsiders pushed it (`HeadsOK`).  So
  `OnlyApprovedIsPublished` does not rest on what a dispatcher read before it called
  GitHub: a stale read may publish for a lease that was cancelled since, never another
  commit.
* While the lock is a dispatcher's own, its job is "working" (`ClaimsOK`): nobody else
  moves the job on, so two dispatchers never both record it, and a failure is never
  counted past the limit (`AttemptsOK`).  What it is about to record as published has a
  pull request, since a pull request may end but does not go away.
* Leases are allocated in order and an issue points to its last (`InOrder`).
  `SubmittedIsOnGitHub` needs that: a fast-forward overwrites the head of a submission, and
  the new head must not be older than any lease submitted before.
* A recorded submission has a pull request and a head no older than itself
  (`SubmissionsOK`).

`RoundsAreCountedOnce` equates a sum over submission rows with a cardinality over lease
rows; `RoundsRise` and `RoundsGain`, from the sums of 4.7, say how one row changes the
sum.  The step that counts a round is the step that submits the revision.

*Rounds and heads.*  Six theorems are about an issue with one pull request.
`OnePullRequest` is an invariant of the run `rounds`, not of the system: an issue edited
while its pull request is open is queued again, and a publication cancelled after its
pull request was created is recorded and started anew.  Either gives the issue two
submission rows, of which `allocate`, `_record_update` and `route` each take the
first of an unordered SELECT.  If the review of one pull request makes both take
the row of the other, that other is revised, although it was merged.  "Escalation is sticky"
would fail only if two SELECTs of one transaction, `route`'s and `allocate`'s, returned
different rows (the model, which picks anew each time, allows that): routing accepts one,
`allocate` takes the escalated other.  That depends on the database's choice more than on
the code's steps, so no run claims it.  The bound on rounds also needs a
fixed limit: a maintainer who raises `maxRounds` allows more.

* `RoundInv`: an issue that asks for a revision has a submission "changes_requested" or
  "escalated", an active revision one "revising", and a revision is handed over only
  while its round is asked for.  From it `LegalRounds` follows, action by action: the
  edges that the row of a pull request may take.  `EscalationStays` reads them off;
  `RoundsStayBounded` adds that a round in flight was within the limit (`RoundsLeft`).
* `HeadInv`: while a submission waits for a review no revision of its issue is later than
  its head (`NoneNewer`), which is on its branch unless outsiders pushed (`HeadOnGitHub`).
  What makes it inductive is what a dispatcher knows between its request and its record
  (`RequestsOK`): what it put on the branch is there, or outsiders or a later revision
  moved it.  That a fast-forward only goes on from the lease's base (`BasesOK`,
  `DescendsFrom`) keeps a slow dispatcher from putting back an earlier round.

*Governance in the whole system.*  The last seven need no `OnePullRequest`.  A step of the
coordinator keeps `Core` as in 4.7 (`NextKeepsCore`).  Every other step is `Passing`: it
leaves accounts, evidence and approvals alone, and if it changes a lease's state then to one
in which nothing runs, waits to recover or is published (`PassingKeepsCore`).  So the ledger
stays balanced also when a webhook ends a lease: it leaves the row unsettled and its
reservation counted, until an edit of the issue or a change of policy releases the lease
it still points to; nothing makes that happen (hazard `app.py:1462`).  What does not carry
over is `Shown`: the same webhook leaves the issue pointing to an ended lease.

*The argument.*  `Carried` is what no step of the system takes from a lease (its issue,
its kind, that it was submitted, the evidence and approval under review).  A lemma per part
of `PubInv` says what keeps it; `RowsUntouched`, `WebhookFrame` and `RecordFrame` put them
together for the steps that write no lease, end leases, or submit one.

### 4.9 Model-checked only

* Liveness (`progress`, `races`, `StopsWhenRevoked`, `TextsAreDecided`, `TicksGoOn`):
  fairness and ENABLED are beyond the prover.
* Without `OnePullRequest`, the rounds and heads of 4.8.  That it holds is checked where
  issues are not edited (`rounds`).

The other way round, the types of `StatusComments`, `SignIn`, `RateLimiter` and
`Supervision` are proved (4.4 to 4.6) and no run checks them again.

## 5. Plan

Done: every module above and its proofs.  Left: what could be said of an issue with two
pull requests (4.8), and label jobs.

## 6. Not modelled, and why

* Label jobs: one idempotent request, no later version that could be overtaken.
* Two dispatchers on one comment: deliberately outside, as said in 2.6.  (Two
  dispatchers on one publication are modelled: there the lock may run out.)
* What the code does not promise, and the models show: the limiter lets more than
  `Limit` calls through when threads count at the same time; `kill_tree` leaves a
  helper of a batch command alone when the leader has exited or dies of SIGTERM;
  a text of a comment inherits the failures of the texts before it.
* SQL, SQLite's locking, schema creation, HTTP, signals' delivery, pseudo-terminals:
  libraries and operating system; the models start from what they promise.
* The demo login, logout, the dashboard's reads, body limits, OAuth's and webhooks'
  signatures, redaction, encryption, size limits, configuration and the command line:
  input checks and one-shot commands without a protocol of their own.
* Prompts, command lines, artifact wording, event formats, the texts of comments, the
  client's views: text.
