----------------------------- MODULE Iteration -----------------------------
(***************************************************************************)
(* Review of the published pull requests: co4/iteration.py and the pull    *)
(* request branch of the GitHub webhook (co4/app.py).  A pull request is   *)
(* named by the lease whose publication opened it, like its submission.    *)
(*                                                                         *)
(* GitHub and its users are the environment: they review, push to, close   *)
(* and merge pull requests, and each event becomes a webhook that is       *)
(* delivered late, out of order or never.  A redelivered webhook has the   *)
(* id of a Delivery row and changes nothing, so a delivered one is simply  *)
(* taken away.                                                             *)
(***************************************************************************)
EXTENDS Coordinator

CONSTANTS
  MaxReviews,   \* bound: reviews and revise comments ever written
  Drifts,       \* {TRUE} if outsiders push to pull request branches, else {}
  Losses,       \* {TRUE} if webhooks may be lost, else {}
  Closures,     \* how pull requests end: a subset of {"merged", "closed"}
  Mentions      \* the sets of users a review may mention

Foreign == <<NoLease, 1>>   \* a commit that Co4 did not publish
Heads == Commits \cup {Foreign}
ReviewIds == 1..MaxReviews
NoReview == 0
Triggers == {"changes_requested", "revise_comment"}

ASSUME ReviewsAssumption ==
  /\ MaxReviews \in Nat
  /\ Drifts \subseteq BOOLEAN /\ Losses \subseteq BOOLEAN
  /\ Closures \subseteq {"merged", "closed"}
  /\ Mentions \subseteq SUBSET Users

VARIABLES
  remote,      \* on GitHub, by lease: the submission branch's head and the PR
  webhooks,    \* webhooks not delivered yet
  lastReview,  \* submission.last_review_id
  reviews      \* reviews written so far

githubVars == <<remote, webhooks, reviews>>
iterationVars == <<remote, webhooks, lastReview, reviews>>

Webhooks ==
  [type : Triggers \cup {"approved", "synchronize", "merged", "closed"}, pr : Leases,
   head : Heads, id : ReviewIds \cup {NoReview}, mentions : SUBSET Users]

IterationTypeOK ==
  /\ remote \in [Leases -> [head : Heads, pr : {"none", "open", "merged", "closed"}]]
  /\ webhooks \subseteq Webhooks
  /\ lastReview \in [Leases -> ReviewIds \cup {NoReview}]
  /\ reviews \in 0..MaxReviews

-----------------------------------------------------------------------------
(* GitHub *)

Hook(type, k, head) ==
  [type |-> type, pr |-> k, head |-> head, id |-> NoReview, mentions |-> {}]

\* A reviewer with write permission acts on the head the pull request has now.
WriteReview(k, type, mentions) ==
  /\ remote[k].pr = "open"
  /\ reviews < MaxReviews
  /\ reviews' = reviews + 1
  /\ webhooks' = webhooks \cup
       {[Hook(type, k, remote[k].head) EXCEPT !.id = reviews + 1, !.mentions = mentions]}
  /\ UNCHANGED <<vars, remote, lastReview>>

PushForeign(k) ==
  /\ remote[k].pr = "open" /\ remote[k].head # Foreign
  /\ remote' = [remote EXCEPT ![k].head = Foreign]
  /\ webhooks' = webhooks \cup {Hook("synchronize", k, Foreign)}
  /\ UNCHANGED <<vars, lastReview, reviews>>

EndPullRequest(k, how) ==
  /\ remote[k].pr = "open"
  /\ remote' = [remote EXCEPT ![k].pr = how]
  /\ webhooks' = webhooks \cup {Hook(how, k, remote[k].head)}
  /\ UNCHANGED <<vars, lastReview, reviews>>

LoseWebhook(m) ==
  /\ m \in webhooks
  /\ webhooks' = webhooks \ {m}
  /\ UNCHANGED <<vars, remote, lastReview, reviews>>

GitHubStep ==
  \/ \E k \in Leases :
       \/ \E type \in Triggers, mentions \in Mentions : WriteReview(k, type, mentions)
       \/ WriteReview(k, "approved", {})
       \/ \E drift \in Drifts : drift /\ PushForeign(k)
       \/ \E how \in Closures : EndPullRequest(k, how)
  \/ \E lost \in Losses, m \in webhooks : lost /\ LoseWebhook(m)

-----------------------------------------------------------------------------
(* The webhook's transaction *)

Deliver(m) ==
  /\ txn = Closed
  /\ m \in webhooks
  /\ webhooks' = webhooks \ {m}
  /\ UNCHANGED <<remote, reviews>>

Recorded(k) == submission[k].state # "none"
\* Mutant: the round limit counts versions one too few.
RevisionsSpentLess(k) == Greatest(0, submission[k].round - 2)

RevisionsSpent(k) == Greatest(0, submission[k].round - 1)
InFlightStates == {"changes_requested", "revising"}

\* Mutant: a review resumes an escalated submission.
HeardAlways(m) ==
  /\ Recorded(m.pr)
  /\ m.type \in project.policy.triggers
  /\ submission[m.pr].state \notin {"merged", "closed"} \cup InFlightStates
  /\ m.type = "revise_comment" \/ m.head = submission[m.pr].head

\* The guards of request_revision, in order; a comment carries no head commit.
Heard(m) ==
  /\ Recorded(m.pr)
  /\ m.type \in project.policy.triggers
  /\ submission[m.pr].state \notin {"merged", "closed", "escalated"}
  /\ m.type = "revise_comment" \/ m.head = submission[m.pr].head
  /\ lastReview[m.pr] # m.id
  /\ submission[m.pr].state \notin InFlightStates

RequestRevision(m) ==
  LET k == m.pr
      w == lease[k].work IN
  /\ m.type \in Triggers
  /\ Deliver(m)
  /\ \/ /\ ~Heard(m)
        /\ UNCHANGED <<lease, work, submission, lastReview>>
     \/ /\ Heard(m) /\ RevisionsSpent(k) >= project.policy.maxRounds
        /\ submission' = Escalated(k)
        /\ UNCHANGED <<lease, work, lastReview>>
     \/ /\ Heard(m) /\ RevisionsSpent(k) < project.policy.maxRounds
        /\ lease' = [l \in Leases |-> IF l \in Latest(w)
                                      THEN [lease[l] EXCEPT !.feedback = m.mentions]
                                      ELSE lease[l]]
        /\ submission' = [submission EXCEPT ![k].state = "changes_requested",
                                            ![k].since = 0]
        /\ lastReview' = [lastReview EXCEPT ![k] = m.id]
        /\ work' = [work EXCEPT ![w].state = "revision_requested"]
  /\ UNCHANGED <<peopleVars, ledger, job, txn>>

\* Mutant: an approval of an earlier head counts.
ReviewApprovedAnyHead(m) ==
  /\ m.type = "approved"
  /\ Deliver(m)
  /\ submission' = IF submission[m.pr].state \in {"open", "awaiting_rereview"}
                   THEN [submission EXCEPT ![m.pr].state = "approved", ![m.pr].since = 0]
                   ELSE submission
  /\ UNCHANGED <<peopleVars, work, lease, ledger, job, txn, lastReview>>

ReviewApproved(m) ==
  /\ m.type = "approved"
  /\ Deliver(m)
  /\ submission' = IF /\ submission[m.pr].state \in {"open", "awaiting_rereview"}
                      /\ m.head = submission[m.pr].head
                   THEN [submission EXCEPT ![m.pr].state = "approved", ![m.pr].since = 0]
                   ELSE submission
  /\ UNCHANGED <<peopleVars, work, lease, ledger, job, txn, lastReview>>

\* The human-approved revision that the App is publishing right now.
InFlight(w, head) ==
  \E l \in Leases : /\ work[w].active = l
                    /\ lease[l].kind = "revision" /\ lease[l].state = "publishing"
                    /\ head = <<l, lease[l].approved>>

\* The row of the lease that work w points to, if any, gets state s.
ActiveBecomes(w, s) ==
  [l \in Leases |-> IF work[w].active = l THEN [lease[l] EXCEPT !.state = s] ELSE lease[l]]

\* The head of a pull request moved.  Unless Co4 expects the new head, the submission
\* is escalated and the active lease, if any, invalidated (the work still points to it).
Synchronize(m) ==
  LET k == m.pr
      w == lease[k].work IN
  /\ m.type = "synchronize"
  /\ Deliver(m)
  /\ \/ /\ ~Recorded(k)
        /\ UNCHANGED <<lease, work, submission>>
     \/ /\ Recorded(k) /\ (m.head = submission[k].head \/ InFlight(w, m.head))
        /\ submission' = [submission EXCEPT ![k].since = 0]
        /\ UNCHANGED <<lease, work>>
     \/ /\ Recorded(k) /\ m.head # submission[k].head /\ ~InFlight(w, m.head)
        /\ submission' = Escalated(k)
        /\ IF work[w].active # NoLease
           THEN /\ lease' = ActiveBecomes(w, "review_invalidated")
                /\ work' = [work EXCEPT ![w].state = "review_invalidated"]
           ELSE UNCHANGED <<lease, work>>
  /\ UNCHANGED <<peopleVars, ledger, job, txn, lastReview>>

PullRequestEnded(m) ==
  LET k == m.pr
      w == lease[k].work IN
  /\ m.type \in {"merged", "closed"}
  /\ Deliver(m)
  /\ IF Recorded(k)
     THEN /\ submission' = [submission EXCEPT ![k].state = m.type, ![k].since = 0]
          /\ work' = [work EXCEPT ![w].state = m.type]
          /\ lease' = ActiveBecomes(w, m.type)
     ELSE UNCHANGED <<submission, work, lease>>
  /\ UNCHANGED <<peopleVars, ledger, job, txn, lastReview>>

WebhookStep ==
  \E m \in webhooks :
    RequestRevision(m) \/ ReviewApproved(m) \/ Synchronize(m) \/ PullRequestEnded(m)

IterationInit ==
  /\ remote = [k \in Leases |-> [head |-> NoCommit, pr |-> "none"]]
  /\ webhooks = {}
  /\ lastReview = [k \in Leases |-> NoReview]
  /\ reviews = 0
=============================================================================
