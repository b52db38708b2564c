--------------------------- MODULE StatusComments ---------------------------
(***************************************************************************)
(* The comments the App keeps on issues and pull requests: one outbox row  *)
(* per comment, whose text every state change replaces (domain.status,     *)
(* iteration.pr_comment), and a dispatcher that shows the latest text by   *)
(* editing the one comment with the row's marker (outbox.py, and           *)
(* _upsert_comment of github.py).                                          *)
(*                                                                         *)
(* There is one dispatcher, the loop of the single API process that        *)
(* docs/deployment.md asks for.  Claim, read, the two requests and the     *)
(* record are separate: the text may be replaced between any two, the      *)
(* process may be restarted, and a request may fail before or after GitHub *)
(* acted on it.                                                            *)
(***************************************************************************)
EXTENDS Naturals, Sequences

CONSTANTS
  Jobs,             \* the comments: outbox rows by key
  MaxTexts,         \* bound: texts one comment is given
  MaxAttempts,      \* failures after which a job is "failed" (10)
  MaxRestarts,      \* bound: restarts of the API process
  MaxRetries        \* bound: jobs a maintainer retries

ASSUME CommentsAssumption ==
  /\ MaxTexts \in Nat /\ MaxAttempts \in Nat \ {0}
  /\ MaxRestarts \in Nat /\ MaxRetries \in Nat

VARIABLES
  active,     \* project.active
  outbox,     \* by job: [state, text, attempts, due, claimed]
  comments,   \* by job: the texts of the App's comments with its marker, oldest first
  delivery,   \* [step, job, text, found]: what the dispatcher does
  restarts, retries

commentVars == <<active, outbox, comments, delivery, restarts, retries>>

NoText == 0

\* due: available and locked_until are past.  claimed: lock_token is the one of the
\* dispatcher's latest claim.
NoRow == [state |-> "none", text |-> NoText, attempts |-> 0, due |-> TRUE, claimed |-> FALSE]

CommentsInit ==
  /\ active = TRUE
  /\ outbox = [j \in Jobs |-> NoRow]
  /\ comments = [j \in Jobs |-> << >>]
  /\ \E j \in Jobs : delivery = [step |-> "idle", job |-> j, text |-> NoText, found |-> FALSE]
  /\ restarts = 0 /\ retries = 0

-----------------------------------------------------------------------------
(* What the handlers write *)

\* The texts of jobs js are replaced.  The failures of earlier texts stay counted.
Rewrite(js) ==
  /\ \A j \in js : outbox[j].text < MaxTexts
  /\ outbox' = [j \in Jobs |-> IF j \notin js THEN outbox[j] ELSE
       [outbox[j] EXCEPT !.state = "pending", !.text = @ + 1, !.due = TRUE, !.claimed = FALSE]]

Replace(j) ==
  /\ Rewrite({j})
  /\ UNCHANGED <<active, comments, delivery, restarts, retries>>

\* The project is paused or taken up again, which cancels the leases of some issues.
UpdateProject ==
  /\ active' = ~active
  /\ \E js \in SUBSET Jobs : Rewrite(js)
  /\ UNCHANGED <<comments, delivery, restarts, retries>>

\* app.retry_job
RetryComment(j) ==
  /\ outbox[j].state \in {"failed", "pending"}
  /\ retries < MaxRetries /\ retries' = retries + 1
  /\ outbox' = [outbox EXCEPT ![j].state = "pending", ![j].attempts = 0, ![j].due = TRUE]
  /\ UNCHANGED <<active, comments, delivery, restarts>>

\* The back-off or the lock of row j runs out.
Lapse(j) ==
  /\ ~outbox[j].due
  /\ outbox' = [outbox EXCEPT ![j].due = TRUE]
  /\ UNCHANGED <<active, comments, delivery, restarts, retries>>

-----------------------------------------------------------------------------
(* The dispatcher *)

Current == outbox[delivery.job]
Step(step) == delivery' = [delivery EXCEPT !.step = step]

ClaimComment(j) ==
  /\ delivery.step = "idle"
  /\ outbox[j].state \in {"pending", "working"} /\ outbox[j].due
  /\ outbox' = [outbox EXCEPT ![j].state = "working", ![j].due = FALSE, ![j].claimed = TRUE]
  /\ delivery' = [step |-> "read", job |-> j, text |-> NoText, found |-> FALSE]
  /\ UNCHANGED <<active, comments, restarts, retries>>

\* deliver() reads the row: a paused project's text is not shown.
ReadText ==
  /\ delivery.step = "read"
  /\ \/ ~Current.claimed /\ Step("idle")
     \/ Current.claimed /\ active
        /\ delivery' = [delivery EXCEPT !.step = "list", !.text = Current.text]
     \/ Current.claimed /\ ~active /\ Step("cancel")
  /\ UNCHANGED <<active, outbox, comments, restarts, retries>>

\* _upsert_comment looks for the App's comment with the marker, ...
FindComment ==
  /\ delivery.step = "list"
  /\ delivery' = [delivery EXCEPT !.step = "write", !.found = comments[delivery.job] # << >>]
  /\ UNCHANGED <<active, outbox, comments, restarts, retries>>

\* ... and edits the first it found, or posts one.
WriteComment ==
  /\ delivery.step = "write"
  /\ comments' = [comments EXCEPT ![delivery.job] =
       IF delivery.found THEN [@ EXCEPT ![1] = delivery.text] ELSE Append(@, delivery.text)]
  /\ Step("record")
  /\ UNCHANGED <<active, outbox, restarts, retries>>

\* Mutant: the outcome is recorded although the text was replaced meanwhile.
RecordUnclaimed ==
  /\ delivery.step \in {"record", "cancel"} /\ Step("idle")
  /\ outbox' = [outbox EXCEPT
       ![delivery.job].state = IF delivery.step = "record" THEN "done" ELSE "cancelled",
       ![delivery.job].due = TRUE]
  /\ UNCHANGED <<active, comments, restarts, retries>>

RecordComment ==
  /\ delivery.step \in {"record", "cancel"} /\ Step("idle")
  /\ outbox' = IF ~Current.claimed THEN outbox ELSE [outbox EXCEPT
       ![delivery.job].state = IF delivery.step = "record" THEN "done" ELSE "cancelled",
       ![delivery.job].due = TRUE]
  /\ UNCHANGED <<active, comments, restarts, retries>>

\* Mutant: a failed delivery is tried again for ever.
FailUncounted ==
  /\ delivery.step \in {"list", "write", "record"} /\ Step("idle")
  /\ outbox' = IF ~Current.claimed THEN outbox ELSE
       [outbox EXCEPT ![delivery.job].state = "pending", ![delivery.job].due = FALSE]
  /\ UNCHANGED <<active, comments, restarts, retries>>

\* A request failed, or its answer was lost after GitHub acted on it (in "record").
FailComment ==
  /\ delivery.step \in {"list", "write", "record"} /\ Step("idle")
  /\ outbox' = IF ~Current.claimed THEN outbox ELSE
       [outbox EXCEPT ![delivery.job].attempts = @ + 1,
                      ![delivery.job].state = IF Current.attempts + 1 >= MaxAttempts
                                              THEN "failed" ELSE "pending",
                      ![delivery.job].due = FALSE]
  /\ UNCHANGED <<active, comments, restarts, retries>>

\* The API process restarts: its claim stays on the row until the lock runs out.
Restart ==
  /\ delivery.step # "idle" /\ Step("idle")
  /\ restarts < MaxRestarts /\ restarts' = restarts + 1
  /\ UNCHANGED <<active, outbox, comments, retries>>

Dispatch ==
  \/ \E j \in Jobs : ClaimComment(j)
  \/ ReadText \/ FindComment \/ WriteComment \/ RecordComment

CommentsNext ==
  \/ \E j \in Jobs : Replace(j) \/ RetryComment(j) \/ Lapse(j)
  \/ UpdateProject \/ Dispatch \/ FailComment \/ Restart

CommentsSpec == CommentsInit /\ [][CommentsNext]_commentVars
\* The dispatcher's loop goes on, and clocks do; no request has to succeed.
DispatcherRuns == WF_commentVars(Dispatch) /\ \A j \in Jobs : WF_commentVars(Lapse(j))

-----------------------------------------------------------------------------
(* Properties *)

CommentsTypeOK ==
  /\ active \in BOOLEAN
  /\ outbox \in [Jobs ->
       [state : {"none", "pending", "working", "done", "cancelled", "failed"},
        text : 0..MaxTexts, attempts : 0..(MaxAttempts + MaxTexts), due : BOOLEAN,
        claimed : BOOLEAN]]
  /\ comments \in [Jobs -> Seq(1..MaxTexts)]
  /\ delivery \in [step : {"idle", "read", "list", "write", "record", "cancel"},
                   job : Jobs, text : 0..MaxTexts, found : BOOLEAN]
  /\ restarts \in 0..MaxRestarts /\ retries \in 0..MaxRetries

\* However texts, restarts, lost answers and retries fall between the requests, an
\* issue has at most one status comment, and once its row counts as delivered the
\* comment shows the latest text, not the one the dispatcher had read.
CommentIsCurrent ==
  \A j \in Jobs :
    /\ Len(comments[j]) <= 1
    /\ outbox[j].state = "done" => comments[j] = <<outbox[j].text>>

\* No text stays undelivered unnoticed: its row ends as done, cancelled or failed,
\* also when the dispatcher died with it or every request fails.
TextsAreDecided ==
  \A j \in Jobs : outbox[j].state \in {"pending", "working"} ~>
                  outbox[j].state \in {"done", "cancelled", "failed"}
=============================================================================
