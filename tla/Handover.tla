------------------------------ MODULE Handover ------------------------------
(* The rows of Coordinator seen as the issues of Allocation. *)
EXTENDS Coordinator

\* The stage a lease's row stands for.  Being paused, blocked, stale or asked for
\* by somebody else is no stage of its own.
StageOf(r) ==
  IF r.state \in {"offered", "publishing"} THEN r.state
  ELSE IF r.reviewed THEN "review" ELSE "working"

IssueOf(w) == LET l == work[w].active IN
  [stage   |-> IF l = NoLease THEN "free" ELSE StageOf(lease[l]),
   holders |-> IF l = NoLease THEN {} ELSE {Holder(l)},
   turn    |-> work[w].generation,
   handoff |-> work[w].checkpoint]

Abstract == INSTANCE Allocation WITH
  People <- Users, Issues <- Works, Start <- NoCommit,
  issue <- [w \in Works |-> IssueOf(w)]

\* Polls, offers, acceptances, dibs, recoveries, sweeps, cancellations and every
\* other handler of the coordinator, in the middle of their transactions too, look
\* to the issues like the steps of Allocation or like none.
ImplementsAllocation == Abstract!Spec
=============================================================================
