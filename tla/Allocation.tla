----------------------------- MODULE Allocation -----------------------------
(***************************************************************************)
(* What the coordinator promises about who has an issue.  An issue is free *)
(* or with one person; it is taken up only when free, by a person who has  *)
(* nothing else, and every taking up has a new turn number; it is worked   *)
(* on, then reviewed, then published, never back and never past a stage;   *)
(* the commit that a successor starts from moves only while the issue is   *)
(* worked on or when it is taken up; and at any time it may become free.   *)
(*                                                                         *)
(* There are no devices, leases, clocks, transactions, policies or roles   *)
(* here: module Handover shows how the rows of Coordinator stand for it.   *)
(***************************************************************************)
EXTENDS Naturals

CONSTANTS
  People, Issues,
  Commits, Start      \* commits to start from, and the first one

VARIABLE issue        \* [stage, holders, turn, handoff] by issue

Free == [stage |-> "free", holders |-> {}, turn |-> 0, handoff |-> Start]

\* Issue i in another stage of its turn.
Becomes(i, stage, holders, handoff) ==
  issue' = [issue EXCEPT ![i] = [stage |-> stage, holders |-> holders,
                                 turn |-> issue[i].turn, handoff |-> handoff]]

\* Person p has no issue.
Idle(p) == \A i \in Issues : p \notin issue[i].holders

Take(p, i) ==
  /\ issue[i].stage = "free"
  /\ Idle(p)
  /\ \E stage \in {"offered", "working"}, c \in Commits :
       issue' = [issue EXCEPT ![i] =
         [stage |-> stage, holders |-> {p}, turn |-> issue[i].turn + 1, handoff |-> c]]

Accept(i) ==
  /\ issue[i].stage = "offered"
  /\ Becomes(i, "working", issue[i].holders, issue[i].handoff)

Save(i, c) ==
  /\ issue[i].stage = "working"
  /\ Becomes(i, "working", issue[i].holders, c)

Submit(i, c) ==
  /\ issue[i].stage = "working"
  /\ Becomes(i, "review", issue[i].holders, c)

Publish(i) ==
  /\ issue[i].stage = "review"
  /\ Becomes(i, "publishing", issue[i].holders, issue[i].handoff)

GiveBack(i) ==
  /\ issue[i].stage # "free"
  /\ Becomes(i, "free", {}, issue[i].handoff)

IssueNext(i) ==
  \/ \E p \in People : Take(p, i)
  \/ Accept(i) \/ Publish(i) \/ GiveBack(i)
  \/ \E c \in Commits : Save(i, c) \/ Submit(i, c)

Init == issue = [i \in Issues |-> Free]
\* Saving the same commit again changes nothing: that is a stuttering step.
Next == issue' # issue /\ \E i \in Issues : IssueNext(i)
Spec == Init /\ [][Next]_issue
=============================================================================
