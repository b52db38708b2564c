--------------------------- MODULE MCCoordinator ---------------------------
(* Small instances of Coordinator for TLC. *)
EXTENDS Handover

MCUsers == {"ann", "bob"}
MCOwner == "ann"
MCUserOf == [d \in Devices |-> IF d \in {"ann1", "ann2"} THEN "ann" ELSE "bob"]
MCMaxTokens == [d \in Devices |-> IF d = "bob1" THEN 2 ELSE 1]
MCDeviceLabels == [d \in Devices |-> {}]
MCInitialMembers ==
  [u \in Users |-> IF u = Owner
     THEN [role |-> "owner", verified |-> TRUE, watching |-> TRUE]
     ELSE [role |-> "contributor", verified |-> TRUE, watching |-> TRUE]]

Policy(access, validation, maintainer) ==
  [access |-> access, requireValidation |-> validation, requireMaintainer |-> maintainer,
   maxTask |-> 2, excluded |-> {"hold"}, maintainerLabels |-> {}, maxRounds |-> 1,
   affinity |-> 1, triggers |-> {"changes_requested", "revise_comment"}]
MCPolicy == Policy("verified", FALSE, FALSE)
MCPolicies == {Policy("verified", FALSE, b) : b \in BOOLEAN}

Opened == [changed |-> FALSE, labels |-> {}, closed |-> FALSE, ready |-> FALSE]
MCOpenedOnly == {Opened}

MCUsages == {[tokens |-> 1, complete |-> TRUE], NoUsage}
MCSettings == {[role |-> "contributor", verified |-> FALSE],
               [role |-> "suspended", verified |-> TRUE]}
MCIssueEvents ==
  {Opened, [Opened EXCEPT !.changed = TRUE], [Opened EXCEPT !.closed = TRUE],
   [Opened EXCEPT !.labels = {"hold"}]}
MCOneUsage == {[tokens |-> 1, complete |-> TRUE]}
=============================================================================
