--------------------------- MODULE MCPublication ---------------------------
(* Small instances of Publication for TLC. *)
EXTENDS Publication, TLC

MCUsers == {"ann", "bob"}
MCOwner == "ann"
MCUserOf == [d \in Devices |-> "bob"]
MCMaxTokens == [d \in Devices |-> 1]
MCDeviceLabels == [d \in Devices |-> {}]
MCInitialMembers ==
  [u \in Users |-> IF u = Owner
     THEN [role |-> "owner", verified |-> TRUE, watching |-> FALSE]
     ELSE [role |-> "contributor", verified |-> TRUE, watching |-> TRUE]]

Policy(maintainer, rounds) ==
  [access |-> "verified", requireValidation |-> FALSE, requireMaintainer |-> maintainer,
   maxTask |-> 1, excluded |-> {}, maintainerLabels |-> {}, maxRounds |-> rounds,
   affinity |-> 0, triggers |-> {"changes_requested", "revise_comment"}]
MCPolicy == Policy(FALSE, 1)
MCStricter == {Policy(FALSE, 1), Policy(TRUE, 1)}

Opened == [changed |-> FALSE, labels |-> {}, closed |-> FALSE, ready |-> FALSE]
MCOpenedOnly == {Opened}
MCEdited == {Opened, [Opened EXCEPT !.changed = TRUE]}
MCUsages == {[tokens |-> 1, complete |-> TRUE]}
MCNoMentions == {{}}
MCSymmetry == Permutations(Dispatchers)
=============================================================================
