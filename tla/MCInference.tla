---------------------------- MODULE MCInference ----------------------------
(* Instances of Inference.                                                 *)
EXTENDS Inference

CONSTANTS w1

F(regular, hint, text) == [regular |-> regular, hint |-> hint, text |-> text]

paid   == F(TRUE, "", "")
other  == F(FALSE, "", "")
meal   == F(FALSE, "", "food")
trip   == F(FALSE, "", "travel")
banked == F(FALSE, "food", "travel")
odd    == F(FALSE, "odd", "food")

Facts == {paid, other, meal, trip, banked, odd}

(* Two processes with crashes, late workers and failures; the owner's      *)
(* answers between reruns; schedules from a confirmed pattern; and the     *)
(* category worker.                                                        *)
EachHazard ==
  { [posted |-> {1, 2}, facts |-> {paid}, arrives |-> {"pending", "posted"}, revisions |-> 4, faults |-> 2,
     workers |-> Worker, acts |-> {}, answers |-> 0, schedules |-> FALSE, categories |-> FALSE],
    [posted |-> {1, 2}, facts |-> {paid, other}, arrives |-> {"posted"}, revisions |-> 4, faults |-> 0,
     workers |-> {w1}, acts |-> {"confirm", "reject", "hide", "restore"}, answers |-> 2, schedules |-> FALSE, categories |-> FALSE],
    [posted |-> {1, 2}, facts |-> {paid}, arrives |-> {"posted"}, revisions |-> 3, faults |-> 1,
     workers |-> {w1}, acts |-> {"confirm"}, answers |-> 1, schedules |-> TRUE, categories |-> FALSE],
    [posted |-> {}, facts |-> {meal, other, banked, odd}, arrives |-> {"pending", "posted"}, revisions |-> 3, faults |-> 0,
     workers |-> {}, acts |-> {}, answers |-> 0, schedules |-> FALSE, categories |-> TRUE] }
=============================================================================
