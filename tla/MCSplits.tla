------------------------------ MODULE MCSplits ------------------------------
(* Instances of Splits.                                                    *)
EXTENDS Splits, TLC

CONSTANTS s1, k1

(* Two devices on one split; one key that creates twice; settlements; and  *)
(* access that comes and goes between the steps of a call.                 *)
EachHazard ==
  { [calls |-> 2, old |-> {s1}, fresh |-> {}, keys |-> Key, override |-> {}, versions |-> 3,
     settled |-> 0, access |-> FALSE],
    [calls |-> 2, old |-> {}, fresh |-> Split, keys |-> {k1}, override |-> {}, versions |-> 2,
     settled |-> 0, access |-> FALSE],
    [calls |-> 1, old |-> Split, fresh |-> {}, keys |-> {k1}, override |-> {}, versions |-> 1,
     settled |-> 2, access |-> FALSE],
    [calls |-> 1, old |-> {s1}, fresh |-> {}, keys |-> {k1}, override |-> {0, 3}, versions |-> 2,
     settled |-> 0, access |-> TRUE] }

(* Equal shares sum to their total, the remainder included, in groups of   *)
(* up to four; the lemma EqualSharesSum of SplitsProofs says so of all.    *)
ASSUME EqualSharesSumHere ==
  \A t \in 0..12, P \in SUBSET (1..4) : \A u \in P : Sum(EqualShares(t, u, P)) = t

(* Calls are interchangeable.                                              *)
Calls == Permutations(Handler)
=============================================================================
