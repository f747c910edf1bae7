---------------------------- MODULE MCGroupSharing ----------------------------
(* Instances of GroupSharing: one member's rows and accounts.              *)
EXTENDS GroupSharing, TLC

CONSTANTS alice, bob

AliceOwns == [x \in Account \cup Tx |-> alice]

(* Both accounts are alice's: exchanging them changes nothing.             *)
Accounts == Permutations(Account)

Intervals == {[from |-> 1, to |-> 0], [from |-> 1, to |-> 1]}
=============================================================================
