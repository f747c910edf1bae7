---------------------------- MODULE HoldLifecycle ----------------------------
(***************************************************************************)
(* What bank sync promises about the lifecycle of one user's bank rows,    *)
(* whatever the feed sends and whenever the owner edits: the owner's       *)
(* transition matrix, and the rule that a row recorded as an occurrence is *)
(* never demoted.  BankSync is shown to implement it.                      *)
(***************************************************************************)
CONSTANT RowId

VARIABLES status,   \* row -> "none" | "hold" | "void" | "settled"
          claimed   \* rows recorded as an occurrence of a schedule

lifeVars == <<status, claimed>>

Status == {"none", "hold", "void", "settled"}

LifeInit == /\ status = [i \in RowId |-> "none"]
            /\ claimed = {}

(* What one sync may make of a row.  Only an unclaimed row may become a    *)
(* hold or a void; only a hold becomes a void; no row is removed.          *)
BankMoves(s, recorded) ==
  CASE s = "none"    -> {"none", "hold", "settled"}
    [] s = "hold"    -> {"hold", "void", "settled"}
    [] s = "void"    -> {"void", "settled"} \cup (IF recorded THEN {} ELSE {"hold"})
    [] s = "settled" -> {"settled"} \cup (IF recorded THEN {} ELSE {"hold"})

Bank == /\ \A i \in RowId : status'[i] \in BankMoves(status[i], i \in claimed)
        /\ DOMAIN status' = RowId
        /\ UNCHANGED claimed

(* The owner settles or restores a row, links or unlinks it, or removes it *)
(* together with its claim; the owner never makes a hold or a void, and a  *)
(* claimed row is never a hold.                                            *)
OwnerKeeps(i) ==
  /\ status[i] # "none"
  /\ \E s \in {status[i], "settled"}, c \in BOOLEAN :
       /\ c => s # "hold"
       /\ status' = [status EXCEPT ![i] = s]
       /\ claimed' = IF c THEN claimed \cup {i} ELSE claimed \ {i}

OwnerRemoves(i) ==
  /\ status[i] # "none"
  /\ status' = [status EXCEPT ![i] = "none"]
  /\ claimed' = claimed \ {i}

LifeNext == Bank \/ \E i \in RowId : OwnerKeeps(i) \/ OwnerRemoves(i)

LifeSpec == LifeInit /\ [][LifeNext]_lifeVars
=============================================================================
