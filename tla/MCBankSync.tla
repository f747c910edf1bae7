----------------------------- MODULE MCBankSync -----------------------------
(* Two purchases at one merchant for TLC.  The first keeps its bank id     *)
(* when it posts, the second posts under a new id.  Either authorization   *)
(* may join either posted charge, and the second authorization equals the  *)
(* first posted amount to the cent.                                        *)
EXTENDS BankSync

Charges     == 1..2
Keys        == 1..3
AuthKeys    == <<1, 2>>
PostKeys    == <<1, 3>>
AuthAmounts == <<10, 11>>
PostAmounts == <<11, 12>>
=============================================================================
