----------------------------- MODULE MCRollupTx -----------------------------
(***************************************************************************)
(* Transactions on two units for RollupTx.  Rows are charges: c1, c2 and   *)
(* c4 of unit u1, c3 of unit u2.                                           *)
(***************************************************************************)
EXTENDS RollupTx, TLC

CONSTANTS pay1, pay2, bill, spend, other, u1, u2, c1, c2, c3, c4

MCUnitOf == [t \in Tx |-> IF t = other THEN u2 ELSE u1]

(* Two payments, a bill that only inserts its charge, one that spends      *)
(* credit on the older charges too, all oldest charge first, and a payment *)
(* of another unit.                                                        *)
Ordered == [t \in Tx |-> CASE t = pay1 -> <<c1, c2>> [] t = pay2 -> <<c1>>
                           [] t = bill -> <<>> [] t = spend -> <<c1, c2, c4>>
                           [] t = other -> <<c3>>]
=============================================================================
