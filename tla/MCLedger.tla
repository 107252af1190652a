------------------------------ MODULE MCLedger ------------------------------
(***************************************************************************)
(* Small estates for Ledger: the values the configurations choose from.    *)
(***************************************************************************)
EXTENDS ReadModels, TLC

CONSTANTS u1, u2

MCName  == {"ada", "obi", "john"}
MCWords == [n \in MCName |-> {n}]

MCOccupant == [u \in Unit |-> IF u = u1 THEN "ada" ELSE "obi"]

(* A levy of 2 due early, then a service charge of 1.                      *)
MCBill       == {1, 2}
MCBillKind   == <<"LEVY", "SERVICE_CHARGE">>
MCBillDue    == <<3, 5>>
MCBillAmount == <<2, 1>>

Transfer(account, amount, source, at, manual) ==
  [account |-> account, amount |-> amount, source |-> source, at |-> at, manual |-> manual]

(* Transfers of the occupant of u1 that differ in amount or time, one of a *)
(* third party, one to an unknown account, one entered by hand.            *)
MCTransfers ==
  { Transfer(u1, 1, "ada", 0, FALSE), Transfer(u1, 4, "ada", 0, FALSE),
    Transfer(u1, 4, "ada", 2, FALSE), Transfer(u1, 2, "john", 0, FALSE),
    Transfer(NoUnit, 3, "ada", 0, FALSE), Transfer(u1, 2, "ada", 0, TRUE) }

(* Payments that fight over the first charge and over the unit's credit.   *)
RacingTransfers ==
  { Transfer(u1, 2, "ada", 0, FALSE), Transfer(u1, 4, "ada", 9, FALSE) }

(* Payments that meet while one is under review: an overpayment, a third   *)
(* party's and one to an unknown account, by hand and by transfer.         *)
MeetingTransfers ==
  { Transfer(u1, 4, "ada", 0, FALSE), Transfer(u1, 2, "john", 0, FALSE),
    Transfer(NoUnit, 3, "ada", 0, FALSE), Transfer(u1, 1, "ada", 0, TRUE) }

(* A payment that becomes credit of a unit without charges.                *)
SmallTransfers == { Transfer(u1, 1, "ada", 0, FALSE) }

(* Payments a manager has to review.                                       *)
ReviewedTransfers ==
  { Transfer(u1, 4, "ada", 0, FALSE), Transfer(u1, 2, "john", 0, FALSE),
    Transfer(NoUnit, 3, "ada", 0, FALSE) }

WholeEstate == {Unit}

(* Nothing in the books depends on the name of a reference.                *)
AnyReference == Permutations(Ref)

RefundOnly == { <<"OVERPAYMENT", "refund">> }
=============================================================================
