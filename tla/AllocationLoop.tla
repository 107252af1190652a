--------------------------- MODULE AllocationLoop ---------------------------
(***************************************************************************)
(* The body of reconcile() step by step, for one payment that is applied:  *)
(* the reduction that totals the open charges, the allocation loop with    *)
(* its early break, and the classification of what is left.  The module    *)
(* Reconciliation has the same code as a fold; here each turn of a loop is *)
(* an action, so that loop invariants can be stated and proved for every   *)
(* number of charges and every amount.                                     *)
(*                                                                         *)
(* Charges are numbered 1..N in the order sortCharges gives them, after    *)
(* the filter on outstandingKobo > 0.                                      *)
(***************************************************************************)
EXTENDS Integers

CONSTANTS
  N,          \* number of open charges
  Money,      \* amounts that occur, in kobo
  Threshold   \* autoCreditThresholdKobo

ASSUME InputAssumption == N \in Nat /\ Money \subseteq Nat /\ Threshold \in Nat

VARIABLES
  due,          \* outstandingKobo of each charge, in priority order
  credit,       \* creditBalanceKobo
  amount,       \* payment.amountKobo
  pc,           \* "total", "allocate" or "done"
  i,            \* the charge the current loop is at
  prefix,       \* totalOutstandingBefore after each turn of the reduction
  remCredit,    \* remainingCredit
  remPayment,   \* remainingPayment
  fromCredit,   \* fromCreditKobo of each charge's allocation, 0 if none
  fromPayment,  \* amountKobo of each charge's allocation, 0 if none
  allocated     \* sum of the allocations' amountKobo

input == <<due, credit, amount>>
vars  == <<due, credit, amount, pc, i, prefix, remCredit, remPayment,
           fromCredit, fromPayment, allocated>>

Charge == 1..N

Init ==
  /\ due \in [Charge -> Money \ {0}]
  /\ credit \in Money
  /\ amount \in Money \ {0}
  /\ pc = "total"
  /\ i = 1
  /\ prefix = [k \in 0..N |-> 0]
  /\ remCredit = credit
  /\ remPayment = amount
  /\ fromCredit = [k \in Charge |-> 0]
  /\ fromPayment = [k \in Charge |-> 0]
  /\ allocated = 0

(* The reduction over outstandingKobo.                                     *)
AddToTotal ==
  /\ pc = "total" /\ i <= N
  /\ prefix' = [prefix EXCEPT ![i] = prefix[i - 1] + due[i]]
  /\ i' = i + 1
  /\ UNCHANGED <<input, pc, remCredit, remPayment, fromCredit, fromPayment, allocated>>

StartAllocating ==
  /\ pc = "total" /\ i > N
  /\ pc' = IF N = 0 THEN "done" ELSE "allocate"
  /\ i' = 1
  /\ UNCHANGED <<input, prefix, remCredit, remPayment, fromCredit, fromPayment, allocated>>

Smaller(m, n) == IF m <= n THEN m ELSE n

CreditFor(k) == Smaller(remCredit, due[k])

PaymentFor(k) == Smaller(remPayment, due[k] - CreditFor(k))

\* Mutant of LoopEnds: stops as soon as the credit is used up.
LoopEndsWithCredit == i = N \/ remCredit' <= 0

(* The loop is left after the last charge, or when no money is left.       *)
LoopEnds == i = N \/ (remCredit' <= 0 /\ remPayment' <= 0)

(* One turn of the allocation loop, with its break.                        *)
AllocateTurn ==
  /\ pc = "allocate"
  /\ remCredit' = remCredit - CreditFor(i)
  /\ remPayment' = remPayment - PaymentFor(i)
  /\ fromCredit' = [fromCredit EXCEPT ![i] = CreditFor(i)]
  /\ fromPayment' = [fromPayment EXCEPT ![i] = PaymentFor(i)]
  /\ allocated' = allocated + PaymentFor(i)
  /\ pc' = IF LoopEnds THEN "done" ELSE "allocate"
  /\ i' = i + 1
  /\ UNCHANGED <<input, prefix>>

Next == AddToTotal \/ StartAllocating \/ AllocateTurn

Spec == Init /\ [][Next]_vars
-----------------------------------------------------------------------------
CreditApplied == credit - remCredit

\* Mutant of LeftOutstanding: forgets what the credit paid.
OutstandingIgnoringCredit == prefix[N] - allocated

LeftOutstanding == prefix[N] - CreditApplied - allocated

(* The status that step 5 of the engine gives the payment.                 *)
Outcome ==
  IF remPayment > 0
  THEN IF remPayment > Threshold THEN "EXCEPTION" ELSE "OVERPAYMENT"
  ELSE IF LeftOutstanding > 0 THEN "PARTIAL" ELSE "MATCHED"
-----------------------------------------------------------------------------
Paid(k)    == fromCredit[k] + fromPayment[k]
Settled(k) == Paid(k) = due[k]

TypeOK ==
  /\ due \in [Charge -> Nat \ {0}]
  /\ credit \in Nat
  /\ amount \in Nat \ {0}
  /\ pc \in {"total", "allocate", "done"}
  /\ i \in 1..(N + 1)
  /\ prefix \in [0..N -> Nat]
  /\ remCredit \in 0..credit
  /\ remPayment \in 0..amount
  /\ fromCredit \in [Charge -> Nat]
  /\ fromPayment \in [Charge -> Nat]
  /\ allocated \in Nat

(* Whatever the charges and the money, the classification that the engine  *)
(* computes from totals says what happened to the charges one by one: a    *)
(* surplus means that every charge is settled, PARTIAL that some charge is *)
(* not, MATCHED that all are and nothing is left (lines 220-275).          *)
OutcomeIsTruthful ==
  pc = "done" =>
    /\ (Outcome = "PARTIAL") <=> (\E k \in Charge : ~Settled(k))
    /\ (Outcome = "MATCHED") <=> (remPayment = 0 /\ \A k \in Charge : Settled(k))

(* No charge receives more than it owes, and a charge receives money only  *)
(* when every charge before it in priority order is settled (PRD 6.2).     *)
PriorityRespected ==
  /\ \A k \in Charge : Paid(k) <= due[k]
  /\ \A j, k \in Charge : j < k /\ Paid(k) > 0 => Settled(j)

(* The payment pays only what credit could not: once it has paid any part  *)
(* of a charge, no credit is left and no later charge gets credit          *)
(* ("apply available credit first, then the new payment", PRD 6.3).        *)
CreditGoesFirst ==
  \A j, k \in Charge :
    fromPayment[j] > 0 => remCredit = 0 /\ (j < k => fromCredit[k] = 0)

-----------------------------------------------------------------------------
(* The inductive strengthening.  Charges below Totalled have been added to *)
(* the total; charges below Turn have been through the allocation loop.    *)
Totalled == IF pc = "total" THEN i - 1 ELSE N
Turn     == IF pc = "total" THEN 1 ELSE i
Spent    == CreditApplied + allocated

PrefixInv ==
  /\ prefix[0] = 0
  /\ \A k \in 1..Totalled : prefix[k] = prefix[k - 1] + due[k]
  /\ \A j, k \in 0..Totalled : j < k => prefix[j] < prefix[k]

LoopInv ==
  /\ \A k \in Charge : k >= Turn => fromCredit[k] = 0 /\ fromPayment[k] = 0
  /\ remCredit > 0 \/ remPayment > 0 => \A k \in 1..(Turn - 1) : Settled(k)
  /\ (\A k \in 1..(Turn - 1) : Settled(k)) => Spent = prefix[Turn - 1]
  /\ (\E k \in 1..(Turn - 1) : ~Settled(k)) => Spent < prefix[Turn - 1]
  /\ pc = "allocate" => i <= N /\ (remCredit > 0 \/ remPayment > 0)
  /\ pc = "done" => i = N + 1 \/ (remCredit = 0 /\ remPayment = 0)
  /\ pc = "total" => remCredit = credit /\ remPayment = amount /\ allocated = 0
  /\ allocated + remPayment = amount

IInv == TypeOK /\ PrefixInv /\ LoopInv /\ PriorityRespected /\ CreditGoesFirst
=============================================================================
