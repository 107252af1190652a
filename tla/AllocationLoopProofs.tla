------------------------ MODULE AllocationLoopProofs ------------------------
(***************************************************************************)
(* The loop invariants of the reconciliation engine, proved for every      *)
(* number of charges, every amount and every credit balance; that the loop *)
(* and the engine's fold are the same function; and what the engine does   *)
(* with a payment: the waterfall over the charges, the surplus, and that   *)
(* instalments add up.                                                     *)
(***************************************************************************)
EXTENDS EngineRuns, EngineProofs

(* Before the loop nothing is added up and nothing is allocated.           *)
LEMMA InitInv == Init => IInv
<1> SUFFICES ASSUME Init PROVE IInv
  OBVIOUS
<1>1. TypeOK
  <2>1. due \in [Charge -> Nat \ {0}] /\ credit \in Nat /\ amount \in Nat \ {0}
    BY InputAssumption DEF Init
  <2>2. i \in 1..(N + 1) /\ remCredit \in 0..credit /\ remPayment \in 0..amount
    BY <2>1, InputAssumption DEF Init
  <2> QED
    BY <2>1, <2>2 DEF Init, TypeOK
<1>2. PrefixInv
  BY InputAssumption DEF Init, PrefixInv, Totalled
<1>3. LoopInv
  BY <1>1, InputAssumption
  DEF Init, LoopInv, TypeOK, Turn, Spent, CreditApplied, Charge
<1>4. PriorityRespected /\ CreditGoesFirst
  BY <1>1 DEF Init, PriorityRespected, CreditGoesFirst, Paid, TypeOK, Charge
<1> QED
  BY <1>1, <1>2, <1>3, <1>4 DEF IInv

(* One turn of the reduce that adds up what the charges owe (189-192).     *)
LEMMA AddToTotalInv == IInv /\ AddToTotal => IInv'
<1> SUFFICES ASSUME IInv, AddToTotal PROVE IInv'
  OBVIOUS
<1> USE InputAssumption
<1>0. TypeOK /\ PrefixInv /\ LoopInv
  BY DEF IInv
<1>a. /\ i \in 1..N /\ i \in 0..N /\ i - 1 \in 0..N
      /\ due[i] \in Nat \ {0} /\ prefix[i - 1] \in Nat
  BY <1>0 DEF AddToTotal, TypeOK, Charge
<1>1. TypeOK'
  <2>1. prefix' \in [0..N -> Nat] /\ i' \in 1..(N + 1)
    BY <1>0, <1>a DEF AddToTotal, TypeOK
  <2> QED
    BY <1>0, <2>1 DEF AddToTotal, TypeOK, input
<1>2. PrefixInv'
  <2>1. Totalled = i - 1 /\ Totalled' = i
    BY <1>a DEF AddToTotal, Totalled
  <2>2. /\ prefix'[i] = prefix[i - 1] + due[i]
        /\ \A k \in 0..(i - 1) : prefix'[k] = prefix[k]
        /\ prefix'[i] > prefix[i - 1]
    BY <1>0, <1>a DEF AddToTotal, TypeOK
  <2>3. ASSUME NEW k \in 1..Totalled'
        PROVE  prefix'[k] = prefix'[k - 1] + due'[k]
    <3>1. k \in 1..i /\ k - 1 \in 0..(i - 1) /\ due' = due
      BY <1>a, <2>1 DEF AddToTotal, input
    <3>2. CASE k = i
      BY <3>1, <3>2, <2>2
    <3>3. CASE k < i
      <4>1. k \in 1..(i - 1) /\ k \in 0..(i - 1)
        BY <3>1, <3>3, <1>a
      <4> QED
        BY <4>1, <3>1, <1>0, <2>1, <2>2 DEF PrefixInv
    <3> QED
      BY <3>1, <3>2, <3>3, <1>a
  <2>4. ASSUME NEW j \in 0..Totalled', NEW k \in 0..Totalled', j < k
        PROVE  prefix'[j] < prefix'[k]
    <3>1. CASE k < i
      <4>1. j \in 0..(i - 1) /\ k \in 0..(i - 1)
        BY <3>1, <2>1, <2>4, <1>a
      <4> QED
        BY <4>1, <1>0, <2>1, <2>2, <2>4 DEF PrefixInv
    <3>2. CASE k = i
      <4>1. j \in 0..(i - 1) /\ i - 1 \in 0..(i - 1) /\ j \in 0..N
        BY <3>2, <2>1, <2>4, <1>a
      <4>2. prefix[j] = prefix[i - 1] \/ prefix[j] < prefix[i - 1]
        <5>1. CASE j = i - 1
          BY <5>1
        <5>2. CASE j < i - 1
          BY <5>2, <4>1, <1>0, <2>1 DEF PrefixInv
        <5> QED
          BY <5>1, <5>2, <4>1, <1>a
      <4>3. prefix[j] \in Nat /\ prefix'[j] = prefix[j]
        BY <4>1, <2>2, <1>0 DEF TypeOK
      <4> QED
        BY <3>2, <4>2, <4>3, <2>2, <1>a
    <3> QED
      BY <3>1, <3>2, <2>1, <1>a
  <2>5. prefix'[0] = 0
    BY <1>0, <1>a, <2>2 DEF PrefixInv
  <2> QED
    BY <2>3, <2>4, <2>5 DEF PrefixInv
<1>3. LoopInv' /\ PriorityRespected' /\ CreditGoesFirst'
  <2>1. Turn = 1 /\ Turn' = 1 /\ prefix'[0] = prefix[0]
    BY <1>0 DEF AddToTotal, Turn, TypeOK
  <2> QED
    BY <1>0, <2>1 DEF AddToTotal, IInv, LoopInv, PriorityRespected, CreditGoesFirst,
       Paid, Settled, Spent, CreditApplied, input, Charge, TypeOK
<1> QED
  BY <1>1, <1>2, <1>3 DEF IInv

(* The total is complete when the allocation starts.                       *)
LEMMA StartAllocatingInv == IInv /\ StartAllocating => IInv'
<1> SUFFICES ASSUME IInv, StartAllocating PROVE IInv'
  OBVIOUS
<1> USE InputAssumption
<1>0. TypeOK /\ PrefixInv /\ LoopInv
  BY DEF IInv
<1>1. TypeOK'
  <2>1. pc' \in {"total", "allocate", "done"} /\ i' \in 1..(N + 1)
    BY DEF StartAllocating
  <2> QED
    BY <1>0, <2>1 DEF StartAllocating, TypeOK, input
<1>2. Totalled = N /\ Totalled' = N /\ Turn = 1 /\ Turn' = 1
  BY <1>0 DEF StartAllocating, Totalled, Turn, TypeOK
<1>3. PrefixInv'
  BY <1>0, <1>2 DEF StartAllocating, PrefixInv, input
<1>4. LoopInv'
  BY <1>0, <1>2 DEF StartAllocating, LoopInv, Settled, Paid, Spent, CreditApplied,
     input, Charge, TypeOK
<1>5. PriorityRespected' /\ CreditGoesFirst'
  BY DEF StartAllocating, IInv, PriorityRespected, CreditGoesFirst, Paid, Settled, input
<1> QED
  BY <1>1, <1>3, <1>4, <1>5 DEF IInv

(* What one turn of the loop takes from the credit and from the payment.   *)
LEMMA TurnAmounts ==
  ASSUME IInv, AllocateTurn
  PROVE  /\ i \in Charge
         /\ CreditFor(i) \in Nat /\ PaymentFor(i) \in Nat
         /\ CreditFor(i) <= remCredit /\ PaymentFor(i) <= remPayment
         /\ CreditFor(i) + PaymentFor(i) <= due[i]
         /\ CreditFor(i) + PaymentFor(i) < due[i]
              => CreditFor(i) = remCredit /\ PaymentFor(i) = remPayment
         /\ PaymentFor(i) > 0 => CreditFor(i) = remCredit
         /\ CreditFor(i) + PaymentFor(i) > 0
<1>1. i \in Charge
  BY InputAssumption DEF IInv, TypeOK, LoopInv, AllocateTurn, Charge
<1>2. /\ due[i] \in Nat \ {0} /\ remCredit \in Nat /\ remPayment \in Nat
      /\ remCredit > 0 \/ remPayment > 0
  BY <1>1 DEF IInv, TypeOK, LoopInv, AllocateTurn
<1> QED
  BY <1>1, <1>2 DEF CreditFor, PaymentFor, Smaller

(* One turn of the allocation keeps every part of the invariant: a charge  *)
(* is paid in full before the next one gets anything, from credit first.   *)
LEMMA AllocateTurnInv == IInv /\ AllocateTurn => IInv'
<1> SUFFICES ASSUME IInv, AllocateTurn PROVE IInv'
  OBVIOUS
<1> USE InputAssumption
<1> DEFINE c == CreditFor(i)
           p == PaymentFor(i)
<1>0. TypeOK /\ PrefixInv /\ LoopInv /\ PriorityRespected /\ CreditGoesFirst
  BY DEF IInv
<1>1. /\ i \in Charge /\ c \in Nat /\ p \in Nat
      /\ c <= remCredit /\ p <= remPayment /\ c + p <= due[i]
      /\ c + p < due[i] => c = remCredit /\ p = remPayment
      /\ p > 0 => c = remCredit
      /\ c + p > 0
  BY TurnAmounts
<1>2. /\ remCredit' = remCredit - c /\ remPayment' = remPayment - p
      /\ fromCredit' = [fromCredit EXCEPT ![i] = c]
      /\ fromPayment' = [fromPayment EXCEPT ![i] = p]
      /\ allocated' = allocated + p
      /\ pc = "allocate" /\ pc' \in {"allocate", "done"}
      /\ i' = i + 1 /\ due' = due /\ credit' = credit /\ amount' = amount
      /\ prefix' = prefix
  BY DEF AllocateTurn, input
<1> HIDE DEF c, p
<1>3. TypeOK'
  <2>1. /\ remCredit' \in 0..credit' /\ remPayment' \in 0..amount'
        /\ i' \in 1..(N + 1) /\ allocated' \in Nat
    BY <1>0, <1>1, <1>2 DEF TypeOK, Charge
  <2> QED
    BY <1>0, <1>1, <1>2, <2>1 DEF TypeOK
<1>4. PrefixInv'
  BY <1>0, <1>2 DEF PrefixInv, Totalled
<1>5. /\ Turn = i /\ Turn' = i + 1
      /\ \A k \in Charge : k # i => fromCredit'[k] = fromCredit[k] /\ fromPayment'[k] = fromPayment[k]
      /\ fromCredit'[i] = c /\ fromPayment'[i] = p
      /\ fromCredit[i] = 0 /\ fromPayment[i] = 0
  BY <1>0, <1>1, <1>2 DEF Turn, TypeOK, LoopInv
<1>6. /\ \A k \in 1..(i - 1) : Settled(k)
      /\ Spent = prefix[i - 1]
  BY <1>0, <1>2, <1>5 DEF LoopInv
<1>7. /\ \A k \in 1..(i - 1) : k \in Charge /\ (Settled(k))'
      /\ \A k \in Charge : k = i => ((Settled(k))' <=> c + p = due[i])
      /\ Spent' = prefix[i - 1] + c + p
      /\ prefix[i] = prefix[i - 1] + due[i]
      /\ prefix[i - 1] \in Nat /\ due[i] \in Nat
  <2>1. \A k \in 1..(i - 1) : k \in Charge /\ k # i
    BY <1>1 DEF Charge
  <2>2. \A k \in 1..(i - 1) : (Settled(k))'
    BY <2>1, <1>2, <1>5, <1>6 DEF Settled, Paid
  <2>3. \A k \in Charge : k = i => ((Settled(k))' <=> c + p = due[i])
    BY <1>2, <1>5 DEF Settled, Paid
  <2>4. prefix[i] = prefix[i - 1] + due[i]
    BY <1>0, <1>1, <1>2 DEF PrefixInv, Totalled, Charge
  <2>5. prefix[i - 1] \in Nat /\ due[i] \in Nat
    BY <1>0, <1>1 DEF TypeOK, Charge
  <2>6. Spent' = Spent + c + p
    BY <1>0, <1>1, <1>2 DEF Spent, CreditApplied, TypeOK
  <2> QED
    BY <1>6, <2>1, <2>2, <2>3, <2>4, <2>5, <2>6
<1>b. /\ remCredit \in Nat /\ remPayment \in Nat
      /\ remCredit' \in Nat /\ remPayment' \in Nat
  BY <1>0, <1>3 DEF TypeOK
<1>8. LoopInv'
  <2>1. \A k \in Charge : k >= Turn' => fromCredit'[k] = 0 /\ fromPayment'[k] = 0
    BY <1>0, <1>1, <1>5 DEF LoopInv, Charge
  <2>2. 1..(Turn' - 1) = 1..(i - 1) \cup {i}
    BY <1>1, <1>5 DEF Charge
  <2>3. remCredit' > 0 \/ remPayment' > 0 => c + p = due[i]
    BY <1>1, <1>2, <1>7, <1>b
  <2>4. /\ remCredit' > 0 \/ remPayment' > 0 => \A k \in 1..(Turn' - 1) : (Settled(k))'
        /\ (\A k \in 1..(Turn' - 1) : (Settled(k))') => Spent' = prefix'[Turn' - 1]
        /\ (\E k \in 1..(Turn' - 1) : ~(Settled(k))') => Spent' < prefix'[Turn' - 1]
    <3>1. prefix'[Turn' - 1] = prefix[i]
      BY <1>1, <1>2, <1>5 DEF Charge
    <3>2. (\A k \in 1..(Turn' - 1) : (Settled(k))') <=> c + p = due[i]
      BY <2>2, <1>1, <1>7
    <3>3. Spent' = prefix[i] <=> c + p = due[i]
      BY <1>1, <1>7
    <3>4. c + p # due[i] => Spent' < prefix[i]
      BY <1>1, <1>7
    <3> QED
      BY <2>3, <3>1, <3>2, <3>3, <3>4
  <2>5. /\ pc' = "allocate" => i' <= N /\ (remCredit' > 0 \/ remPayment' > 0)
        /\ pc' = "done" => i' = N + 1 \/ (remCredit' = 0 /\ remPayment' = 0)
    <3>1. pc' = IF LoopEnds THEN "done" ELSE "allocate"
      BY DEF AllocateTurn
    <3> QED
      BY <3>1, <1>1, <1>2, <1>b DEF LoopEnds, Charge
  <2>6. allocated' + remPayment' = amount'
    BY <1>0, <1>1, <1>2 DEF LoopInv, TypeOK
  <2> QED
    BY <2>1, <2>4, <2>5, <2>6, <1>2 DEF LoopInv
<1>9. PriorityRespected'
  <2>1. ASSUME NEW k \in Charge PROVE (Paid(k) <= due[k])'
    BY <1>0, <1>1, <1>2, <1>5 DEF PriorityRespected, Paid
  <2>2. ASSUME NEW j \in Charge, NEW k \in Charge, j < k, (Paid(k) > 0)'
        PROVE  (Settled(j))'
    <3>1. k <= i
      <4>1. CASE k > i
        BY <4>1, <1>0, <1>1, <1>2, <1>5, <2>2 DEF LoopInv, Paid, Charge
      <4> QED
        BY <4>1, <1>1 DEF Charge
    <3>2. j \in 1..(i - 1)
      BY <3>1, <2>2, <1>1 DEF Charge
    <3> QED
      BY <3>2, <1>7
  <2> QED
    BY <2>1, <2>2 DEF PriorityRespected
<1>10. CreditGoesFirst'
  <2> SUFFICES ASSUME NEW j \in Charge, NEW k \in Charge, fromPayment'[j] > 0
               PROVE  remCredit' = 0 /\ (j < k => fromCredit'[k] = 0)
    BY DEF CreditGoesFirst
  <2>1. CASE j = i
    <3>1. remCredit' = 0
      BY <2>1, <1>0, <1>1, <1>2, <1>5 DEF TypeOK
    <3>2. j < k => fromCredit'[k] = 0
      BY <2>1, <1>0, <1>1, <1>5 DEF LoopInv, Charge
    <3> QED
      BY <3>1, <3>2
  <2>2. CASE j # i
    <3>1. fromPayment[j] > 0 /\ remCredit = 0
      BY <2>2, <1>0, <1>5 DEF CreditGoesFirst
    <3>2. c = 0 /\ remCredit' = 0
      BY <3>1, <1>1, <1>2
    <3>3. j < k => fromCredit'[k] = 0
      BY <3>1, <3>2, <1>0, <1>5 DEF CreditGoesFirst
    <3> QED
      BY <3>2, <3>3
  <2> QED
    BY <2>1, <2>2
<1> QED
  BY <1>3, <1>4, <1>8, <1>9, <1>10 DEF IInv

(* IInv is inductive.                                                      *)
LEMMA Inductive == IInv /\ [Next]_vars => IInv'
<1> SUFFICES ASSUME IInv, [Next]_vars PROVE IInv'
  OBVIOUS
<1>1. CASE AddToTotal
  BY <1>1, AddToTotalInv
<1>2. CASE StartAllocating
  BY <1>2, StartAllocatingInv
<1>3. CASE AllocateTurn
  BY <1>3, AllocateTurnInv
<1>4. CASE UNCHANGED vars
  BY <1>4 DEF vars, IInv, TypeOK, PrefixInv, LoopInv, PriorityRespected, CreditGoesFirst,
     Totalled, Turn, Spent, CreditApplied, Settled, Paid
<1> QED
  BY <1>1, <1>2, <1>3, <1>4 DEF Next

(* The loop variables keep their types: no subtraction in the loop goes    *)
(* below zero and no index leaves the array of charges.                    *)
THEOREM TypeCorrect == Spec => []TypeOK
<1>1. IInv => TypeOK
  BY DEF IInv
<1> QED
  BY <1>1, InitInv, Inductive, PTL DEF Spec

(* Priority and credit-first hold at every turn, for every list of charges *)
(* (reconcile lines 183-218).                                              *)
THEOREM PriorityAndCredit == Spec => []PriorityRespected /\ []CreditGoesFirst
<1>1. IInv => PriorityRespected /\ CreditGoesFirst
  BY DEF IInv
<1> QED
  BY <1>1, InitInv, Inductive, PTL DEF Spec

(* When the loop has been left, what the engine computes from totals agrees *)
(* with the charges one by one.  Leaving early is the interesting case: the *)
(* charges the break skipped are the reason why something is still owed.   *)
LEMMA TruthfulAtExit == IInv => OutcomeIsTruthful
<1> SUFFICES ASSUME IInv, pc = "done" PROVE
       /\ (Outcome = "PARTIAL") <=> (\E k \in Charge : ~Settled(k))
       /\ (Outcome = "MATCHED") <=> (remPayment = 0 /\ \A k \in Charge : Settled(k))
  BY DEF OutcomeIsTruthful
<1> USE InputAssumption
<1>1. /\ Turn = i /\ Totalled = N /\ i \in 1..(N + 1)
      /\ remPayment \in Nat /\ remCredit \in Nat
      /\ credit \in Nat /\ allocated \in Nat
      /\ prefix[i - 1] \in Nat /\ prefix[N] \in Nat
  BY DEF IInv, TypeOK, Turn, Totalled
<1>2. LeftOutstanding = prefix[N] - Spent /\ Spent \in Int
  BY <1>1 DEF LeftOutstanding, Spent, CreditApplied
<1>3. CASE i = N + 1
  <2>1. 1..(i - 1) = Charge /\ i - 1 = N
    BY <1>3, <1>1 DEF Charge
  <2>2. /\ (\A k \in Charge : Settled(k)) => LeftOutstanding = 0
        /\ (\E k \in Charge : ~Settled(k)) => LeftOutstanding > 0
        /\ remPayment > 0 => \A k \in Charge : Settled(k)
    BY <2>1, <1>1, <1>2 DEF IInv, LoopInv
  <2> QED
    BY <2>2, <1>1 DEF Outcome
<1>4. CASE i <= N /\ remCredit = 0 /\ remPayment = 0
  <2>1. i \in Charge /\ i - 1 \in 0..N /\ N \in 0..N /\ i - 1 < N
    BY <1>1, <1>4 DEF Charge
  <2>2. ~Settled(i)
    BY <2>1, <1>1 DEF IInv, LoopInv, TypeOK, Settled, Paid
  <2>3. prefix[i - 1] < prefix[N]
    BY <2>1, <1>1 DEF IInv, PrefixInv
  <2>4. Spent <= prefix[i - 1]
    BY <1>1, <1>2 DEF IInv, LoopInv
  <2>5. LeftOutstanding > 0
    BY <2>3, <2>4, <1>1, <1>2
  <2> QED
    BY <2>1, <2>2, <2>5, <1>4 DEF Outcome
<1> QED
  BY <1>1, <1>3, <1>4 DEF IInv, LoopInv

(* The status the engine gives an applied payment is true of its charges,  *)
(* whatever the charges, the credit and the amount (lines 220-275).        *)
THEOREM OutcomeTruthful == Spec => []OutcomeIsTruthful
  BY InitInv, Inductive, TruthfulAtExit, PTL DEF Spec
-----------------------------------------------------------------------------
(* The fold of the engine, turn by turn, as a purse over charges in a      *)
(* line.                                                                   *)

(* What is left of the credit C and of the payment A when the charges paid *)
(* so far owed before in all; and what one turn takes of it.               *)
LeftOver(before, C, A, had, paid) ==
  had = Greater(0, C - before) /\ paid = Lesser(A, Greater(0, C + A - before))

Takes(had, paid, owed, a, b) == a = Lesser(had, owed) /\ b = Lesser(paid, owed - a)

(* It takes what lies over the charge.                                     *)
LEMMA TurnTakes ==
  ASSUME NEW before \in Nat, NEW owed \in Nat, NEW C \in Nat, NEW A \in Nat,
         NEW had, NEW paid, LeftOver(before, C, A, had, paid),
         NEW a, NEW b, Takes(had, paid, owed, a, b)
  PROVE  /\ a \in Nat /\ b \in Nat
         /\ LiesOver(before, owed, C, A) = [fromCredit |-> a, amount |-> b]
         /\ LeftOver(before + owed, C, A, had - a, paid - b)
<1> USE DEF LeftOver, Takes
<1>1. /\ a \in Nat /\ b \in Nat
      /\ a = Overlap(before, before + owed, 0, C)
      /\ b = Overlap(before, before + owed, C, C + A)
      /\ had - a = Greater(0, C - (before + owed))
      /\ paid - b = Lesser(A, Greater(0, C + A - (before + owed)))
  BY DEF Greater, Lesser, Overlap
<1>2. LiesOver(before, owed, C, A) = [fromCredit |-> a, amount |-> b]
  BY <1>1 DEF LiesOver
<1> QED
  BY <1>1, <1>2

OwedOf(charges) == [c \in charges |-> c.outstanding]

StartOf(rule, charges, c) == SumOver(OwedOf(charges), {d \in charges : SortsBefore(rule, d, c)})

Over(rule, charges, c, C, A) == LiesOver(StartOf(rule, charges, c), c.outstanding, C, A)

(* The purse after the charges T: what the credit C and the payment A have *)
(* left once T is paid, and over each of T what lies over it.              *)
Filled(rule, charges, T, C, A, p) ==
  /\ p \in Purses
  /\ LeftOver(SumOver(OwedOf(charges), T), C, A, p.credit, p.payment)
  /\ DOMAIN p.allocs \subseteq IdsOf(T)
  /\ \A c \in T :
       LET over == Over(rule, charges, c, C, A)
       IN  /\ AllocationOf(p.allocs, c.id) = over
           /\ c.id \in DOMAIN p.allocs <=> over.fromCredit > 0 \/ over.amount > 0

(* One turn serves the next charge.                                        *)
LEMMA FilledStep ==
  ASSUME NEW charges, Distinct(charges), Allocatable(charges), NEW rule,
         NEW T \in SUBSET charges, NEW c \in charges, c \notin T,
         {d \in charges : SortsBefore(rule, d, c)} = T,
         NEW C \in Nat, NEW A \in Nat, NEW p, Filled(rule, charges, T, C, A, p)
  PROVE  Filled(rule, charges, T \cup {c}, C, A, AllocateTo(p, c))
<1> DEFINE o == OwedOf(charges)
           before == SumOver(o, T)
           owed == c.outstanding
           a == Lesser(p.credit, owed)
           b == Lesser(p.payment, owed - a)
           over == [fromCredit |-> a, amount |-> b]
           q == AllocateTo(p, c)
<1>1. /\ IsFiniteSet(charges) /\ IsFiniteSet(T) /\ c.id \in Int /\ owed \in Nat
      /\ \A d \in charges : o[d] = d.outstanding /\ o[d] \in Nat
      /\ \A d \in T : d.id # c.id
  BY FS_Subset DEF Distinct, Allocatable, OwedOf
<1>2. /\ p \in Purses /\ LeftOver(before, C, A, p.credit, p.payment)
      /\ DOMAIN p.allocs \subseteq IdsOf(T)
  BY DEF Filled
<1>3. before \in Nat /\ SumOver(o, T \cup {c}) = before + owed
  <2> HIDE DEF o
  <2>1. Numbers(o, T) /\ Numbers(o, {c}) /\ o[c] = owed /\ o[c] \in Int /\ T \cap {c} = {}
    BY <1>1 DEF Numbers
  <2>2. SumOver(o, T \cup {c}) = SumOver(o, T) + SumOver(o, {c})
    BY <1>1, <2>1, SumDisjoint, FS_Singleton
  <2>3. SumOver(o, {c}) = owed
    BY <2>1, SumSingle
  <2>4. SumOver(o, T) \in Nat
    BY <1>1, SumNat
  <2> QED
    BY <2>2, <2>3, <2>4
<1>4. /\ a \in Nat /\ b \in Nat /\ LiesOver(before, owed, C, A) = over
      /\ LeftOver(before + owed, C, A, p.credit - a, p.payment - b)
  <2>1. /\ before \in Nat /\ owed \in Nat
        /\ LeftOver(before, C, A, p.credit, p.payment) /\ Takes(p.credit, p.payment, owed, a, b)
    BY <1>1, <1>2, <1>3 DEF Takes
  <2> HIDE DEF before, owed, a, b
  <2> QED
    BY <2>1, TurnTakes
<1>5. Over(rule, charges, c, C, A) = over
  BY <1>4 DEF Over, StartOf
<1>6. q \in Purses
  BY <1>1, <1>2, AllocateToType
<1> DEFINE new == [id \in DOMAIN p.allocs \cup {c.id} |->
                     IF id = c.id THEN [amount |-> b, fromCredit |-> a] ELSE p.allocs[id]]
<1>7. /\ q.credit = p.credit - a /\ q.payment = p.payment - b
      /\ q.allocs = IF a > 0 \/ b > 0 THEN new ELSE p.allocs
  BY DEF AllocateTo
<1>8. c.id \notin DOMAIN p.allocs
  BY <1>1, <1>2 DEF IdsOf
<1>9. /\ DOMAIN q.allocs \subseteq IdsOf(T \cup {c})
      /\ AllocationOf(q.allocs, c.id) = over
      /\ c.id \in DOMAIN q.allocs <=> over.fromCredit > 0 \/ over.amount > 0
  <2>0. over.fromCredit = a /\ over.amount = b /\ over = [amount |-> b, fromCredit |-> a]
    OBVIOUS
  <2>1. CASE a > 0 \/ b > 0
    <3>1. q.allocs = new /\ DOMAIN new = DOMAIN p.allocs \cup {c.id}
          /\ new[c.id] = [amount |-> b, fromCredit |-> a]
      BY <1>7, <2>1
    <3> HIDE DEF over, new, q
    <3> QED
      BY <1>2, <2>0, <2>1, <3>1 DEF AllocationOf, IdsOf
  <2>2. CASE ~(a > 0 \/ b > 0)
    <3>1. q.allocs = p.allocs /\ a = 0 /\ b = 0
      BY <1>4, <1>7, <2>2
    <3> HIDE DEF over, q
    <3> QED
      BY <1>2, <1>8, <2>0, <2>2, <3>1 DEF AllocationOf, IdsOf
  <2> QED
    BY <2>1, <2>2
<1>10. ASSUME NEW d \in T
       PROVE  AllocationOf(q.allocs, d.id) = AllocationOf(p.allocs, d.id)
              /\ (d.id \in DOMAIN q.allocs <=> d.id \in DOMAIN p.allocs)
  <2>1. d.id # c.id
    BY <1>1
  <2>2. CASE a > 0 \/ b > 0
    <3>1. q.allocs = new
      BY <1>7, <2>2
    <3>2. /\ d.id \in DOMAIN new <=> d.id \in DOMAIN p.allocs
          /\ d.id \in DOMAIN p.allocs => new[d.id] = p.allocs[d.id]
      BY <2>1
    <3> HIDE DEF new, q
    <3> QED
      BY <3>1, <3>2 DEF AllocationOf
  <2>3. CASE ~(a > 0 \/ b > 0)
    <3>1. q.allocs = p.allocs
      BY <1>7, <2>3
    <3> QED
      BY <3>1
  <2> QED
    BY <2>2, <2>3
<1>11. \A d \in T :
         LET x == Over(rule, charges, d, C, A)
         IN  /\ AllocationOf(p.allocs, d.id) = x
             /\ d.id \in DOMAIN p.allocs <=> x.fromCredit > 0 \/ x.amount > 0
  BY DEF Filled
<1>12. LeftOver(SumOver(o, T \cup {c}), C, A, q.credit, q.payment)
  BY <1>3, <1>4, <1>7
<1> HIDE DEF q, over, o
<1>13. \A d \in T \cup {c} :
         LET x == Over(rule, charges, d, C, A)
         IN  /\ AllocationOf(q.allocs, d.id) = x
             /\ d.id \in DOMAIN q.allocs <=> x.fromCredit > 0 \/ x.amount > 0
  BY <1>5, <1>9, <1>10, <1>11
<1> QED
  BY <1>6, <1>9, <1>12, <1>13 DEF Filled, q, o

(* The turns up to one of them.                                            *)
Initial(t, D) == \A x \in t, y \in D : y < x => y \in t

InOrder(s, D, charges, rule) ==
  /\ \A x, y \in D : x < y => SortsBefore(rule, s[x], s[y])
  /\ \A c \in charges : \E x \in D : c = s[x]

(* So the purse is filled along the loop.                                  *)
LEMMA FilledAlong ==
  ASSUME NEW charges, Distinct(charges), Allocatable(charges), NEW rule,
         NEW D \in SUBSET Int, Positions(D),
         NEW s \in [D -> charges], InOrder(s, D, charges, rule),
         NEW C \in Nat, NEW A \in Nat,
         NEW base \in Purses, base = [credit |-> C, payment |-> A, allocs |-> << >>],
         NEW g, Turns(g, D, s, base)
  PROVE  \A t \in SUBSET D : Initial(t, D) => Filled(rule, charges, Taken(s, t), C, A, g[t])
<1> DEFINE Of(t) == Taken(s, t)
           Good(t) == Filled(rule, charges, Of(t), C, A, g[t])
           Q == {t \in SUBSET D : Initial(t, D) => Good(t)}
<1>0. IsFiniteSet(D)
  BY DEF Positions
<1>1. Good({})
  <2>1. g[{}] = base
    BY DEF Turns
  <2>2. Of({}) = {} /\ DOMAIN << >> = {}
    BY DEF Taken
  <2>3. SumOver(OwedOf(charges), {}) = 0
    BY SumEmpty
  <2>4. g[{}].credit = C /\ g[{}].payment = A /\ DOMAIN g[{}].allocs = {}
    BY <2>1, <2>2
  <2>5. LeftOver(0, C, A, C, A)
    BY DEF LeftOver, Greater, Lesser
  <2> HIDE DEF Of
  <2> QED
    BY <2>1, <2>2, <2>3, <2>4, <2>5 DEF Filled
<1>2. ASSUME NEW t \in SUBSET D, \A x \in t : t \ {x} \in Q PROVE t \in Q
  <2> SUFFICES ASSUME Initial(t, D) PROVE Good(t)
    OBVIOUS
  <2>1. CASE t = {}
    BY <1>1, <2>1
  <2>2. CASE t # {}
    <3> DEFINE m == Max(t)
               c == s[m]
               T == Of(t \ {m})
    <3>1. m \in t /\ \A y \in t : m >= y
      BY <2>2 DEF Positions
    <3>2. m \in D /\ g[t] = AllocateTo(g[t \ {m}], c) /\ c \in charges /\ T \in SUBSET charges
      BY <2>2, <3>1 DEF Turns, Taken
    <3>3. Of(t) = T \cup {c}
      BY <3>1 DEF Taken
    <3> HIDE DEF m
    <3>4. Initial(t \ {m}, D)
      <4> SUFFICES ASSUME NEW x \in t \ {m}, NEW y \in D, y < x PROVE y \in t \ {m}
        BY DEF Initial
      <4>1. y \in t /\ m >= x
        BY <3>1 DEF Initial
      <4>2. y # m
        BY <3>2, <4>1
      <4> QED
        BY <4>1, <4>2
    <3>5. Filled(rule, charges, T, C, A, g[t \ {m}])
      BY <1>2, <3>1, <3>4
    <3>6. \A a, b \in charges : SortsBefore(rule, a, b) => ~SortsBefore(rule, b, a)
      BY SortsBeforeIsAnOrder
    <3>7. ASSUME NEW d \in charges PROVE SortsBefore(rule, d, c) <=> d \in T
      <4>1. PICK x \in D : d = s[x]
        BY DEF InOrder
      <4>2. CASE x < m
        <5>1. SortsBefore(rule, d, c)
          BY <3>2, <4>1, <4>2 DEF InOrder
        <5>2. x \in t \ {m}
          <6>1. x \in t
            BY <3>1, <4>2 DEF Initial
          <6>2. x # m
            BY <3>2, <4>2
          <6> QED
            BY <6>1, <6>2
        <5> QED
          BY <4>1, <5>1, <5>2 DEF Taken
      <4>3. CASE x >= m
        <5>1. ~SortsBefore(rule, d, c)
          <6>1. x = m \/ m < x
            BY <3>2, <4>3
          <6>2. CASE x = m
            BY <3>2, <3>6, <4>1, <6>2
          <6>3. CASE m < x
            <7>1. SortsBefore(rule, c, d)
              BY <3>2, <4>1, <6>3 DEF InOrder
            <7> QED
              BY <3>2, <3>6, <7>1
          <6> QED
            BY <6>1, <6>2, <6>3
        <5>2. d \notin T
          <6> SUFFICES ASSUME NEW y \in t \ {m}, d = s[y] PROVE FALSE
            BY DEF Taken
          <6>1. y < m /\ y \in D
            BY <3>1, <3>2
          <6>2. SortsBefore(rule, d, c)
            BY <3>2, <6>1 DEF InOrder
          <6> QED
            BY <5>1, <6>2
        <5> QED
          BY <5>1, <5>2
      <4> QED
        BY <3>2, <4>2, <4>3
    <3>8. c \notin T /\ {d \in charges : SortsBefore(rule, d, c)} = T
      <4>1. ~SortsBefore(rule, c, c)
        BY <3>2, <3>6
      <4> HIDE DEF T, c
      <4> QED
        BY <3>2, <3>7, <4>1
    <3> HIDE DEF c, T, Of
    <3>9. Filled(rule, charges, T \cup {c}, C, A, AllocateTo(g[t \ {m}], c))
      BY <3>2, <3>5, <3>8, FilledStep
    <3> QED
      BY <3>2, <3>3, <3>9
  <2> QED
    BY <2>1, <2>2
<1>3. SUBSET D \subseteq Q
  <2> HIDE DEF Q
  <2> QED
    BY <1>0, <1>2, FiniteInduction
<1> QED
  BY <1>3

(* The allocation fills each open charge with what lies over it.           *)
LEMMA AllocateFills ==
  ASSUME NEW in, Distinct(in.charges), in.amount \in Nat, in.credit \in Nat
  PROVE  Filled(in.rule, OpenOf(in), OpenOf(in), in.credit, in.amount, Allocate(in))
<1> DEFINE open == OpenOf(in)
           s == SortCharges(open, in.rule)
           n == Cardinality(open)
           D == 1..n
           base == [credit |-> in.credit, payment |-> in.amount, allocs |-> << >>]
<1>1. Distinct(open) /\ Allocatable(open) /\ IsFiniteSet(open)
  BY FS_Subset DEF Distinct, Allocatable, OpenOf
<1>2. Sorted(s, open, in.rule)
  BY <1>1, SortedExists
<1>3. n \in Nat
  BY <1>1, FS_CardinalityType
<1>4. s \in [D -> open] /\ Positions(D)
  BY <1>2, <1>3, IntervalPositions DEF Sorted
<1>5. base \in Purses
  <2>1. << >> \in [{} -> Shares] /\ {} \in SUBSET Int
    OBVIOUS
  <2>2. << >> \in UNION {[I -> Shares] : I \in SUBSET Int}
    BY <2>1
  <2> QED
    BY <2>2 DEF Purses
<1>6. Allocate(in) = FoldLeft(AllocateTo, base, s)
  BY DEF Allocate, OpenOf
<1>7. base = [credit |-> in.credit, payment |-> in.amount, allocs |-> << >>] /\ D = 1..n
  OBVIOUS
<1> HIDE DEF open, s, base, n, D
<1>8. PICK g \in [SUBSET D -> Purses] :
             g[D] = FoldLeft(AllocateTo, base, s) /\ Turns(g, D, s, base)
  BY <1>1, <1>4, <1>5, AllocationFold
<1>9. \A x, y \in D : x < y => SortsBefore(in.rule, s[x], s[y])
  BY <1>2, <1>4 DEF Sorted
<1>10. \A c \in open : \E x \in D : c = s[x]
  <2>1. \A x, y \in D : s[x] = s[y] => x = y
    <3> SUFFICES ASSUME NEW x \in D, NEW y \in D, s[x] = s[y], x # y PROVE FALSE
      OBVIOUS
    <3>1. x < y \/ y < x
      BY <1>3, <1>7
    <3>2. s[x] \in open /\ ~SortsBefore(in.rule, s[x], s[x])
      BY <1>1, <1>4, SortsBeforeIsAnOrder
    <3> QED
      BY <1>9, <3>1, <3>2
  <2>2. s \in Injection(D, open)
    BY <1>4, <2>1 DEF Injection, IsInjective
  <2>3. Cardinality(D) = Cardinality(open)
    BY <1>3, <1>7, FS_Interval DEF n
  <2>4. s \in Surjection(D, open)
    BY <1>1, <2>2, <2>3, FS_Injection
  <2> QED
    BY <2>4 DEF Surjection
<1>11. InOrder(s, D, open, in.rule)
  BY <1>9, <1>10 DEF InOrder
<1>12. Initial(D, D) /\ D \in SUBSET D /\ D \in SUBSET Int
  BY <1>7 DEF Initial
<1>13. Filled(in.rule, open, Taken(s, D), in.credit, in.amount, g[D])
  BY <1>1, <1>3, <1>4, <1>5, <1>7, <1>8, <1>11, <1>12, FilledAlong
<1>14. Taken(s, D) = open
  BY <1>4, <1>10 DEF Taken
<1> QED
  BY <1>6, <1>8, <1>13, <1>14 DEF open
-----------------------------------------------------------------------------
(* The result of the engine on a payment that it applies.                  *)

(* An input on which the engine applies the payment.                       *)
GoodInput(in) ==
  /\ in.rule \in Rules /\ Distinct(in.charges)
  /\ \A c \in in.charges : c.outstanding \in Nat \ {0} /\ c.kind \in {"SERVICE_CHARGE", "LEVY"}
  /\ in.amount \in Nat /\ in.credit \in Nat /\ in.threshold \in Nat
  /\ ~MustHold(in)

Added(in, surplus) == IF surplus <= in.threshold THEN surplus ELSE 0

StatusOf(in, p) ==
  IF p.payment > 0
  THEN IF p.payment > in.threshold THEN "EXCEPTION" ELSE "OVERPAYMENT"
  ELSE IF OutstandingAfter(in, p) > 0 THEN "PARTIAL" ELSE "MATCHED"

(* What the classification makes of the purse that the allocation leaves.  *)
Classified(in, p, result) ==
  /\ result.allocs = p.allocs /\ result.creditApplied = in.credit - p.credit
  /\ result.creditAdded = Added(in, p.payment)
  /\ result.newCredit = p.credit + Added(in, p.payment)
  /\ result.exceptionType = "OVERPAYMENT" <=> p.payment > in.threshold
  /\ result.status = StatusOf(in, p)

(* The classification of an applied payment, case by case (lines 220-275). *)
LEMMA ReconcileClassifies ==
  ASSUME NEW in, ~MustHold(in), in.threshold \in Nat, in.credit \in Int, Allocate(in) \in Purses
  PROVE  Classified(in, Allocate(in), Reconcile(in))
<1> DEFINE p == Allocate(in)
           result == Reconcile(in)
<1>1. p.payment \in Nat /\ p.credit \in Int
  BY DEF Purses
<1>2. result = Classify(in, p)
  BY DEF Reconcile, MustHold
<1> HIDE DEF p, result
<1>3. /\ result.allocs = p.allocs /\ result.creditApplied = in.credit - p.credit
      /\ result.creditAdded = IF p.payment > 0 /\ ~(p.payment > in.threshold)
                              THEN p.payment ELSE 0
      /\ result.newCredit = IF p.payment > 0 /\ ~(p.payment > in.threshold)
                            THEN p.credit + p.payment ELSE p.credit
  BY <1>2 DEF Classify, Held, OverThreshold
<1>4. /\ result.exceptionType = IF p.payment > 0 /\ p.payment > in.threshold
                                THEN "OVERPAYMENT" ELSE NotAnException
      /\ result.status = IF p.payment > 0
                         THEN IF p.payment > in.threshold THEN "EXCEPTION" ELSE "OVERPAYMENT"
                         ELSE IF OutstandingAfter(in, p) > 0 THEN "PARTIAL" ELSE "MATCHED"
  BY <1>2 DEF Classify, Held, OverThreshold
<1>5. /\ result.creditAdded = Added(in, p.payment)
      /\ result.newCredit = p.credit + Added(in, p.payment)
      /\ result.exceptionType = "OVERPAYMENT" <=> p.payment > in.threshold
  BY <1>1, <1>3, <1>4 DEF Added, NotAnException
<1>6. result.status = StatusOf(in, p)
  BY <1>4 DEF StatusOf
<1> QED
  BY <1>3, <1>5, <1>6 DEF Classified, p, result

(* PRD's order is that of the comparison.                                  *)
LEMMA PrecedesIsSortsBefore ==
  ASSUME NEW in, GoodInput(in), NEW c \in in.charges, NEW d \in in.charges
  PROVE  Precedes(in.rule, d, c) <=> SortsBefore(in.rule, d, c)
<1>1. /\ c.kind \in {"SERVICE_CHARGE", "LEVY"} /\ d.kind \in {"SERVICE_CHARGE", "LEVY"}
      /\ in.rule \in {"OLDEST_FIRST", "DUES_FIRST"}
  BY DEF GoodInput, Rules
<1>2. /\ Rank(c) = IF c.kind = "SERVICE_CHARGE" THEN 0 ELSE 1
      /\ Rank(d) = IF d.kind = "SERVICE_CHARGE" THEN 0 ELSE 1
  BY DEF Rank
<1>3. CASE in.rule = "OLDEST_FIRST"
  BY <1>3 DEF Precedes, SortsBefore, Older
<1>4. CASE in.rule = "DUES_FIRST"
  BY <1>1, <1>2, <1>4 DEF Precedes, SortsBefore, Older
<1> QED
  BY <1>1, <1>3, <1>4

(* Sums over parts of the charges.                                         *)
LEMMA SumOfPart ==
  ASSUME NEW charges, IsFiniteSet(charges), \A c \in charges : c.outstanding \in Nat,
         NEW T \in SUBSET charges
  PROVE  IsFiniteSet(T) /\ Sum(T) = SumOver(OwedOf(charges), T) /\ Sum(T) \in Nat
<1> DEFINE f == OwedOf(charges)
           h == [c \in T |-> c.outstanding]
<1>1. IsFiniteSet(T) /\ \A c \in T : f[c] = h[c] /\ f[c] \in Nat /\ h[c] \in Nat
  BY FS_Subset DEF OwedOf
<1>2. Sum(T) = SumOver(h, T)
  BY DEF Sum
<1> HIDE DEF f, h
<1>3. Numbers(f, T)
  BY <1>1 DEF Numbers
<1>4. SumOver(h, T) = SumOver(f, T)
  BY <1>1, <1>3, SumCongruence
<1>5. SumOver(f, T) \in Nat
  BY <1>1, SumNat
<1> QED
  BY <1>1, <1>2, <1>4, <1>5 DEF f

(* What the engine makes of a payment that it applies.                     *)
Before(in, c) == Sum({d \in in.charges : Precedes(in.rule, d, c)})

SurplusOf(in) == Lesser(in.amount, Greater(0, in.amount + in.credit - Sum(in.charges)))

(* So a charge gets what lies over it, and the rest is classified.         *)
LEMMA EngineFills ==
  ASSUME NEW in, GoodInput(in)
  PROVE  LET result == Reconcile(in)
         IN  /\ Classified(in, Allocate(in), result) /\ Allocate(in) \in Purses
             /\ Allocate(in).payment = SurplusOf(in)
             /\ Allocate(in).credit = Greater(0, in.credit - Sum(in.charges))
             /\ Sum(in.charges) \in Nat
             /\ DOMAIN result.allocs \subseteq IdsOf(in.charges)
             /\ \A c \in in.charges :
                  LET over == LiesOver(Before(in, c), c.outstanding, in.credit, in.amount)
                  IN  /\ Before(in, c) \in Nat
                      /\ AllocationOf(result.allocs, c.id) = over
                      /\ c.id \in DOMAIN result.allocs <=> over.fromCredit > 0 \/ over.amount > 0
<1> DEFINE charges == in.charges
           p == Allocate(in)
           result == Reconcile(in)
<1>1. /\ Distinct(charges) /\ IsFiniteSet(charges) /\ in.amount \in Nat /\ in.credit \in Nat
      /\ \A c \in charges : c.outstanding \in Nat \ {0}
      /\ in.threshold \in Nat /\ ~MustHold(in)
  BY DEF GoodInput, Distinct
<1>2. OpenOf(in) = charges
  BY <1>1 DEF OpenOf
<1>3. Filled(in.rule, charges, charges, in.credit, in.amount, p)
  BY <1>1, <1>2, AllocateFills
<1>4. /\ p \in Purses /\ DOMAIN p.allocs \subseteq IdsOf(charges)
      /\ LeftOver(SumOver(OwedOf(charges), charges), in.credit, in.amount, p.credit, p.payment)
  BY <1>3 DEF Filled
<1>5. Classified(in, p, result)
  BY <1>1, <1>4, ReconcileClassifies
<1>6. result.allocs = p.allocs
  BY <1>5 DEF Classified
<1>7. Sum(charges) = SumOver(OwedOf(charges), charges) /\ Sum(charges) \in Nat
  BY <1>1, SumOfPart
<1>8. /\ p.payment = Lesser(in.amount, Greater(0, in.credit + in.amount - Sum(charges)))
      /\ p.credit = Greater(0, in.credit - Sum(charges))
  BY <1>4, <1>7 DEF LeftOver
<1>9. p.payment = SurplusOf(in)
  <2> HIDE DEF p, charges
  <2>1. in.credit + in.amount - Sum(charges) = in.amount + in.credit - Sum(charges)
    BY <1>1, <1>7
  <2> QED
    BY <1>8, <2>1 DEF SurplusOf, charges
<1>10. ASSUME NEW c \in charges
       PROVE  LET over == LiesOver(Before(in, c), c.outstanding, in.credit, in.amount)
              IN  /\ Before(in, c) \in Nat
                  /\ AllocationOf(result.allocs, c.id) = over
                  /\ c.id \in DOMAIN result.allocs <=> over.fromCredit > 0 \/ over.amount > 0
  <2> DEFINE T == {d \in charges : Precedes(in.rule, d, c)}
  <2>1. T = {d \in charges : SortsBefore(in.rule, d, c)} /\ T \in SUBSET charges
    BY PrecedesIsSortsBefore
  <2>2. Sum(T) = SumOver(OwedOf(charges), T) /\ Sum(T) \in Nat
    <3> HIDE DEF T, charges
    <3> QED
      BY <1>1, <2>1, SumOfPart
  <2>3. Before(in, c) = StartOf(in.rule, charges, c) /\ Before(in, c) \in Nat
    BY <2>1, <2>2 DEF Before, StartOf
  <2>4. LET over == Over(in.rule, charges, c, in.credit, in.amount)
        IN  /\ AllocationOf(p.allocs, c.id) = over
            /\ c.id \in DOMAIN p.allocs <=> over.fromCredit > 0 \/ over.amount > 0
    BY <1>3 DEF Filled
  <2>5. Over(in.rule, charges, c, in.credit, in.amount)
          = LiesOver(Before(in, c), c.outstanding, in.credit, in.amount)
    BY <2>3 DEF Over
  <2> HIDE DEF p, result, charges
  <2> QED
    BY <1>6, <2>3, <2>4, <2>5
<1> HIDE DEF p, result, charges
<1> QED
  BY <1>4, <1>5, <1>6, <1>7, <1>8, <1>9, <1>10 DEF p, result, charges
-----------------------------------------------------------------------------
(* The waterfall and the surplus.                                          *)

(* Whatever a run of the loop has drawn, the engine applies the payment.   *)
LEMMA InputsAreGood ==
  ASSUME TypeOK, NEW in \in Inputs
  PROVE  GoodInput(in) /\ in.amount = amount /\ amount \in Nat \ {0}
<1>1. PICK rule \in Rules, open \in SUBSET Charge, threshold \in {0, Threshold} :
             in = EngineInput(rule, open, threshold)
  BY DEF Inputs
<1> DEFINE charges == {ChargeAt(rule, k) : k \in open}
<1>2. /\ in.rule = rule /\ in.charges = charges /\ in.amount = amount /\ in.credit = credit
      /\ in.threshold = threshold /\ in.unitMatched = TRUE /\ in.priors = {}
      /\ in.source = in.occupant
  BY <1>1 DEF EngineInput
<1>3. amount \in Nat \ {0} /\ credit \in Nat /\ threshold \in Nat
  BY InputAssumption DEF TypeOK
<1>4. ASSUME NEW k \in Charge
      PROVE  LET c == ChargeAt(rule, k)
             IN  /\ c.id = Listed[rule][k].id /\ c.id \in Int /\ c.due \in Int
                 /\ c.kind \in {"SERVICE_CHARGE", "LEVY"}
                 /\ c.outstanding = due[k] /\ due[k] \in Nat \ {0}
  BY ListedAssumption DEF ChargeAt, TypeOK
<1>5. \A j, k \in Charge : Listed[rule][j].id = Listed[rule][k].id => j = k
  <2> SUFFICES ASSUME NEW j \in Charge, NEW k \in Charge,
                      Listed[rule][j].id = Listed[rule][k].id, j # k
               PROVE  FALSE
    OBVIOUS
  <2>1. j < k \/ k < j
    BY DEF Charge
  <2> QED
    BY <2>1, ListedAssumption
<1>6. IsFiniteSet(charges)
  <2>1. IsFiniteSet(Charge) /\ IsFiniteSet(open)
    <3>1. IsFiniteSet(1..N)
      BY InputAssumption, FS_Interval
    <3> QED
      BY <3>1, FS_Subset DEF Charge
  <2> DEFINE f == [k \in open |-> ChargeAt(rule, k)]
  <2>2. f \in Surjection(open, charges)
    BY DEF Surjection
  <2> HIDE DEF f, charges
  <2> QED
    BY <2>1, <2>2, FS_Surjection
<1>7. Distinct(charges)
  <2>1. \A c \in charges : c.id \in Int /\ c.due \in Int /\ c.outstanding \in Int
    BY <1>4
  <2>2. ASSUME NEW c \in charges, NEW d \in charges, c.id = d.id PROVE c = d
    <3>1. PICK j \in open, k \in open : c = ChargeAt(rule, j) /\ d = ChargeAt(rule, k)
      OBVIOUS
    <3>2. j = k
      BY <1>4, <1>5, <2>2, <3>1
    <3> QED
      BY <3>1, <3>2
  <2> HIDE DEF charges
  <2> QED
    BY <1>6, <2>1, <2>2 DEF Distinct
<1>8. \A c \in charges : c.outstanding \in Nat \ {0} /\ c.kind \in {"SERVICE_CHARGE", "LEVY"}
  BY <1>4
<1>9. ~MustHold(in)
  BY <1>2 DEF MustHold, IsDuplicate, SendersDiffer
<1> HIDE DEF charges
<1> QED
  BY <1>2, <1>3, <1>7, <1>8, <1>9 DEF GoodInput

(* Every charge is paid by exactly the stretch of credit and of payment    *)
(* that lies over it (reconcile lines 183-218).                            *)
THEOREM WaterfallHolds == Spec => []Waterfall
<1>1. TypeOK => Waterfall
  <2> SUFFICES ASSUME TypeOK, NEW in \in Inputs, NEW c \in in.charges
               PROVE  AllocationOf(Reconcile(in).allocs, c.id)
                        = LiesOver(Sum({d \in in.charges : Precedes(in.rule, d, c)}),
                                   c.outstanding, in.credit, in.amount)
    BY DEF Waterfall
  <2>1. AllocationOf(Reconcile(in).allocs, c.id)
          = LiesOver(Before(in, c), c.outstanding, in.credit, in.amount)
    BY InputsAreGood, EngineFills
  <2> QED
    BY <2>1 DEF Before
<1> QED
  BY <1>1, TypeCorrect, PTL

(* What no charge needs is credited up to the threshold and held above it  *)
(* (lines 220-253).                                                        *)
THEOREM SurplusRouted == Spec => []SurplusIsRouted
<1>1. TypeOK => SurplusIsRouted
  <2> SUFFICES ASSUME TypeOK, NEW in \in Inputs
               PROVE  LET result  == Reconcile(in)
                          owed    == Sum(in.charges)
                          surplus == Lesser(in.amount, Greater(0, in.amount + in.credit - owed))
                          added   == IF surplus <= in.threshold THEN surplus ELSE 0
                      IN  /\ result.creditAdded = added
                          /\ result.exceptionType = "OVERPAYMENT" <=> surplus > in.threshold
                          /\ result.newCredit = Greater(0, in.credit - owed) + added
    BY DEF SurplusIsRouted
  <2>1. /\ Classified(in, Allocate(in), Reconcile(in))
        /\ Allocate(in).payment = SurplusOf(in)
        /\ Allocate(in).credit = Greater(0, in.credit - Sum(in.charges))
    BY InputsAreGood, EngineFills
  <2> QED
    BY <2>1 DEF Classified, Added, SurplusOf
<1> QED
  BY <1>1, TypeCorrect, PTL
-----------------------------------------------------------------------------
(* The loop fills the same charges.                                        *)

(* What the loop has done at each turn: the total before a charge is what  *)
(* the charges before it owe, the money left is what those leave, and each *)
(* charge served has got what lies over it.                                *)
FillInv ==
  /\ \A k \in 0..Totalled : prefix[k] = SumOver(due, 1..k)
  /\ LeftOver(prefix[Turn - 1], credit, amount, remCredit, remPayment)
  /\ \A k \in 1..(Turn - 1) :
       LiesOver(prefix[k - 1], due[k], credit, amount)
         = [fromCredit |-> fromCredit[k], amount |-> fromPayment[k]]

(* Before the loop nothing is filled.                                      *)
LEMMA FillInit == Init => FillInv
<1> SUFFICES ASSUME Init PROVE FillInv
  OBVIOUS
<1>1. TypeOK
  BY InitInv DEF IInv
<1>2. Turn = 1 /\ Totalled = 0 /\ prefix[0] = 0 /\ remCredit = credit /\ remPayment = amount
  BY InputAssumption DEF Init, Turn, Totalled
<1>3. LeftOver(0, credit, amount, credit, amount)
  BY <1>1 DEF LeftOver, Greater, Lesser, TypeOK
<1>4. SumOver(due, 1..0) = 0
  <2>1. 1..0 = {}
    OBVIOUS
  <2> QED
    BY <2>1, SumEmpty
<1>5. \A k \in 0..Totalled : k = 0
  BY <1>2
<1> QED
  BY <1>2, <1>3, <1>4, <1>5 DEF FillInv

(* One turn of the reduction adds the next charge to the total before it.  *)
LEMMA FillTotal == IInv /\ FillInv /\ AddToTotal => FillInv'
<1> SUFFICES ASSUME IInv, FillInv, AddToTotal PROVE FillInv'
  OBVIOUS
<1> USE InputAssumption
<1>0. TypeOK
  BY DEF IInv
<1>1. /\ i \in 1..N /\ i \in 0..N /\ i - 1 \in 0..N /\ pc = "total" /\ pc' = "total"
      /\ Totalled = i - 1 /\ Totalled' = i /\ Turn = 1 /\ Turn' = 1
      /\ due' = due /\ credit' = credit /\ amount' = amount
      /\ remCredit' = remCredit /\ remPayment' = remPayment
      /\ prefix' = [prefix EXCEPT ![i] = prefix[i - 1] + due[i]]
  BY <1>0 DEF AddToTotal, TypeOK, Totalled, Turn, input
<1>2. prefix'[i] = prefix[i - 1] + due[i] /\ \A k \in 0..(i - 1) : prefix'[k] = prefix[k]
  BY <1>0, <1>1 DEF TypeOK
<1>3. SumOver(due, 1..i) = SumOver(due, 1..(i - 1)) + due[i]
  <2>1. 1..i = 1..(i - 1) \cup {i} /\ 1..(i - 1) \cap {i} = {}
    <3>1. i \in Nat /\ i >= 1
      BY <1>1
    <3>2. ASSUME NEW x PROVE x \in 1..i <=> x \in 1..(i - 1) \/ x = i
      BY <3>1
    <3>3. i \notin 1..(i - 1)
      BY <3>1
    <3> QED
      BY <3>2, <3>3
  <2>2. IsFiniteSet(1..(i - 1)) /\ IsFiniteSet({i})
    <3>1. 1 \in Int /\ i - 1 \in Int
      BY <1>1
    <3>2. IsFiniteSet(1..(i - 1))
      BY <3>1, FS_Interval
    <3> QED
      BY <3>2, FS_Singleton
  <2>3. Numbers(due, 1..(i - 1)) /\ Numbers(due, {i}) /\ due[i] \in Int
    BY <1>0, <1>1 DEF Numbers, TypeOK, Charge
  <2>4. SumOver(due, {i}) = due[i]
    BY <2>3, SumSingle
  <2> QED
    BY <2>1, <2>2, <2>3, <2>4, SumDisjoint
<1>4. \A k \in 0..Totalled' : prefix'[k] = SumOver(due, 1..k)
  <2> SUFFICES ASSUME NEW k \in 0..i PROVE prefix'[k] = SumOver(due, 1..k)
    BY <1>1
  <2>1. CASE k = i
    <3>1. prefix[i - 1] = SumOver(due, 1..(i - 1))
      BY <1>1 DEF FillInv
    <3> QED
      BY <1>2, <1>3, <2>1, <3>1
  <2>2. CASE k < i
    <3>1. k \in 0..(i - 1)
      BY <1>1, <2>2
    <3> QED
      BY <1>1, <1>2, <3>1 DEF FillInv
  <2> QED
    BY <1>1, <2>1, <2>2
<1>5. LeftOver(prefix'[Turn' - 1], credit, amount, remCredit, remPayment)
  <2>1. Turn - 1 = 0 /\ Turn' - 1 = 0 /\ 0 \in 0..(i - 1)
    BY <1>1
  <2> QED
    BY <1>1, <1>2, <2>1 DEF FillInv
<1>6. 1..(Turn' - 1) = {}
  BY <1>1
<1> QED
  BY <1>1, <1>4, <1>5, <1>6 DEF FillInv

(* Starting the allocation fills nothing.                                  *)
LEMMA FillStart == IInv /\ FillInv /\ StartAllocating => FillInv'
<1> SUFFICES ASSUME IInv, FillInv, StartAllocating PROVE FillInv'
  OBVIOUS
<1>1. TypeOK
  BY DEF IInv
<1>2. Totalled = N /\ Totalled' = N /\ Turn = 1 /\ Turn' = 1
  BY <1>1, InputAssumption DEF StartAllocating, Totalled, Turn, TypeOK
<1>3. /\ due' = due /\ credit' = credit /\ amount' = amount /\ prefix' = prefix
      /\ remCredit' = remCredit /\ remPayment' = remPayment
      /\ fromCredit' = fromCredit /\ fromPayment' = fromPayment
  BY DEF StartAllocating, input
<1> QED
  BY <1>2, <1>3 DEF FillInv

(* One turn of the allocation fills the next charge.                       *)
LEMMA FillTurn == IInv /\ FillInv /\ AllocateTurn => FillInv'
<1> SUFFICES ASSUME IInv, FillInv, AllocateTurn PROVE FillInv'
  OBVIOUS
<1> USE InputAssumption
<1> DEFINE a == CreditFor(i)
           b == PaymentFor(i)
<1>0. TypeOK /\ PrefixInv
  BY DEF IInv
<1>1. i \in Charge
  BY TurnAmounts
<1>2. /\ pc = "allocate" /\ pc' \in {"allocate", "done"}
      /\ Turn = i /\ Turn' = i + 1 /\ Totalled = N /\ Totalled' = N
      /\ due' = due /\ credit' = credit /\ amount' = amount /\ prefix' = prefix
      /\ remCredit' = remCredit - a /\ remPayment' = remPayment - b
      /\ fromCredit' = [fromCredit EXCEPT ![i] = a]
      /\ fromPayment' = [fromPayment EXCEPT ![i] = b]
  BY DEF AllocateTurn, input, Turn, Totalled
<1>3. /\ fromCredit'[i] = a /\ fromPayment'[i] = b
      /\ \A k \in Charge : k # i => fromCredit'[k] = fromCredit[k] /\ fromPayment'[k] = fromPayment[k]
  BY <1>0, <1>1, <1>2 DEF TypeOK
<1>4. Takes(remCredit, remPayment, due[i], a, b)
  BY DEF Takes, CreditFor, PaymentFor, Smaller, Lesser
<1>5. /\ prefix[i - 1] \in Nat /\ due[i] \in Nat /\ credit \in Nat /\ amount \in Nat
      /\ prefix[i] = prefix[i - 1] + due[i]
  BY <1>0, <1>1, <1>2 DEF TypeOK, PrefixInv, Charge
<1>6. LeftOver(prefix[i - 1], credit, amount, remCredit, remPayment)
  BY <1>2 DEF FillInv
<1> HIDE DEF a, b
<1>7. /\ LiesOver(prefix[i - 1], due[i], credit, amount) = [fromCredit |-> a, amount |-> b]
      /\ LeftOver(prefix[i - 1] + due[i], credit, amount, remCredit - a, remPayment - b)
  BY <1>4, <1>5, <1>6, TurnTakes
<1>8. LeftOver(prefix'[Turn' - 1], credit, amount, remCredit', remPayment')
  <2>1. Turn' - 1 = i
    BY <1>1, <1>2 DEF Charge
  <2> QED
    BY <1>2, <1>5, <1>7, <2>1
<1>9. ASSUME NEW k \in 1..(Turn' - 1)
      PROVE  LiesOver(prefix[k - 1], due[k], credit, amount)
               = [fromCredit |-> fromCredit'[k], amount |-> fromPayment'[k]]
  <2>1. CASE k = i
    BY <1>3, <1>7, <2>1
  <2>2. CASE k # i
    <3>1. k \in 1..(Turn - 1) /\ k \in Charge
      BY <1>1, <1>2, <2>2 DEF Charge
    <3> QED
      BY <1>3, <2>2, <3>1 DEF FillInv
  <2> QED
    BY <2>1, <2>2
<1>10. \A k \in 0..Totalled' : prefix'[k] = SumOver(due', 1..k)
  BY <1>2 DEF FillInv
<1> QED
  BY <1>2, <1>8, <1>9, <1>10 DEF FillInv

(* FillInv is inductive relative to IInv.                                  *)
LEMMA FillInductive == IInv /\ FillInv /\ [Next]_vars => FillInv'
<1> SUFFICES ASSUME IInv, FillInv, [Next]_vars PROVE FillInv'
  OBVIOUS
<1>1. CASE AddToTotal
  BY <1>1, FillTotal
<1>2. CASE StartAllocating
  BY <1>2, FillStart
<1>3. CASE AllocateTurn
  BY <1>3, FillTurn
<1>4. CASE UNCHANGED vars
  BY <1>4 DEF vars, FillInv, Totalled, Turn
<1> QED
  BY <1>1, <1>2, <1>3, <1>4 DEF Next

(* So both hold at every turn of every run.                                *)
LEMMA LoopFills == Spec => [](IInv /\ FillInv)
  BY InitInv, Inductive, FillInit, FillInductive, PTL DEF Spec

ChargesOf(rule, open) == {ChargeAt(rule, k) : k \in open}

(* Sums over charges of the loop, by their number.                         *)
LEMMA SumOfNumbered ==
  ASSUME TypeOK, NEW rule \in Rules, NEW open \in SUBSET Charge
  PROVE  Sum(ChargesOf(rule, open)) = SumOver(due, open)
<1> DEFINE charges == ChargesOf(rule, open)
           f == OwedOf(charges)
           p == [k \in open |-> ChargeAt(rule, k)]
           g == [k \in open |-> f[p[k]]]
<1>1. IsFiniteSet(Charge) /\ IsFiniteSet(open)
  <2>1. IsFiniteSet(1..N)
    BY InputAssumption, FS_Interval
  <2> QED
    BY <2>1, FS_Subset DEF Charge
<1>2. IsFiniteSet(charges)
  <2>1. p \in Surjection(open, charges)
    BY DEF Surjection, ChargesOf
  <2> HIDE DEF p, charges
  <2> QED
    BY <1>1, <2>1, FS_Surjection
<1>3. \A k \in open : /\ p[k] \in charges /\ p[k].id = Listed[rule][k].id
                      /\ f[p[k]] = due[k] /\ due[k] \in Nat
  BY DEF ChargesOf, ChargeAt, OwedOf, TypeOK
<1>4. \A c \in charges : c.outstanding \in Nat /\ f[c] \in Int
  BY DEF ChargesOf, ChargeAt, OwedOf, TypeOK
<1>5. p \in [open -> charges] /\ charges = {p[k] : k \in open}
  BY DEF ChargesOf
<1>6. ASSUME NEW j \in open, NEW k \in open, p[j] = p[k] PROVE j = k
  <2>1. Listed[rule][j].id = Listed[rule][k].id
    BY <1>3, <1>6
  <2>2. ~(j < k) /\ ~(k < j)
    BY <2>1, ListedAssumption
  <2> QED
    BY <2>2 DEF Charge
<1>7. Sum(charges) = SumOver(f, charges)
  <2>1. \A c \in charges : c.outstanding \in Nat
    BY <1>4
  <2> HIDE DEF charges
  <2> QED
    BY <1>2, <2>1, SumOfPart
<1>8. SumOver(g, open) = SumOver(f, charges)
  <2>1. Numbers(f, charges)
    BY <1>4 DEF Numbers
  <2>2. \A j, k \in open : p[j] = p[k] => j = k
    BY <1>6
  <2> HIDE DEF p, f, charges
  <2>3. SumOver(g, open) = SumOver(f, {p[k] : k \in open})
    BY <1>1, <1>2, <1>5, <2>1, <2>2, SumRename
  <2> QED
    BY <1>5, <2>3
<1>9. SumOver(g, open) = SumOver(due, open)
  <2>1. Numbers(due, open) /\ \A k \in open : g[k] = due[k]
    BY <1>3 DEF Numbers
  <2> HIDE DEF g
  <2> QED
    BY <1>1, <2>1, SumCongruence
<1> QED
  BY <1>7, <1>8, <1>9

(* The charges before one are those with a lower number.                   *)
LEMMA BeforeIsPrefix ==
  ASSUME TypeOK, NEW rule \in Rules, NEW k \in Charge
  PROVE  Before(EngineInput(rule, Charge, Threshold), ChargeAt(rule, k)) = SumOver(due, 1..(k - 1))
<1> DEFINE in == EngineInput(rule, Charge, Threshold)
           c == ChargeAt(rule, k)
           earlier == {d \in in.charges : Precedes(in.rule, d, c)}
<1>1. in \in Inputs /\ in.rule = rule /\ in.charges = ChargesOf(rule, Charge)
  <2>1. Charge \in SUBSET Charge /\ Threshold \in {0, Threshold}
    OBVIOUS
  <2>2. in \in Inputs
    BY <2>1 DEF Inputs
  <2> QED
    BY <2>2 DEF EngineInput, ChargesOf
<1>2. c \in in.charges /\ GoodInput(in)
  BY <1>1, InputsAreGood DEF ChargesOf
<1>3. ASSUME NEW j \in Charge
      PROVE  Precedes(rule, ChargeAt(rule, j), c) <=> j < k
  <2>1. ChargeAt(rule, j) \in in.charges
    BY <1>1 DEF ChargesOf
  <2>2. Precedes(rule, ChargeAt(rule, j), c) <=> SortsBefore(rule, ChargeAt(rule, j), c)
    <3> HIDE DEF in
    <3> QED
      BY <1>1, <1>2, <2>1, PrecedesIsSortsBefore
  <2>3. \A x, y \in Charge : SortsBefore(rule, ChargeAt(rule, x), ChargeAt(rule, y))
                               <=> SortsBefore(rule, Listed[rule][x], Listed[rule][y])
    BY DEF SortsBefore, Rank, Older, ChargeAt
  <2>4. j < k => SortsBefore(rule, ChargeAt(rule, j), c)
    BY <2>3, ListedAssumption
  <2>5. k < j => SortsBefore(rule, c, ChargeAt(rule, j))
    BY <2>3, ListedAssumption
  <2>6. Distinct(in.charges)
    BY <1>2 DEF GoodInput
  <2>7. SortsBefore(rule, c, ChargeAt(rule, j)) => ~SortsBefore(rule, ChargeAt(rule, j), c)
    <3> HIDE DEF in, c
    <3> QED
      BY <1>2, <2>1, <2>6, SortsBeforeIsAnOrder
  <2>8. j = k => ~SortsBefore(rule, ChargeAt(rule, j), c)
    <3>1. ~SortsBefore(rule, c, c)
      <4> HIDE DEF in, c
      <4> QED
        BY <1>2, <2>6, SortsBeforeIsAnOrder
    <3> QED
      BY <3>1
  <2>9. j < k \/ k < j \/ j = k
    BY DEF Charge
  <2> QED
    BY <2>2, <2>4, <2>5, <2>7, <2>8, <2>9
<1>4. \A j \in 1..(k - 1) : j \in Charge /\ j < k
  BY InputAssumption DEF Charge
<1>5. \A j \in Charge : j < k => j \in 1..(k - 1)
  BY InputAssumption DEF Charge
<1>6. earlier = ChargesOf(rule, 1..(k - 1))
  <2>1. earlier \subseteq ChargesOf(rule, 1..(k - 1))
    BY <1>1, <1>3, <1>5 DEF ChargesOf
  <2>2. ChargesOf(rule, 1..(k - 1)) \subseteq earlier
    BY <1>1, <1>3, <1>4 DEF ChargesOf
  <2> QED
    BY <2>1, <2>2
<1>7. Sum(ChargesOf(rule, 1..(k - 1))) = SumOver(due, 1..(k - 1))
  BY <1>4, SumOfNumbered
<1> QED
  BY <1>6, <1>7 DEF Before

(* Once the loop is done, what it has left is what all charges leave, and  *)
(* a charge that the break skipped has nothing over it.                    *)
LEMMA DoneFills ==
  ASSUME IInv, FillInv, pc = "done"
  PROVE  /\ prefix[N] = SumOver(due, Charge) /\ prefix[N] \in Nat
         /\ LeftOver(prefix[N], credit, amount, remCredit, remPayment)
         /\ \A k \in Charge :
              /\ fromCredit[k] \in Nat /\ fromPayment[k] \in Nat
              /\ LiesOver(SumOver(due, 1..(k - 1)), due[k], credit, amount)
                   = [fromCredit |-> fromCredit[k], amount |-> fromPayment[k]]
<1> USE InputAssumption
<1>1. /\ TypeOK /\ Turn = i /\ Totalled = N /\ i \in 1..(N + 1) /\ N \in Nat
      /\ i - 1 \in 0..N /\ N \in 0..N
      /\ prefix[N] \in Nat /\ prefix[i - 1] \in Nat /\ credit \in Nat /\ amount \in Nat \ {0}
      /\ i = N + 1 \/ (remCredit = 0 /\ remPayment = 0)
      /\ \A k \in Charge : k >= i => fromCredit[k] = 0 /\ fromPayment[k] = 0
  BY DEF IInv, TypeOK, LoopInv, Turn, Totalled
<1>2. LeftOver(prefix[i - 1], credit, amount, remCredit, remPayment)
  BY <1>1 DEF FillInv
<1>3. prefix[N] = SumOver(due, Charge)
  BY <1>1 DEF FillInv, Charge
<1>4. \A j \in 0..N : j >= i - 1 => prefix[j] >= prefix[i - 1] /\ prefix[j] \in Nat
  <2> SUFFICES ASSUME NEW j \in 0..N, j >= i - 1
               PROVE  prefix[j] >= prefix[i - 1] /\ prefix[j] \in Nat
    OBVIOUS
  <2>1. prefix[j] \in Nat
    BY <1>1 DEF TypeOK
  <2>2. CASE j = i - 1
    BY <1>1, <2>2
  <2>3. CASE j > i - 1
    BY <1>1, <2>1, <2>3 DEF IInv, PrefixInv
  <2> QED
    BY <1>1, <2>1, <2>2, <2>3
<1>5. i # N + 1 => prefix[i - 1] >= credit + amount
  BY <1>1, <1>2 DEF LeftOver, Greater, Lesser
<1>6. LeftOver(prefix[N], credit, amount, remCredit, remPayment)
  <2>1. CASE i = N + 1
    BY <1>1, <1>2, <2>1
  <2>2. CASE i # N + 1
    <3>1. prefix[N] >= credit + amount /\ remCredit = 0 /\ remPayment = 0
      BY <1>1, <1>4, <1>5, <2>2
    <3> QED
      BY <1>1, <3>1 DEF LeftOver, Greater, Lesser
  <2> QED
    BY <2>1, <2>2
<1>7. ASSUME NEW k \in Charge
      PROVE  /\ fromCredit[k] \in Nat /\ fromPayment[k] \in Nat
             /\ LiesOver(SumOver(due, 1..(k - 1)), due[k], credit, amount)
                  = [fromCredit |-> fromCredit[k], amount |-> fromPayment[k]]
  <2>1. k \in 1..N /\ k - 1 \in 0..N /\ due[k] \in Nat /\ prefix[k - 1] = SumOver(due, 1..(k - 1))
        /\ fromCredit[k] \in Nat /\ fromPayment[k] \in Nat
    <3>1. k \in 1..N /\ k - 1 \in 0..N
      BY <1>1 DEF Charge
    <3>2. prefix[k - 1] = SumOver(due, 1..(k - 1))
      BY <1>1, <3>1 DEF FillInv
    <3> QED
      BY <1>1, <3>1, <3>2 DEF TypeOK
  <2>2. CASE k < i
    <3>1. k \in 1..(i - 1)
      BY <1>1, <2>1, <2>2
    <3> QED
      BY <1>1, <2>1, <3>1 DEF FillInv
  <2>3. CASE k >= i
    <3>1. fromCredit[k] = 0 /\ fromPayment[k] = 0 /\ i # N + 1 /\ k - 1 >= i - 1
      BY <1>1, <2>1, <2>3
    <3>2. prefix[k - 1] >= credit + amount /\ prefix[k - 1] \in Nat
      BY <1>1, <1>4, <1>5, <2>1, <3>1
    <3>3. /\ Overlap(prefix[k - 1], prefix[k - 1] + due[k], 0, credit) = 0
          /\ Overlap(prefix[k - 1], prefix[k - 1] + due[k], credit, credit + amount) = 0
      BY <1>1, <2>1, <3>2 DEF Overlap, Greater, Lesser
    <3> QED
      BY <2>1, <3>1, <3>3 DEF LiesOver
  <2> QED
    BY <1>1, <2>1, <2>2, <2>3
<1> QED
  BY <1>1, <1>3, <1>6, <1>7

(* What the payment has left is its amount less the allocations.           *)
LEMMA PaymentIsConserved ==
  ASSUME NEW in, GoodInput(in)
  PROVE  /\ AllocatedFromPayment(Allocate(in).allocs) = in.amount - Allocate(in).payment
         /\ TotalOutstanding(in.charges) = Sum(in.charges)
<1> DEFINE p == Allocate(in)
           ids == IdsOf(in.charges)
           am == Amounts(p.allocs, ids)
           dom == DOMAIN p.allocs
           own == [id \in dom |-> p.allocs[id].amount]
<1>1. /\ Distinct(in.charges) /\ IsFiniteSet(in.charges) /\ in.amount \in Nat /\ in.credit \in Nat
      /\ \A c \in in.charges : c.outstanding \in Nat \ {0}
      /\ {c \in in.charges : c.outstanding > 0} = in.charges
  BY DEF GoodInput, Distinct
<1>2. IsFiniteSet(ids)
  <2> DEFINE f == [c \in in.charges |-> c.id]
  <2>1. f \in Surjection(in.charges, ids)
    BY DEF Surjection, IdsOf
  <2> HIDE DEF f, ids
  <2> QED
    BY <1>1, <2>1, FS_Surjection
<1>3. Allocated(in.charges, ids, in.amount, in.credit, p)
  <2>1. ids \subseteq ids
    OBVIOUS
  <2> HIDE DEF p
  <2>2. Allocated({c \in in.charges : c.outstanding > 0}, ids, in.amount, in.credit, Allocate(in))
    BY <1>1, <1>2, <2>1, AllocateAllocates
  <2> QED
    BY <1>1, <2>2 DEF p
<1>4. p \in Purses /\ dom \subseteq ids /\ SumOver(am, ids) + p.payment = in.amount
  BY <1>3 DEF Allocated
<1>5. p.payment \in Nat /\ \A id \in dom : p.allocs[id].amount \in Nat
  BY <1>4 DEF Purses, Shares
<1>6. /\ \A id \in ids : am[id] \in Nat
      /\ \A id \in ids \ dom : am[id] = 0
      /\ \A id \in dom : own[id] = am[id]
  BY <1>4, <1>5 DEF Amounts
<1>7. AllocatedFromPayment(p.allocs) = SumOver(own, dom)
  BY DEF AllocatedFromPayment
<1>8. SumOver(am, ids) = SumOver(own, dom) /\ SumOver(am, ids) \in Nat
  <2> HIDE DEF ids, am, own, dom
  <2>1. Numbers(am, ids) /\ Numbers(am, dom) /\ IsFiniteSet(dom)
    BY <1>2, <1>4, <1>6, FS_Subset DEF Numbers
  <2>2. SumOver(am, ids) = SumOver(am, dom)
    BY <1>2, <1>4, <1>6, <2>1, SumWithin
  <2>3. SumOver(own, dom) = SumOver(am, dom)
    BY <1>6, <2>1, SumCongruence
  <2>4. SumOver(am, ids) \in Nat
    BY <1>2, <1>6, SumNat
  <2> QED
    BY <2>2, <2>3, <2>4
<1>9. TotalOutstanding(in.charges) = Sum(in.charges)
  BY <1>1 DEF TotalOutstanding, Sum
<1> HIDE DEF p, ids, am, own, dom
<1>10. AllocatedFromPayment(p.allocs) = in.amount - p.payment
  BY <1>1, <1>4, <1>5, <1>7, <1>8
<1> QED
  BY <1>9, <1>10 DEF p

(* The engine and the loop, under one rule.                                *)
LEMMA EngineIsLoop ==
  ASSUME IInv, FillInv, pc = "done", NEW rule \in Rules
  PROVE  LET result == Reconcile(EngineInput(rule, Charge, Threshold))
         IN  /\ result.status = Outcome
             /\ result.creditApplied = CreditApplied
             /\ DOMAIN result.allocs = {Listed[rule][k].id : k \in {j \in Charge : Paid(j) > 0}}
             /\ \A k \in Charge : Paid(k) > 0 =>
                  result.allocs[Listed[rule][k].id]
                    = [amount |-> fromPayment[k], fromCredit |-> fromCredit[k]]
<1> DEFINE in == EngineInput(rule, Charge, Threshold)
           p == Allocate(in)
           result == Reconcile(in)
<1>1. TypeOK
  BY DEF IInv
<1>2. /\ in.amount = amount /\ in.credit = credit /\ in.charges = ChargesOf(rule, Charge)
      /\ in.threshold = Threshold
  BY DEF EngineInput, ChargesOf
<1>3. GoodInput(in)
  <2>1. Charge \in SUBSET Charge /\ Threshold \in {0, Threshold}
    OBVIOUS
  <2>2. in \in Inputs
    BY <2>1 DEF Inputs
  <2> HIDE DEF in
  <2> QED
    BY <1>1, <2>2, InputsAreGood
<1> HIDE DEF in
<1>4. /\ Classified(in, p, result) /\ p \in Purses
      /\ p.payment = SurplusOf(in) /\ p.credit = Greater(0, in.credit - Sum(in.charges))
      /\ DOMAIN result.allocs \subseteq IdsOf(in.charges)
  BY <1>3, EngineFills
<1>5. Sum(in.charges) = prefix[N] /\ prefix[N] \in Nat
  <2>1. Sum(ChargesOf(rule, Charge)) = SumOver(due, Charge)
    BY <1>1, SumOfNumbered
  <2> QED
    BY <1>2, <2>1, DoneFills
<1>6. amount \in Nat /\ credit \in Nat /\ allocated \in Nat /\ allocated + remPayment = amount
      /\ remPayment \in Nat /\ remCredit \in Nat
  BY DEF IInv, TypeOK, LoopInv
<1>7. p.payment = remPayment /\ p.credit = remCredit
  <2>1. LeftOver(prefix[N], credit, amount, remCredit, remPayment)
    BY DoneFills
  <2>2. p.payment = Lesser(amount, Greater(0, amount + credit - prefix[N]))
        /\ p.credit = Greater(0, credit - prefix[N])
    BY <1>2, <1>4, <1>5 DEF SurplusOf
  <2>3. amount + credit - prefix[N] = credit + amount - prefix[N]
    BY <1>5, <1>6
  <2> HIDE DEF p
  <2> QED
    BY <2>1, <2>2, <2>3 DEF LeftOver
<1>8. OutstandingAfter(in, p) = LeftOutstanding
  <2>1. /\ AllocatedFromPayment(p.allocs) = in.amount - p.payment
        /\ TotalOutstanding(in.charges) = Sum(in.charges)
    BY <1>3, PaymentIsConserved
  <2>2. amount - remPayment = allocated
    BY <1>6
  <2> HIDE DEF p
  <2>3. OutstandingAfter(in, p) = prefix[N] - (credit - remCredit) - allocated
    BY <1>2, <1>5, <1>7, <2>1, <2>2 DEF OutstandingAfter
  <2> QED
    BY <2>3 DEF LeftOutstanding, CreditApplied
<1>9. result.status = Outcome
  BY <1>2, <1>4, <1>7, <1>8 DEF Classified, StatusOf, Outcome
<1>10. result.creditApplied = CreditApplied
  BY <1>2, <1>4, <1>7 DEF Classified, CreditApplied
<1>11. ASSUME NEW k \in Charge
       PROVE  /\ Listed[rule][k].id \in DOMAIN result.allocs <=> Paid(k) > 0
              /\ AllocationOf(result.allocs, Listed[rule][k].id)
                   = [fromCredit |-> fromCredit[k], amount |-> fromPayment[k]]
  <2> DEFINE c == ChargeAt(rule, k)
             over == LiesOver(Before(in, c), c.outstanding, in.credit, in.amount)
  <2>1. c \in in.charges /\ c.id = Listed[rule][k].id /\ c.outstanding = due[k]
    BY <1>2 DEF ChargesOf, ChargeAt
  <2>2. Before(in, c) = SumOver(due, 1..(k - 1))
    BY <1>1, BeforeIsPrefix DEF in
  <2>3. over = [fromCredit |-> fromCredit[k], amount |-> fromPayment[k]]
        /\ fromCredit[k] \in Nat /\ fromPayment[k] \in Nat
    BY <1>2, <2>1, <2>2, DoneFills
  <2> HIDE DEF c, result
  <2>4. AllocationOf(result.allocs, c.id) = over
        /\ (c.id \in DOMAIN result.allocs <=> over.fromCredit > 0 \/ over.amount > 0)
    BY <1>3, <2>1, EngineFills DEF result
  <2>5. over.fromCredit = fromCredit[k] /\ over.amount = fromPayment[k]
    <3> HIDE DEF over
    <3> QED
      BY <2>3
  <2>6. (fromCredit[k] > 0 \/ fromPayment[k] > 0) <=> Paid(k) > 0
    BY <2>3 DEF Paid
  <2> HIDE DEF over
  <2> QED
    BY <2>1, <2>3, <2>4, <2>5, <2>6
<1>12. \A id \in DOMAIN result.allocs : \E k \in Charge : id = Listed[rule][k].id
  BY <1>2, <1>4 DEF IdsOf, ChargesOf, ChargeAt
<1> HIDE DEF result
<1>13. DOMAIN result.allocs = {Listed[rule][k].id : k \in {j \in Charge : Paid(j) > 0}}
  <2>1. DOMAIN result.allocs \subseteq {Listed[rule][k].id : k \in {j \in Charge : Paid(j) > 0}}
    BY <1>11, <1>12
  <2>2. {Listed[rule][k].id : k \in {j \in Charge : Paid(j) > 0}} \subseteq DOMAIN result.allocs
    BY <1>11
  <2> QED
    BY <2>1, <2>2
<1>14. ASSUME NEW k \in Charge, Paid(k) > 0
       PROVE  result.allocs[Listed[rule][k].id]
                = [amount |-> fromPayment[k], fromCredit |-> fromCredit[k]]
  BY <1>11, <1>14 DEF AllocationOf
<1> QED
  BY <1>9, <1>10, <1>13, <1>14 DEF result, in

(* The loop with its break and the engine's fold are the same function.    *)
THEOREM LoopAgreesWithEngine == Spec => []AgreesWithEngine
<1>1. IInv /\ FillInv => AgreesWithEngine
  BY EngineIsLoop DEF AgreesWithEngine
<1> QED
  BY <1>1, LoopFills, PTL
-----------------------------------------------------------------------------
(* What a payment leaves of the charges.                                   *)

(* What a charge still owes when it starts at before and the money ends at *)
(* money.                                                                  *)
Remains(before, owed, money) == Lesser(owed, Greater(0, before + owed - money))

(* It is what neither the credit nor the payment covers.                   *)
LEMMA RemainsUncovered ==
  ASSUME NEW before \in Nat, NEW owed \in Nat, NEW had \in Nat, NEW paid \in Nat
  PROVE  LET over == LiesOver(before, owed, had, paid)
         IN  /\ over.amount \in Nat /\ over.fromCredit \in Nat
             /\ owed - over.amount - over.fromCredit = Remains(before, owed, had + paid)
             /\ Remains(before, owed, had + paid) \in Nat
<1> DEFINE a == Overlap(before, before + owed, had, had + paid)
           k == Overlap(before, before + owed, 0, had)
<1>1. /\ a \in Nat /\ k \in Nat
      /\ owed - a - k = Remains(before, owed, had + paid)
      /\ Remains(before, owed, had + paid) \in Nat
  BY DEF Overlap, Greater, Lesser, Remains
<1>2. LiesOver(before, owed, had, paid) = [fromCredit |-> k, amount |-> a]
  BY DEF LiesOver
<1> HIDE DEF a, k
<1> QED
  BY <1>1, <1>2

RemainsOf(in, c) == Remains(Before(in, c), c.outstanding, in.credit + in.amount)

(* What the engine leaves of a charge.                                     *)
LEMMA ChargeRemains ==
  ASSUME NEW in, GoodInput(in), NEW c \in in.charges
  PROVE  LET over == AllocationOf(Reconcile(in).allocs, c.id)
         IN  /\ over.amount \in Nat /\ over.fromCredit \in Nat
             /\ c.outstanding - over.amount - over.fromCredit = RemainsOf(in, c)
             /\ RemainsOf(in, c) \in Nat
<1>1. /\ Before(in, c) \in Nat
      /\ AllocationOf(Reconcile(in).allocs, c.id)
           = LiesOver(Before(in, c), c.outstanding, in.credit, in.amount)
  BY EngineFills
<1>2. c.outstanding \in Nat /\ in.credit \in Nat /\ in.amount \in Nat
  BY DEF GoodInput
<1>3. LET over == LiesOver(Before(in, c), c.outstanding, in.credit, in.amount)
      IN  /\ over.amount \in Nat /\ over.fromCredit \in Nat
          /\ c.outstanding - over.amount - over.fromCredit
               = Remains(Before(in, c), c.outstanding, in.credit + in.amount)
          /\ Remains(Before(in, c), c.outstanding, in.credit + in.amount) \in Nat
  BY <1>1, <1>2, RemainsUncovered
<1> QED
  BY <1>1, <1>3 DEF RemainsOf

(* A set of charges with every charge before one of them, and the payment  *)
(* to those charges alone.                                                 *)
Closed(in, T) == \A d \in T, e \in in.charges : Precedes(in.rule, e, d) => e \in T

SubInput(in, T) ==
  [amount |-> in.amount, charges |-> T, credit |-> in.credit, rule |-> in.rule,
   threshold |-> in.threshold, unitMatched |-> TRUE, forceApply |-> TRUE]

(* The engine applies it too, and leaves of these charges as much.         *)
LEMMA SubInputIsGood ==
  ASSUME NEW in, GoodInput(in), NEW T \in SUBSET in.charges, Closed(in, T)
  PROVE  /\ GoodInput(SubInput(in, T))
         /\ \A c \in T : RemainsOf(SubInput(in, T), c) = RemainsOf(in, c)
<1> DEFINE sub == SubInput(in, T)
<1>1. /\ sub.amount = in.amount /\ sub.charges = T /\ sub.credit = in.credit /\ sub.rule = in.rule
      /\ sub.threshold = in.threshold /\ sub.unitMatched = TRUE /\ sub.forceApply = TRUE
  BY DEF SubInput
<1> HIDE DEF sub
<1>2. ~MustHold(sub)
  BY <1>1 DEF MustHold
<1>3. Distinct(T)
  BY FS_Subset DEF GoodInput, Distinct
<1>4. GoodInput(sub)
  BY <1>1, <1>2, <1>3 DEF GoodInput
<1>5. ASSUME NEW c \in T PROVE RemainsOf(sub, c) = RemainsOf(in, c)
  <2>1. {d \in T : Precedes(in.rule, d, c)} = {d \in in.charges : Precedes(in.rule, d, c)}
    BY DEF Closed
  <2> QED
    BY <1>1, <2>1 DEF RemainsOf, Before
<1> QED
  BY <1>4, <1>5 DEF sub

(* What the engine gives all charges, in payment and in credit.            *)
LEMMA AllGiven ==
  ASSUME NEW in, GoodInput(in)
  PROVE  LET given(c) == AllocationOf(Reconcile(in).allocs, c.id)
         IN  /\ SumOver([c \in in.charges |-> given(c).amount], in.charges)
                  = in.amount - Allocate(in).payment
             /\ SumOver([c \in in.charges |-> given(c).fromCredit], in.charges)
                  = in.credit - Allocate(in).credit
<1> DEFINE charges == in.charges
           allocs == Allocate(in).allocs
           p == Allocate(in)
           ids == IdsOf(charges)
           am == Amounts(allocs, ids)
           cr == Credits(allocs, ids)
           idOf == [c \in charges |-> c.id]
           fa == [c \in charges |-> AllocationOf(allocs, c.id).amount]
           fk == [c \in charges |-> AllocationOf(allocs, c.id).fromCredit]
<1>1. /\ Distinct(charges) /\ IsFiniteSet(charges) /\ in.amount \in Nat /\ in.credit \in Nat
      /\ \A c \in charges : c.outstanding \in Nat \ {0}
      /\ {c \in charges : c.outstanding > 0} = charges
      /\ \A c, d \in charges : c.id = d.id => c = d
  BY DEF GoodInput, Distinct
<1>2. idOf \in [charges -> ids] /\ ids = {idOf[c] : c \in charges}
  BY DEF IdsOf
<1>3. IsFiniteSet(ids)
  <2>1. idOf \in Surjection(charges, ids)
    BY <1>2 DEF Surjection
  <2> HIDE DEF idOf, ids, charges
  <2> QED
    BY <1>1, <2>1, FS_Surjection
<1>4. Allocated(charges, ids, in.amount, in.credit, p)
  <2>1. ids \subseteq ids
    OBVIOUS
  <2>2. Allocated({c \in in.charges : c.outstanding > 0}, ids, in.amount, in.credit, Allocate(in))
    <3> HIDE DEF p, am, cr, fa, fk
    <3> QED
      BY <1>1, <1>3, <2>1, AllocateAllocates
  <2> QED
    BY <1>1, <2>2
<1>5. /\ p \in Purses /\ DOMAIN p.allocs \subseteq ids
      /\ SumOver(am, ids) + p.payment = in.amount
      /\ SumOver(cr, ids) + p.credit = in.credit
  BY <1>1, <1>4 DEF Allocated
<1>6. p.payment \in Nat /\ p.credit \in Int
      /\ \A id \in DOMAIN p.allocs : p.allocs[id].amount \in Int /\ p.allocs[id].fromCredit \in Int
  <2>1. p.payment \in Nat /\ p.credit \in Int /\ p.allocs \in UNION {[I -> Shares] : I \in SUBSET Int}
    BY <1>5 DEF Purses
  <2>2. PICK I \in SUBSET Int : p.allocs \in [I -> Shares]
    BY <2>1
  <2>3. \A id \in DOMAIN p.allocs : p.allocs[id] \in Shares
    BY <2>2
  <2>4. \A x \in Shares : x.amount \in Int /\ x.fromCredit \in Int
    BY DEF Shares
  <2> QED
    BY <2>1, <2>3, <2>4
<1>7. /\ \A id \in ids : am[id] \in Int /\ cr[id] \in Int
      /\ \A c \in charges : c.id \in ids /\ fa[c] = am[c.id] /\ fk[c] = cr[c.id]
  BY <1>5, <1>6 DEF Amounts, Credits, AllocationOf, IdsOf
<1>8. Numbers(am, ids) /\ Numbers(cr, ids)
  BY <1>7 DEF Numbers
<1>9. /\ \A c \in charges : idOf[c] = c.id
      /\ fa = [c \in charges |-> am[idOf[c]]] /\ fk = [c \in charges |-> cr[idOf[c]]]
  BY <1>7
<1>10. \A c, d \in charges : idOf[c] = idOf[d] => c = d
  BY <1>1, <1>9
<1>11. Reconcile(in).allocs = allocs
  BY EngineFills DEF Classified
<1> HIDE DEF charges, allocs, p, ids, am, cr, idOf, fa, fk
<1>12. SumOver(fa, charges) = SumOver(am, ids)
  <2>1. SumOver([c \in charges |-> am[idOf[c]]], charges) = SumOver(am, {idOf[c] : c \in charges})
    BY <1>1, <1>2, <1>3, <1>8, <1>10, SumRename
  <2> QED
    BY <1>2, <1>9, <2>1
<1>13. SumOver(fk, charges) = SumOver(cr, ids)
  <2>1. SumOver([c \in charges |-> cr[idOf[c]]], charges) = SumOver(cr, {idOf[c] : c \in charges})
    BY <1>1, <1>2, <1>3, <1>8, <1>10, SumRename
  <2> QED
    BY <1>2, <1>9, <2>1
<1>14. SumOver(am, ids) \in Int /\ SumOver(cr, ids) \in Int
  BY <1>3, <1>8, SumType
<1>15. SumOver(fa, charges) = in.amount - p.payment /\ SumOver(fk, charges) = in.credit - p.credit
  BY <1>1, <1>5, <1>6, <1>12, <1>13, <1>14
<1> QED
  BY <1>11, <1>15 DEF fa, fk, p, charges

(* All charges together still owe what the money does not reach.           *)
LEMMA AllRemain ==
  ASSUME NEW in, GoodInput(in)
  PROVE  SumOver([c \in in.charges |-> RemainsOf(in, c)], in.charges)
           = Greater(0, Sum(in.charges) - (in.credit + in.amount))
<1> DEFINE charges == in.charges
           allocs == Reconcile(in).allocs
           fo == OwedOf(charges)
           fa == [c \in charges |-> AllocationOf(allocs, c.id).amount]
           fk == [c \in charges |-> AllocationOf(allocs, c.id).fromCredit]
           fg == [c \in charges |-> fa[c] + fk[c]]
           fr == [c \in charges |-> RemainsOf(in, c)]
           p == Allocate(in)
<1>1. /\ IsFiniteSet(charges) /\ in.amount \in Nat /\ in.credit \in Nat
      /\ \A c \in charges : c.outstanding \in Nat
  BY DEF GoodInput, Distinct
<1>2. /\ p.payment = SurplusOf(in) /\ p.credit = Greater(0, in.credit - Sum(charges))
      /\ Sum(charges) \in Nat
  BY EngineFills
<1>3. /\ SumOver(fa, charges) = in.amount - p.payment
      /\ SumOver(fk, charges) = in.credit - p.credit
  BY AllGiven
<1>4. \A c \in charges : /\ fa[c] \in Nat /\ fk[c] \in Nat /\ fr[c] \in Nat /\ fo[c] \in Nat
                         /\ fo[c] - fa[c] - fk[c] = fr[c]
  <2> SUFFICES ASSUME NEW c \in charges
               PROVE  /\ fa[c] \in Nat /\ fk[c] \in Nat /\ fr[c] \in Nat /\ fo[c] \in Nat
                      /\ fo[c] - fa[c] - fk[c] = fr[c]
    OBVIOUS
  <2>1. fo[c] = c.outstanding /\ fr[c] = RemainsOf(in, c)
        /\ fa[c] = AllocationOf(allocs, c.id).amount
        /\ fk[c] = AllocationOf(allocs, c.id).fromCredit
    BY DEF OwedOf
  <2>2. LET over == AllocationOf(allocs, c.id)
        IN  /\ over.amount \in Nat /\ over.fromCredit \in Nat
            /\ c.outstanding - over.amount - over.fromCredit = RemainsOf(in, c)
            /\ RemainsOf(in, c) \in Nat
    BY ChargeRemains
  <2>3. c.outstanding \in Nat
    BY <1>1
  <2>4. /\ AllocationOf(allocs, c.id).amount \in Nat
        /\ AllocationOf(allocs, c.id).fromCredit \in Nat
        /\ c.outstanding - AllocationOf(allocs, c.id).amount
             - AllocationOf(allocs, c.id).fromCredit = RemainsOf(in, c)
        /\ RemainsOf(in, c) \in Nat
    BY <2>2
  <2> HIDE DEF fo, fa, fk, fr, allocs
  <2> QED
    BY <2>1, <2>3, <2>4
<1>5. \A c \in charges : fg[c] = fa[c] + fk[c] /\ fg[c] \in Nat
  <2> HIDE DEF fo, fa, fk, fr
  <2> QED
    BY <1>4
<1>6. Sum(charges) = SumOver(fo, charges)
  <2> HIDE DEF charges
  <2> QED
    BY <1>1, SumOfPart
<1> HIDE DEF charges, allocs, fo, fa, fk, fg, fr, p
<1>7. /\ Numbers(fa, charges) /\ Numbers(fk, charges) /\ Numbers(fg, charges) /\ Numbers(fr, charges)
      /\ \A c \in charges : fo[c] = fr[c] + fg[c]
  BY <1>4, <1>5 DEF Numbers
<1>8. SumOver(fg, charges) = SumOver(fa, charges) + SumOver(fk, charges)
  BY <1>1, <1>5, <1>7, SumAdd
<1>9. SumOver(fo, charges) = SumOver(fr, charges) + SumOver(fg, charges)
  BY <1>1, <1>7, SumAdd
<1>10. SumOver(fr, charges) \in Int
  BY <1>1, <1>7, SumType
<1>11. SumOver(fr, charges) = Greater(0, Sum(charges) - (in.credit + in.amount))
  <2>1. p.payment = Lesser(in.amount, Greater(0, in.amount + in.credit - Sum(charges)))
    BY <1>2 DEF SurplusOf, charges
  <2>2. SumOver(fr, charges) = Sum(charges) - (in.amount - p.payment) - (in.credit - p.credit)
    <3>1. p.payment \in Int /\ p.credit \in Int
      BY <1>1, <1>2, <2>1 DEF Lesser, Greater
    <3> QED
      BY <1>1, <1>2, <1>3, <1>6, <1>8, <1>9, <1>10, <3>1
  <2> QED
    BY <1>1, <1>2, <2>1, <2>2 DEF Lesser, Greater
<1> QED
  BY <1>11 DEF fr, charges

(* So do the first of them.                                                *)
LEMMA FirstRemain ==
  ASSUME NEW in, GoodInput(in), NEW T \in SUBSET in.charges, Closed(in, T)
  PROVE  SumOver([c \in T |-> RemainsOf(in, c)], T)
           = Greater(0, Sum(T) - (in.credit + in.amount))
<1> DEFINE sub == SubInput(in, T)
           f == [c \in T |-> RemainsOf(sub, c)]
           g == [c \in T |-> RemainsOf(in, c)]
<1>1. GoodInput(sub) /\ \A c \in T : RemainsOf(sub, c) = RemainsOf(in, c)
  BY SubInputIsGood
<1>2. sub.charges = T /\ sub.credit = in.credit /\ sub.amount = in.amount
  BY DEF SubInput
<1>3. f = g
  BY <1>1
<1>4. SumOver([c \in sub.charges |-> RemainsOf(sub, c)], sub.charges)
        = Greater(0, Sum(sub.charges) - (sub.credit + sub.amount))
  <2> HIDE DEF sub
  <2> QED
    BY <1>1, AllRemain
<1>5. SumOver(f, T) = Greater(0, Sum(T) - (in.credit + in.amount))
  BY <1>2, <1>4
<1> HIDE DEF f, g
<1> QED
  BY <1>3, <1>5 DEF g

ChargeRecords == [id : Int, kind : {"SERVICE_CHARGE", "LEVY"}, due : Int, outstanding : Nat]

WithOwed(c, owed) == [id |-> c.id, kind |-> c.kind, due |-> c.due, outstanding |-> owed]

(* A charge with another amount outstanding.                               *)
LEMMA OwedReplaced ==
  ASSUME NEW c \in ChargeRecords, NEW owed \in Nat
  PROVE  /\ [c EXCEPT !.outstanding = owed] = WithOwed(c, owed)
         /\ WithOwed(c, owed) \in ChargeRecords
         /\ WithOwed(c, owed).id = c.id /\ WithOwed(c, owed).outstanding = owed
         /\ \A other : WithOwed(WithOwed(c, owed), other) = WithOwed(c, other)
<1>1. c = [id |-> c.id, kind |-> c.kind, due |-> c.due, outstanding |-> c.outstanding]
  BY DEF ChargeRecords
<1>2. [c EXCEPT !.outstanding = owed] = WithOwed(c, owed)
  BY <1>1 DEF WithOwed
<1>3. WithOwed(c, owed) \in ChargeRecords
  BY DEF ChargeRecords, WithOwed
<1> QED
  BY <1>2, <1>3 DEF WithOwed

(* The charges of T that are not settled by the payment.                   *)
Unsettled(in, T) == {c \in T : RemainsOf(in, c) > 0}

StillOpen(in, T) == {WithOwed(c, RemainsOf(in, c)) : c \in Unsettled(in, T)}

(* They are the charges that After keeps.                                  *)
LEMMA OpenAfter ==
  ASSUME NEW in, GoodInput(in), in.charges \subseteq ChargeRecords
  PROVE  {d \in {LeftOf(c, Reconcile(in).allocs) : c \in in.charges} : d.outstanding > 0}
           = StillOpen(in, in.charges)
<1> DEFINE allocs == Reconcile(in).allocs
           left == {LeftOf(c, allocs) : c \in in.charges}
<1>1. ASSUME NEW c \in in.charges
      PROVE  /\ LeftOf(c, allocs) = WithOwed(c, RemainsOf(in, c))
             /\ LeftOf(c, allocs).outstanding = RemainsOf(in, c)
  <2> DEFINE a == AllocationOf(allocs, c.id).amount
             k == AllocationOf(allocs, c.id).fromCredit
  <2>1. c.outstanding - a - k = RemainsOf(in, c) /\ RemainsOf(in, c) \in Nat
    BY ChargeRemains
  <2>2. LeftOf(c, allocs) = [c EXCEPT !.outstanding = c.outstanding - a - k]
    BY DEF LeftOf
  <2> HIDE DEF a, k, allocs
  <2>3. LeftOf(c, allocs) = [c EXCEPT !.outstanding = RemainsOf(in, c)]
    BY <2>1, <2>2
  <2>4. c \in ChargeRecords
    OBVIOUS
  <2> QED
    BY <2>1, <2>3, <2>4, OwedReplaced
<1> HIDE DEF allocs
<1>2. {d \in left : d.outstanding > 0} \subseteq StillOpen(in, in.charges)
  BY <1>1 DEF StillOpen, Unsettled
<1>3. StillOpen(in, in.charges) \subseteq {d \in left : d.outstanding > 0}
  <2> SUFFICES ASSUME NEW c \in Unsettled(in, in.charges)
               PROVE  WithOwed(c, RemainsOf(in, c)) \in {d \in left : d.outstanding > 0}
    BY DEF StillOpen
  <2>1. c \in in.charges /\ RemainsOf(in, c) > 0
    BY DEF Unsettled
  <2>2. LeftOf(c, allocs) \in left
    BY <2>1
  <2> HIDE DEF left
  <2> QED
    BY <1>1, <2>1, <2>2
<1> QED
  BY <1>2, <1>3 DEF allocs

(* They are charges like any other, and owe what the money does not reach. *)
LEMMA StillOpenAreCharges ==
  ASSUME NEW in, GoodInput(in), in.charges \subseteq ChargeRecords, NEW T \in SUBSET in.charges
  PROVE  /\ IsFiniteSet(Unsettled(in, T)) /\ IsFiniteSet(StillOpen(in, T))
         /\ Distinct(StillOpen(in, T)) /\ StillOpen(in, T) \subseteq ChargeRecords
         /\ \A c \in StillOpen(in, T) :
              c.outstanding \in Nat \ {0} /\ c.kind \in {"SERVICE_CHARGE", "LEVY"}
<1> DEFINE U == Unsettled(in, T)
           V == StillOpen(in, T)
           w == [c \in U |-> WithOwed(c, RemainsOf(in, c))]
<1>1. IsFiniteSet(U) /\ \A c, d \in U : c.id = d.id => c = d
  <2>1. IsFiniteSet(in.charges) /\ \A c, d \in in.charges : c.id = d.id => c = d
    BY DEF GoodInput, Distinct
  <2> QED
    BY <2>1, FS_Subset DEF Unsettled
<1>2. IsFiniteSet(V)
  <2>1. w \in Surjection(U, V)
    BY DEF Surjection, StillOpen
  <2> HIDE DEF U, V, w
  <2> QED
    BY <1>1, <2>1, FS_Surjection
<1>3. \A c \in U : c \in ChargeRecords /\ RemainsOf(in, c) \in Nat \ {0}
  BY ChargeRemains DEF Unsettled
<1>4. \A c \in U : LET d == WithOwed(c, RemainsOf(in, c))
                   IN  d \in ChargeRecords /\ d.id = c.id /\ d.outstanding = RemainsOf(in, c)
  BY <1>3, OwedReplaced
<1>5. \A d \in V : \E c \in U : d = WithOwed(c, RemainsOf(in, c))
  BY DEF StillOpen
<1> HIDE DEF U, V, w
<1>6. \A d \in V : d \in ChargeRecords /\ d.outstanding \in Nat \ {0}
  BY <1>3, <1>4, <1>5
<1>7. \A d \in ChargeRecords : /\ d.id \in Int /\ d.due \in Int /\ d.outstanding \in Int
                               /\ d.kind \in {"SERVICE_CHARGE", "LEVY"}
  BY DEF ChargeRecords
<1>8. \A d, e \in V : d.id = e.id => d = e
  <2> SUFFICES ASSUME NEW d \in V, NEW e \in V, d.id = e.id PROVE d = e
    OBVIOUS
  <2>1. PICK x \in U : d = WithOwed(x, RemainsOf(in, x))
    BY <1>5
  <2>2. PICK y \in U : e = WithOwed(y, RemainsOf(in, y))
    BY <1>5
  <2>3. x = y
    BY <1>1, <1>4, <2>1, <2>2
  <2> QED
    BY <2>1, <2>2, <2>3
<1>9. Distinct(V)
  BY <1>2, <1>6, <1>7, <1>8 DEF Distinct
<1> QED
  BY <1>1, <1>2, <1>6, <1>7, <1>9 DEF U, V

(* Together they owe what the money does not reach.                        *)
LEMMA SumStillOpen ==
  ASSUME NEW in, GoodInput(in), in.charges \subseteq ChargeRecords,
         NEW T \in SUBSET in.charges, Closed(in, T)
  PROVE  Sum(StillOpen(in, T)) = Greater(0, Sum(T) - (in.credit + in.amount))
<1> DEFINE U == Unsettled(in, T)
           V == StillOpen(in, T)
           w == [c \in U |-> WithOwed(c, RemainsOf(in, c))]
           f == OwedOf(V)
           fr == [c \in T |-> RemainsOf(in, c)]
           g == [c \in U |-> f[w[c]]]
<1>1. /\ IsFiniteSet(U) /\ IsFiniteSet(V) /\ \A c \in V : c.outstanding \in Nat
      /\ \A c, d \in U : c.id = d.id => c = d
      /\ IsFiniteSet(T) /\ U \subseteq T
  <2>1. IsFiniteSet(in.charges) /\ \A c, d \in in.charges : c.id = d.id => c = d
    BY DEF GoodInput, Distinct
  <2>2. U \subseteq T /\ IsFiniteSet(T) /\ \A c, d \in U : c.id = d.id => c = d
    BY <2>1, FS_Subset DEF Unsettled
  <2> QED
    BY <2>2, StillOpenAreCharges
<1>2. \A c \in T : RemainsOf(in, c) \in Nat
  BY ChargeRemains
<1>3. \A c \in U : /\ w[c] \in V /\ w[c].id = c.id /\ f[w[c]] = fr[c]
  <2> SUFFICES ASSUME NEW c \in U PROVE w[c] \in V /\ w[c].id = c.id /\ f[w[c]] = fr[c]
    OBVIOUS
  <2>1. c \in ChargeRecords /\ RemainsOf(in, c) \in Nat /\ c \in T
    BY <1>2 DEF Unsettled
  <2>2. w[c] = WithOwed(c, RemainsOf(in, c)) /\ w[c] \in V
    BY DEF StillOpen
  <2>3. w[c].id = c.id /\ w[c].outstanding = RemainsOf(in, c)
    BY <2>1, <2>2, OwedReplaced
  <2>4. fr[c] = RemainsOf(in, c)
    BY <2>1
  <2> HIDE DEF w, V, fr
  <2> QED
    BY <2>2, <2>3, <2>4 DEF OwedOf
<1>4. w \in [U -> V] /\ V = {w[c] : c \in U} /\ \A x, y \in U : w[x] = w[y] => x = y
  <2>1. \A x, y \in U : w[x] = w[y] => x = y
    <3> SUFFICES ASSUME NEW x \in U, NEW y \in U, w[x] = w[y] PROVE x = y
      OBVIOUS
    <3> HIDE DEF w, V, U, f, fr
    <3>1. w[x].id = x.id /\ w[y].id = y.id
      BY <1>3
    <3>2. x.id = y.id
      BY <3>1
    <3> QED
      BY <1>1, <3>2
  <2>2. w \in [U -> V] /\ V = {w[c] : c \in U}
    BY DEF StillOpen
  <2> QED
    BY <2>1, <2>2
<1>5. Numbers(f, V)
  BY <1>1 DEF Numbers, OwedOf
<1>6. Sum(V) = SumOver(f, V)
  <2> HIDE DEF V
  <2> QED
    BY <1>1, SumOfPart
<1>7. Numbers(fr, T) /\ Numbers(fr, U) /\ \A c \in T \ U : fr[c] = 0
  <2>1. \A c \in T \ U : RemainsOf(in, c) = 0
    BY <1>2 DEF Unsettled
  <2> QED
    BY <1>1, <1>2, <2>1 DEF Numbers
<1>8. \A c \in U : g[c] = fr[c]
  <2> HIDE DEF w, f, fr
  <2> QED
    BY <1>3
<1> HIDE DEF U, V, w, f
<1>9. SumOver(g, U) = SumOver(f, V)
  <2>1. SumOver([c \in U |-> f[w[c]]], U) = SumOver(f, {w[c] : c \in U})
    BY <1>1, <1>4, <1>5, SumRename
  <2> QED
    BY <1>4, <2>1
<1>10. SumOver(fr, T) = Greater(0, Sum(T) - (in.credit + in.amount))
  BY FirstRemain
<1> HIDE DEF fr, g
<1>11. SumOver(g, U) = SumOver(fr, U) /\ SumOver(fr, T) = SumOver(fr, U)
  BY <1>1, <1>7, <1>8, SumCongruence, SumWithin
<1> QED
  BY <1>6, <1>9, <1>10, <1>11 DEF V

Firsts(in, c) == {d \in in.charges : Precedes(in.rule, d, c)}

(* The charges before one, with all charges before them.                   *)
LEMMA FirstsAreClosed ==
  ASSUME NEW in, GoodInput(in), NEW c \in in.charges
  PROVE  Closed(in, Firsts(in, c)) /\ Firsts(in, c) \in SUBSET in.charges
<1>1. \A x, y \in in.charges : Precedes(in.rule, x, y) <=> SortsBefore(in.rule, x, y)
  BY PrecedesIsSortsBefore
<1>2. \A x, y, z \in in.charges :
        SortsBefore(in.rule, x, y) /\ SortsBefore(in.rule, y, z) => SortsBefore(in.rule, x, z)
  BY SortsBeforeIsAnOrder DEF GoodInput
<1> QED
  BY <1>1, <1>2 DEF Closed, Firsts

(* Before a charge that is still open lies what is left of those before it.*)
LEMMA BeforeStillOpen ==
  ASSUME NEW in, GoodInput(in), in.charges \subseteq ChargeRecords,
         NEW next, next.rule = in.rule, next.charges = StillOpen(in, in.charges),
         NEW c \in Unsettled(in, in.charges)
  PROVE  Before(next, WithOwed(c, RemainsOf(in, c)))
           = Greater(0, Before(in, c) - (in.credit + in.amount))
<1> DEFINE w == WithOwed(c, RemainsOf(in, c))
           T == Firsts(in, c)
           firsts == {d \in next.charges : Precedes(next.rule, d, w)}
<1>1. c \in in.charges /\ T \in SUBSET in.charges /\ Closed(in, T)
  BY FirstsAreClosed DEF Unsettled
<1>2. \A d \in in.charges : Precedes(in.rule, WithOwed(d, RemainsOf(in, d)), w)
                              <=> Precedes(in.rule, d, c)
  BY DEF Precedes, WithOwed
<1>3. firsts \subseteq StillOpen(in, T)
  <2> SUFFICES ASSUME NEW d \in next.charges, Precedes(in.rule, d, w)
               PROVE  d \in StillOpen(in, T)
    OBVIOUS
  <2>1. PICK e \in in.charges : RemainsOf(in, e) > 0 /\ d = WithOwed(e, RemainsOf(in, e))
    BY DEF StillOpen, Unsettled
  <2>2. e \in Unsettled(in, T)
    <3>1. Precedes(in.rule, e, c)
      <4> HIDE DEF w
      <4> QED
        BY <1>2, <2>1
    <3> QED
      BY <2>1, <3>1 DEF Unsettled, Firsts
  <2> QED
    BY <2>1, <2>2 DEF StillOpen
<1>4. StillOpen(in, T) \subseteq firsts
  <2> SUFFICES ASSUME NEW e \in Unsettled(in, T)
               PROVE  WithOwed(e, RemainsOf(in, e)) \in firsts
    BY DEF StillOpen
  <2>1. e \in in.charges /\ RemainsOf(in, e) > 0 /\ Precedes(in.rule, e, c)
    BY DEF Unsettled, Firsts
  <2>2. e \in Unsettled(in, in.charges)
    BY <2>1 DEF Unsettled
  <2>3. WithOwed(e, RemainsOf(in, e)) \in next.charges
    BY <2>2 DEF StillOpen
  <2>4. Precedes(in.rule, WithOwed(e, RemainsOf(in, e)), w)
    <3> HIDE DEF w
    <3> QED
      BY <1>2, <2>1
  <2> QED
    BY <2>3, <2>4
<1>5. Sum(StillOpen(in, T)) = Greater(0, Sum(T) - (in.credit + in.amount))
  <2> HIDE DEF T
  <2> QED
    BY <1>1, SumStillOpen
<1>6. Sum(firsts) = Greater(0, Sum(T) - (in.credit + in.amount))
  <2>1. firsts = StillOpen(in, T)
    <3> HIDE DEF firsts, T
    <3> QED
      BY <1>3, <1>4
  <2> QED
    BY <1>5, <2>1
<1> QED
  BY <1>6 DEF Before, Firsts

(* Paying more later leaves of a charge what paying it at once leaves.     *)
LEMMA RemainsNothing ==
  ASSUME NEW before \in Nat, NEW owed \in Nat, NEW money \in Nat, NEW more \in Nat,
         Remains(before, owed, money) = 0
  PROVE  Remains(before, owed, money + more) = 0
BY DEF Remains, Lesser, Greater

(* The second payment starts where the first has stopped.                  *)
LEMMA RemainsTwice ==
  ASSUME NEW before \in Nat, NEW owed \in Nat, NEW all \in Nat, NEW money \in Nat, NEW more \in Nat,
         Remains(before, owed, money) > 0, all > money
  PROVE  Remains(Greater(0, before - money), Remains(before, owed, money), Greater(0, money - all) + more)
           = Remains(before, owed, money + more)
BY DEF Remains, Lesser, Greater

(* The input of the engine for a payment of a.                             *)
PaymentOf(a, had, charges, rule, threshold, matched, force) ==
  [amount |-> a, at |-> 0, source |-> "resident", occupant |-> "resident",
   charges |-> charges, credit |-> had, rule |-> rule, threshold |-> threshold,
   window |-> 0, priors |-> {}, unitMatched |-> matched, forceApply |-> force]

(* A payment of a that is applied and credits whatever it does not need.   *)
Applied(a, had, charges, rule) == PaymentOf(a, had, charges, rule, amount + 1, TRUE, TRUE)

(* Records of payments that differ in one field.                           *)
LEMMA AmountReplaced ==
  ASSUME NEW a, NEW had, NEW charges, NEW rule, NEW threshold, NEW matched, NEW force, NEW x
  PROVE  [PaymentOf(a, had, charges, rule, threshold, matched, force) EXCEPT !.amount = x]
           = PaymentOf(x, had, charges, rule, threshold, matched, force)
BY DEF PaymentOf

(* The field credit of such a record.                                      *)
LEMMA CreditReplaced ==
  ASSUME NEW a, NEW had, NEW charges, NEW rule, NEW threshold, NEW matched, NEW force, NEW x
  PROVE  [PaymentOf(a, had, charges, rule, threshold, matched, force) EXCEPT !.credit = x]
           = PaymentOf(a, x, charges, rule, threshold, matched, force)
BY DEF PaymentOf

(* The field charges of such a record.                                     *)
LEMMA ChargesReplaced ==
  ASSUME NEW a, NEW had, NEW charges, NEW rule, NEW threshold, NEW matched, NEW force, NEW x
  PROVE  [PaymentOf(a, had, charges, rule, threshold, matched, force) EXCEPT !.charges = x]
           = PaymentOf(a, had, x, rule, threshold, matched, force)
BY DEF PaymentOf

(* The field threshold of such a record.                                   *)
LEMMA ThresholdReplaced ==
  ASSUME NEW a, NEW had, NEW charges, NEW rule, NEW threshold, NEW matched, NEW force, NEW x
  PROVE  [PaymentOf(a, had, charges, rule, threshold, matched, force) EXCEPT !.threshold = x]
           = PaymentOf(a, had, charges, rule, x, matched, force)
BY DEF PaymentOf

(* The field forceApply of such a record.                                  *)
LEMMA ForceReplaced ==
  ASSUME NEW a, NEW had, NEW charges, NEW rule, NEW threshold, NEW matched, NEW force, NEW x
  PROVE  [PaymentOf(a, had, charges, rule, threshold, matched, force) EXCEPT !.forceApply = x]
           = PaymentOf(a, had, charges, rule, threshold, matched, x)
BY DEF PaymentOf

(* The same for a payment that is applied.                                 *)
LEMMA AppliedAmount ==
  ASSUME NEW a, NEW had, NEW charges, NEW rule, NEW x
  PROVE  [Applied(a, had, charges, rule) EXCEPT !.amount = x] = Applied(x, had, charges, rule)
<1>1. PICK yes : yes = TRUE
  OBVIOUS
<1>2. \A y, z, set : Applied(y, z, set, rule) = PaymentOf(y, z, set, rule, amount + 1, yes, yes)
  BY <1>1, Zenon DEF Applied
<1>3. [PaymentOf(a, had, charges, rule, amount + 1, yes, yes) EXCEPT !.amount = x]
        = PaymentOf(x, had, charges, rule, amount + 1, yes, yes)
  BY AmountReplaced
<1> QED
  BY <1>2, <1>3

(* And its credit.                                                         *)
LEMMA AppliedCredit ==
  ASSUME NEW a, NEW had, NEW charges, NEW rule, NEW x
  PROVE  [Applied(a, had, charges, rule) EXCEPT !.credit = x] = Applied(a, x, charges, rule)
<1>1. PICK yes : yes = TRUE
  OBVIOUS
<1>2. \A y, z, set : Applied(y, z, set, rule) = PaymentOf(y, z, set, rule, amount + 1, yes, yes)
  BY <1>1, Zenon DEF Applied
<1>3. [PaymentOf(a, had, charges, rule, amount + 1, yes, yes) EXCEPT !.credit = x]
        = PaymentOf(a, x, charges, rule, amount + 1, yes, yes)
  BY CreditReplaced
<1> QED
  BY <1>2, <1>3

(* And its charges.                                                        *)
LEMMA AppliedCharges ==
  ASSUME NEW a, NEW had, NEW charges, NEW rule, NEW x
  PROVE  [Applied(a, had, charges, rule) EXCEPT !.charges = x] = Applied(a, had, x, rule)
<1>1. PICK yes : yes = TRUE
  OBVIOUS
<1>2. \A y, z, set : Applied(y, z, set, rule) = PaymentOf(y, z, set, rule, amount + 1, yes, yes)
  BY <1>1, Zenon DEF Applied
<1>3. [PaymentOf(a, had, charges, rule, amount + 1, yes, yes) EXCEPT !.charges = x]
        = PaymentOf(a, had, x, rule, amount + 1, yes, yes)
  BY ChargesReplaced
<1> QED
  BY <1>2, <1>3

(* The input of a run, applied whatever its surplus, is such a payment.    *)
LEMMA EngineInputApplied ==
  ASSUME NEW rule, NEW open, NEW threshold
  PROVE  [EngineInput(rule, open, threshold) EXCEPT !.forceApply = TRUE, !.threshold = amount + 1]
           = Applied(amount, credit, ChargesOf(rule, open), rule)
<1> DEFINE charges == ChargesOf(rule, open)
<1>1. PICK yes, no : yes = TRUE /\ no = FALSE
  OBVIOUS
<1>2. EngineInput(rule, open, threshold) = PaymentOf(amount, credit, charges, rule, threshold, yes, no)
  BY <1>1, Zenon DEF EngineInput, PaymentOf, ChargesOf
<1>3. Applied(amount, credit, charges, rule) = PaymentOf(amount, credit, charges, rule, amount + 1, yes, yes)
  BY <1>1, Zenon DEF Applied
<1> HIDE DEF charges
<1>4. [PaymentOf(amount, credit, charges, rule, threshold, yes, no) EXCEPT !.forceApply = yes]
        = PaymentOf(amount, credit, charges, rule, threshold, yes, yes)
  BY ForceReplaced
<1>5. [PaymentOf(amount, credit, charges, rule, threshold, yes, yes) EXCEPT !.threshold = amount + 1]
        = PaymentOf(amount, credit, charges, rule, amount + 1, yes, yes)
  BY ThresholdReplaced
<1>6. [EngineInput(rule, open, threshold) EXCEPT !.forceApply = TRUE, !.threshold = amount + 1]
        = [[EngineInput(rule, open, threshold) EXCEPT !.forceApply = TRUE] EXCEPT !.threshold = amount + 1]
  OBVIOUS
<1>7. [EngineInput(rule, open, threshold) EXCEPT !.forceApply = TRUE]
        = [EngineInput(rule, open, threshold) EXCEPT !.forceApply = yes]
  BY <1>1, Zenon
<1> QED
  BY <1>2, <1>3, <1>4, <1>5, <1>6, <1>7 DEF charges

GoodCharges(charges) ==
  /\ Distinct(charges) /\ charges \subseteq ChargeRecords
  /\ \A c \in charges : c.outstanding \in Nat \ {0} /\ c.kind \in {"SERVICE_CHARGE", "LEVY"}

(* What it leaves the unit with.                                           *)
LEMMA AfterApplied ==
  ASSUME amount \in Nat, NEW rule \in Rules, NEW charges, GoodCharges(charges),
         NEW a \in Nat, a <= amount, NEW had \in Nat
  PROVE  LET in == Applied(a, had, charges, rule)
             open == StillOpen(in, charges)
             left == Greater(0, had + a - Sum(charges))
         IN  /\ GoodInput(in) /\ GoodCharges(open) /\ left \in Nat
             /\ Sum(charges) \in Nat
             /\ After(in) = Applied(a, left, open, rule)
<1> DEFINE in == Applied(a, had, charges, rule)
           open == StillOpen(in, charges)
           left == Greater(0, had + a - Sum(charges))
           result == Reconcile(in)
<1>1. /\ in.amount = a /\ in.charges = charges /\ in.credit = had /\ in.rule = rule
      /\ in.threshold = amount + 1 /\ in.unitMatched = TRUE /\ in.forceApply = TRUE
  BY DEF Applied, PaymentOf
<1>2. GoodInput(in)
  <2> HIDE DEF in
  <2>1. ~MustHold(in)
    BY <1>1 DEF MustHold
  <2>2. in.threshold \in Nat
    BY <1>1
  <2> QED
    BY <1>1, <2>1, <2>2 DEF GoodInput, GoodCharges
<1>3. GoodCharges(open)
  <2> HIDE DEF in
  <2>1. in.charges \subseteq ChargeRecords /\ charges \in SUBSET in.charges
    BY <1>1 DEF GoodCharges
  <2> QED
    BY <1>2, <2>1, StillOpenAreCharges DEF GoodCharges
<1>4. /\ Classified(in, Allocate(in), result) /\ Allocate(in).payment = SurplusOf(in)
      /\ Allocate(in).credit = Greater(0, had - Sum(charges)) /\ Sum(charges) \in Nat
  <2> HIDE DEF in
  <2> QED
    BY <1>1, <1>2, EngineFills
<1>5. result.newCredit = left /\ left \in Nat
  <2>1. SurplusOf(in) = Lesser(a, Greater(0, a + had - Sum(charges)))
    BY <1>1 DEF SurplusOf
  <2>2. SurplusOf(in) \in Nat /\ SurplusOf(in) <= in.threshold
    <3> HIDE DEF in
    <3> QED
      BY <1>1, <1>4, <2>1 DEF Lesser, Greater
  <2>3. result.newCredit = Greater(0, had - Sum(charges)) + SurplusOf(in)
    <3> HIDE DEF in, result
    <3> QED
      BY <1>4, <2>2 DEF Classified, Added
  <2> HIDE DEF in, result
  <2> QED
    BY <1>4, <2>1, <2>3 DEF Lesser, Greater
<1>6. {c \in {LeftOf(c, result.allocs) : c \in charges} : c.outstanding > 0} = open
  <2> HIDE DEF in
  <2>1. in.charges \subseteq ChargeRecords
    BY <1>1 DEF GoodCharges
  <2> QED
    BY <1>1, <1>2, <2>1, OpenAfter
<1>7. After(in) = [in EXCEPT !.credit = left, !.charges = open]
  <2> HIDE DEF in, open, left
  <2> QED
    BY <1>1, <1>5, <1>6 DEF After
<1>8. [in EXCEPT !.credit = left, !.charges = open] = Applied(a, left, open, rule)
  <2> HIDE DEF open, left
  <2>1. [in EXCEPT !.credit = left] = Applied(a, left, charges, rule)
    BY AppliedCredit
  <2>2. [Applied(a, left, charges, rule) EXCEPT !.charges = open] = Applied(a, left, open, rule)
    BY AppliedCharges
  <2>3. [in EXCEPT !.credit = left, !.charges = open]
          = [[in EXCEPT !.credit = left] EXCEPT !.charges = open]
    OBVIOUS
  <2> HIDE DEF in
  <2> QED
    BY <2>1, <2>2, <2>3
<1> HIDE DEF in, open, left
<1> QED
  BY <1>2, <1>3, <1>4, <1>5, <1>7, <1>8 DEF in, open, left

(* The charges that two payments leave open, one after the other.          *)
LEMMA OpenAfterTwo ==
  ASSUME amount \in Nat, NEW rule \in Rules, NEW charges, GoodCharges(charges), NEW had \in Nat,
         NEW f \in Nat, NEW g \in Nat, f + g <= amount
  PROVE  LET one  == Applied(f, had, charges, rule)
             open == StillOpen(one, charges)
             two  == Applied(g, Greater(0, had + f - Sum(charges)), open, rule)
             both == Applied(f + g, had, charges, rule)
         IN  /\ StillOpen(two, open) = StillOpen(both, charges)
             /\ Sum(open) = Greater(0, Sum(charges) - (had + f))
<1> DEFINE one  == Applied(f, had, charges, rule)
           open == StillOpen(one, charges)
           rest == Greater(0, had + f - Sum(charges))
           two  == Applied(g, rest, open, rule)
           both == Applied(f + g, had, charges, rule)
           fr == [c \in charges |-> RemainsOf(one, c)]
<1>1. /\ one.amount = f /\ one.credit = had /\ one.charges = charges /\ one.rule = rule
      /\ two.amount = g /\ two.credit = rest /\ two.charges = open /\ two.rule = rule
      /\ both.amount = f + g /\ both.credit = had /\ both.charges = charges /\ both.rule = rule
  BY DEF Applied, PaymentOf
<1>2. f <= amount /\ g <= amount /\ f + g \in Nat
  OBVIOUS
<1>3. GoodInput(one) /\ GoodCharges(open) /\ rest \in Nat /\ Sum(charges) \in Nat
  BY <1>2, AfterApplied
<1>4. GoodInput(both)
  BY <1>2, AfterApplied
<1>5. GoodInput(two)
  <2> HIDE DEF open, rest
  <2> QED
    BY <1>2, <1>3, AfterApplied
<1>6. charges \subseteq ChargeRecords /\ IsFiniteSet(charges)
      /\ \A c \in charges : c.outstanding \in Nat
  BY DEF GoodCharges, Distinct
<1> HIDE DEF one, two, both, rest
<1>7. Sum(open) = Greater(0, Sum(charges) - (had + f))
      /\ SumOver(fr, charges) = Greater(0, Sum(charges) - (had + f))
  <2>1. one.charges \subseteq ChargeRecords /\ charges \in SUBSET one.charges /\ Closed(one, charges)
    BY <1>1, <1>6 DEF Closed
  <2> QED
    BY <1>1, <1>3, <2>1, SumStillOpen, FirstRemain
<1>8. ASSUME NEW c \in charges
      PROVE  /\ RemainsOf(one, c) = Remains(Before(one, c), c.outstanding, had + f)
             /\ RemainsOf(both, c) = Remains(Before(one, c), c.outstanding, had + (f + g))
             /\ Before(one, c) \in Nat /\ RemainsOf(one, c) \in Nat
  <2>1. Before(both, c) = Before(one, c)
    BY <1>1 DEF Before
  <2>2. Before(one, c) \in Nat /\ RemainsOf(one, c) \in Nat
    BY <1>1, <1>3, EngineFills, ChargeRemains
  <2> QED
    BY <1>1, <2>1, <2>2 DEF RemainsOf
<1>9. ASSUME NEW c \in charges, RemainsOf(one, c) > 0
      PROVE  Sum(charges) > had + f
  <2>1. \A d \in charges : fr[d] \in Nat
    BY <1>8
  <2>2. fr[c] > 0
    BY <1>9
  <2> HIDE DEF fr
  <2>3. SumOver(fr, charges) # 0
    <3>1. fr[c] # 0
      BY <2>1, <2>2
    <3> QED
      BY <1>6, <2>1, <3>1, SumIsZero
  <2> QED
    BY <1>3, <1>7, <2>3 DEF Greater
<1>10. ASSUME NEW c \in charges, RemainsOf(one, c) > 0
       PROVE  LET d == WithOwed(c, RemainsOf(one, c))
              IN  d \in open /\ RemainsOf(two, d) = RemainsOf(both, c)
  <2> DEFINE d == WithOwed(c, RemainsOf(one, c))
             b == Before(one, c)
             o == c.outstanding
             left == Remains(b, o, had + f)
             s == Sum(charges)
  <2>1. c \in Unsettled(one, charges) /\ d \in open
    BY <1>10 DEF Unsettled, StillOpen
  <2>2. Before(two, d) = Greater(0, b - (had + f))
    <3>1. two.charges = StillOpen(one, one.charges) /\ two.rule = one.rule
          /\ one.charges \subseteq ChargeRecords /\ c \in Unsettled(one, one.charges)
      BY <1>1, <1>6, <2>1
    <3>2. Before(two, d) = Greater(0, b - (one.credit + one.amount))
      BY <1>3, <3>1, BeforeStillOpen
    <3> QED
      BY <1>1, <3>2
  <2>3. d.outstanding = RemainsOf(one, c)
    BY DEF WithOwed
  <2>4. s > had + f /\ s \in Nat /\ b \in Nat /\ o \in Nat /\ left > 0
        /\ RemainsOf(one, c) = left /\ RemainsOf(both, c) = Remains(b, o, had + (f + g))
    BY <1>3, <1>6, <1>8, <1>9, <1>10
  <2>5. rest = Greater(0, had + f - s)
    BY DEF rest
  <2>6. RemainsOf(two, d) = Remains(Greater(0, b - (had + f)), left, rest + g)
    <3> HIDE DEF d, left, b
    <3> QED
      BY <1>1, <2>2, <2>3, <2>4 DEF RemainsOf
  <2>7. Remains(Greater(0, b - (had + f)), left, Greater(0, had + f - s) + g)
          = Remains(b, o, had + (f + g))
    <3> DEFINE m == had + f
    <3>1. m \in Nat /\ had + (f + g) = m + g
      OBVIOUS
    <3>2. Remains(Greater(0, b - m), Remains(b, o, m), Greater(0, m - s) + g) = Remains(b, o, m + g)
      <4>1. b \in Nat /\ o \in Nat /\ s \in Nat /\ m \in Nat /\ g \in Nat
            /\ Remains(b, o, m) > 0 /\ s > m
        BY <2>4, <3>1
      <4> HIDE DEF b, o, s, m
      <4> QED
        BY <4>1, RemainsTwice
    <3>3. left = Remains(b, o, m) /\ had + f = m
      OBVIOUS
    <3> HIDE DEF b, o, s, left, m
    <3>4. Remains(b, o, m + g) = Remains(b, o, had + (f + g))
      BY <3>1
    <3>5. Greater(0, b - m) = Greater(0, b - (had + f))
      BY <3>3
    <3>6. Greater(0, m - s) + g = Greater(0, had + f - s) + g
      BY <2>4, <3>1, <3>3 DEF Greater
    <3> QED
      BY <3>2, <3>3, <3>4, <3>5, <3>6, Zenon
  <2> HIDE DEF d, left, b, o, s
  <2>8. RemainsOf(two, d) = RemainsOf(both, c)
    BY <2>4, <2>5, <2>6, <2>7
  <2> QED
    BY <2>1, <2>8 DEF d
<1>11. ASSUME NEW c \in charges, RemainsOf(both, c) > 0 PROVE RemainsOf(one, c) > 0
  <2> DEFINE b == Before(one, c)
             o == c.outstanding
  <2>1. b \in Nat /\ o \in Nat /\ RemainsOf(one, c) = Remains(b, o, had + f) /\ RemainsOf(one, c) \in Nat
        /\ RemainsOf(both, c) = Remains(b, o, had + (f + g))
    BY <1>6, <1>8
  <2> HIDE DEF b, o
  <2>2. Remains(b, o, had + f) = 0 => Remains(b, o, had + (f + g)) = 0
    <3> DEFINE m == had + f
    <3>1. m \in Nat /\ had + (f + g) = m + g
      OBVIOUS
    <3>2. Remains(b, o, m) = 0 => Remains(b, o, m + g) = 0
      <4> HIDE DEF m
      <4> QED
        BY <2>1, <3>1, RemainsNothing
    <3> QED
      BY <3>1, <3>2
  <2> QED
    BY <1>11, <2>1, <2>2
<1>12. \A c \in charges, x \in Nat : \A y : WithOwed(WithOwed(c, x), y) = WithOwed(c, y)
  BY <1>6, OwedReplaced
<1>13. StillOpen(two, open) \subseteq StillOpen(both, charges)
  <2> SUFFICES ASSUME NEW d \in Unsettled(two, open)
               PROVE  WithOwed(d, RemainsOf(two, d)) \in StillOpen(both, charges)
    BY DEF StillOpen
  <2>1. PICK c \in charges : RemainsOf(one, c) > 0 /\ d = WithOwed(c, RemainsOf(one, c))
    BY DEF Unsettled, StillOpen
  <2>2. RemainsOf(two, d) = RemainsOf(both, c) /\ RemainsOf(two, d) > 0
    BY <1>10, <2>1 DEF Unsettled
  <2>3. WithOwed(d, RemainsOf(two, d)) = WithOwed(c, RemainsOf(both, c))
    BY <1>8, <1>12, <2>1, <2>2
  <2>4. c \in Unsettled(both, charges)
    BY <2>2 DEF Unsettled
  <2> QED
    BY <2>3, <2>4 DEF StillOpen
<1>14. StillOpen(both, charges) \subseteq StillOpen(two, open)
  <2> SUFFICES ASSUME NEW c \in Unsettled(both, charges)
               PROVE  WithOwed(c, RemainsOf(both, c)) \in StillOpen(two, open)
    BY DEF StillOpen
  <2> DEFINE d == WithOwed(c, RemainsOf(one, c))
  <2>1. c \in charges /\ RemainsOf(both, c) > 0 /\ RemainsOf(one, c) > 0 /\ RemainsOf(one, c) \in Nat
    BY <1>8, <1>11 DEF Unsettled
  <2>2. d \in open /\ RemainsOf(two, d) = RemainsOf(both, c)
    BY <1>10, <2>1
  <2>3. d \in Unsettled(two, open)
    <3> HIDE DEF d, open
    <3> QED
      BY <2>1, <2>2 DEF Unsettled
  <2>4. WithOwed(d, RemainsOf(two, d)) = WithOwed(c, RemainsOf(both, c))
    BY <1>12, <2>1, <2>2
  <2>5. WithOwed(d, RemainsOf(two, d)) \in StillOpen(two, open)
    <3> HIDE DEF d, open
    <3> QED
      BY <2>3 DEF StillOpen
  <2> QED
    BY <2>4, <2>5
<1>15. StillOpen(two, open) = StillOpen(both, charges)
  <2> HIDE DEF open
  <2> QED
    BY <1>13, <1>14
<1> QED
  BY <1>7, <1>15 DEF one, two, both, rest

(* Two instalments and their sum.                                          *)
LEMMA InstalmentsOfInput ==
  ASSUME TypeOK, NEW in \in Inputs, NEW f \in 1..(in.amount - 1)
  PROVE  LET whole  == [in EXCEPT !.forceApply = TRUE, !.threshold = amount + 1]
             second == [After([whole EXCEPT !.amount = f]) EXCEPT !.amount = in.amount - f]
         IN  /\ After(second).charges = After(whole).charges
             /\ After(second).credit = After(whole).credit
<1>1. PICK rule \in Rules, set \in SUBSET Charge, threshold \in {0, Threshold} :
             in = EngineInput(rule, set, threshold)
  BY DEF Inputs
<1> DEFINE charges == ChargesOf(rule, set)
           g == amount - f
           one == Applied(f, credit, charges, rule)
           open == StillOpen(one, charges)
           rest == Greater(0, credit + f - Sum(charges))
           two == Applied(g, rest, open, rule)
           both == Applied(f + g, credit, charges, rule)
           whole == [in EXCEPT !.forceApply = TRUE, !.threshold = amount + 1]
           second == [After([whole EXCEPT !.amount = f]) EXCEPT !.amount = in.amount - f]
<1>2. /\ amount \in Nat /\ credit \in Nat /\ in.amount = amount
      /\ f \in Nat /\ g \in Nat /\ f + g = amount /\ f <= amount /\ g <= amount /\ f + g <= amount
  <2>1. amount \in Nat \ {0} /\ in.amount = amount /\ credit \in Nat
    BY InputsAreGood DEF TypeOK
  <2> QED
    BY <2>1
<1>3. GoodCharges(charges)
  <2>1. GoodInput(in) /\ in.charges = charges
    BY <1>1, InputsAreGood DEF EngineInput, ChargesOf
  <2>2. charges \subseteq ChargeRecords
    BY ListedAssumption DEF ChargesOf, ChargeAt, ChargeRecords, TypeOK
  <2> QED
    BY <2>1, <2>2 DEF GoodInput, GoodCharges
<1>4. whole = both
  <2>1. whole = Applied(amount, credit, charges, rule)
    BY <1>1, EngineInputApplied
  <2> QED
    BY <1>2, <2>1
<1>5. /\ After(one) = Applied(f, rest, open, rule) /\ GoodCharges(open) /\ rest \in Nat
      /\ Sum(charges) \in Nat
  <2> HIDE DEF charges, g
  <2> QED
    BY <1>2, <1>3, AfterApplied
<1>6. second = two
  <2>1. [Applied(f + g, credit, charges, rule) EXCEPT !.amount = f] = one
    BY AppliedAmount
  <2>2. [Applied(f, rest, open, rule) EXCEPT !.amount = g] = two
    BY AppliedAmount
  <2> HIDE DEF one, two, open, rest, whole, charges
  <2> QED
    BY <1>2, <1>4, <1>5, <2>1, <2>2
<1>7. StillOpen(two, open) = StillOpen(both, charges)
      /\ Sum(open) = Greater(0, Sum(charges) - (credit + f))
  <2> HIDE DEF charges, g
  <2> QED
    BY <1>2, <1>3, OpenAfterTwo
<1>8. After(both) = Applied(f + g, Greater(0, credit + (f + g) - Sum(charges)),
                            StillOpen(both, charges), rule)
  <2>1. f + g \in Nat
    BY <1>2
  <2> HIDE DEF charges, g
  <2> QED
    BY <1>2, <1>3, <2>1, AfterApplied
<1>9. After(two) = Applied(g, Greater(0, rest + g - Sum(open)), StillOpen(two, open), rule)
  <2> HIDE DEF charges, g, open, rest
  <2> QED
    BY <1>2, <1>5, AfterApplied
<1>10. Greater(0, rest + g - Sum(open)) = Greater(0, credit + (f + g) - Sum(charges))
  <2> HIDE DEF charges, g, open
  <2> QED
    BY <1>2, <1>5, <1>7 DEF Greater
<1>11. \A x, y, z : Applied(x, y, z, rule).credit = y /\ Applied(x, y, z, rule).charges = z
  BY DEF Applied, PaymentOf
<1> HIDE DEF whole, second, one, two, both, open, rest, charges, g
<1>12. After(second).charges = After(whole).charges /\ After(second).credit = After(whole).credit
  BY <1>4, <1>6, <1>7, <1>8, <1>9, <1>10, <1>11
<1> QED
  BY <1>12 DEF whole, second

(* Paying in two instalments leaves the unit where one payment would have  *)
(* left it.                                                                *)
THEOREM InstalmentsAreSums == Spec => []InstalmentsAddUp
<1>1. TypeOK => InstalmentsAddUp
  BY InstalmentsOfInput DEF InstalmentsAddUp
<1> QED
  BY <1>1, TypeCorrect, PTL
=============================================================================
