----------------------------- MODULE EngineRuns -----------------------------
(***************************************************************************)
(* The loop of AllocationLoop and the fold of Reconciliation on the same   *)
(* input, and what PRD section 6 asks of both: a reference that never      *)
(* loops over charges.  A run of the loop that is done has drawn the       *)
(* input; the engine is evaluated on it, and on parts of it.               *)
(***************************************************************************)
EXTENDS AllocationLoop, Reconciliation

CONSTANT Listed   \* Listed[rule][k]: id, kind and due of the k-th charge under a rule

Rules == {"OLDEST_FIRST", "DUES_FIRST"}

ASSUME ListedAssumption ==
  \A rule \in Rules :
    /\ \A k \in Charge : Listed[rule][k] \in [id : Int, kind : {"SERVICE_CHARGE", "LEVY"}, due : Int]
    /\ \A j, k \in Charge : j < k => /\ Listed[rule][j].id # Listed[rule][k].id
                                     /\ SortsBefore(rule, Listed[rule][j], Listed[rule][k])

ChargeAt(rule, k) ==
  LET listed == Listed[rule][k]
  IN  [id |-> listed.id, kind |-> listed.kind, due |-> listed.due, outstanding |-> due[k]]

EngineInput(rule, open, threshold) ==
  [amount |-> amount, at |-> 0, source |-> "resident", occupant |-> "resident",
   charges |-> {ChargeAt(rule, k) : k \in open},
   credit |-> credit, rule |-> rule, threshold |-> threshold, window |-> 0,
   priors |-> {}, unitMatched |-> TRUE, forceApply |-> FALSE]

(* The loop with its break and the engine's fold give the same allocations *)
(* and the same status, so what is proved of the one holds of the other.   *)
AgreesWithEngine ==
  pc = "done" => \A rule \in Rules :
    LET result == Reconcile(EngineInput(rule, Charge, Threshold))
        id(k)  == Listed[rule][k].id
    IN  /\ result.status = Outcome
        /\ result.creditApplied = CreditApplied
        /\ DOMAIN result.allocs = {id(k) : k \in {j \in Charge : Paid(j) > 0}}
        /\ \A k \in Charge : Paid(k) > 0 =>
             result.allocs[id(k)] = [amount |-> fromPayment[k], fromCredit |-> fromCredit[k]]
-----------------------------------------------------------------------------
(* The inputs of a run that is done: some of its charges may be settled    *)
(* and not handed over.                                                    *)
Inputs == {EngineInput(rule, open, threshold) :
             rule \in Rules, open \in SUBSET Charge, threshold \in {0, Threshold}}

(* PRD 6.2, as an order: dues before levies under DUES_FIRST, then the     *)
(* earliest due date, then the id.                                         *)
Precedes(rule, a, b) ==
  \/ /\ rule = "DUES_FIRST"
     /\ a.kind = "SERVICE_CHARGE" /\ b.kind = "LEVY"
  \/ /\ rule = "OLDEST_FIRST" \/ a.kind = b.kind
     /\ a.due < b.due \/ (a.due = b.due /\ a.id < b.id)

Greater(m, n) == IF m >= n THEN m ELSE n

Sum(charges) == SumOver([c \in charges |-> c.outstanding], charges)

Overlap(a, b, c, d) == Greater(0, Lesser(b, d) - Greater(a, c))

AllocationOf(allocs, id) ==
  IF id \in DOMAIN allocs THEN allocs[id] ELSE [amount |-> 0, fromCredit |-> 0]

(* What lies over a charge that starts at start: credit first, then the    *)
(* payment.                                                                *)
LiesOver(start, owed, had, paid) ==
  [fromCredit |-> Overlap(start, start + owed, 0, had),
   amount     |-> Overlap(start, start + owed, had, had + paid)]

(* Lay the charges end to end in priority order, and the money end to end, *)
(* credit first: every charge is paid by exactly the stretch of credit and *)
(* of payment that lies over it (reconcile lines 183-218, PRD 6.2-6.3).    *)
Waterfall ==
  pc = "done" => \A in \in Inputs :
    LET result == Reconcile(in)
    IN  \A c \in in.charges :
          AllocationOf(result.allocs, c.id)
            = LiesOver(Sum({d \in in.charges : Precedes(in.rule, d, c)}), c.outstanding,
                       in.credit, in.amount)

(* Every kobo of the payment that no charge needs is credited up to the    *)
(* threshold and held above it, and the new credit balance is what is left *)
(* of the old one plus what was added (lines 220-253).                     *)
SurplusIsRouted ==
  pc = "done" => \A in \in Inputs :
    LET result  == Reconcile(in)
        owed    == Sum(in.charges)
        surplus == Lesser(in.amount, Greater(0, in.amount + in.credit - owed))
        added   == IF surplus <= in.threshold THEN surplus ELSE 0
    IN  /\ result.creditAdded = added
        /\ result.exceptionType = "OVERPAYMENT" <=> surplus > in.threshold
        /\ result.newCredit = Greater(0, in.credit - owed) + added

(* Two instalments leave the unit where one payment of their sum leaves it *)
(* ("several payments over time against the same charge", PRD 6.3), when   *)
(* neither is held.                                                        *)
LeftOf(c, allocs) ==
  [c EXCEPT !.outstanding = @ - AllocationOf(allocs, c.id).amount
                              - AllocationOf(allocs, c.id).fromCredit]

After(in) ==
  LET result == Reconcile(in)
      left   == {LeftOf(c, result.allocs) : c \in in.charges}
  IN  [in EXCEPT !.credit = result.newCredit, !.charges = {c \in left : c.outstanding > 0}]

InstalmentsAddUp ==
  pc = "done" => \A in \in Inputs : \A first \in 1..(in.amount - 1) :
    LET whole  == [in EXCEPT !.forceApply = TRUE, !.threshold = amount + 1]
        second == [After([whole EXCEPT !.amount = first]) EXCEPT !.amount = in.amount - first]
    IN  /\ After(second).charges = After(whole).charges
        /\ After(second).credit = After(whole).credit
=============================================================================
