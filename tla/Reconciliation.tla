--------------------------- MODULE Reconciliation ---------------------------
(***************************************************************************)
(* The reconciliation engine (modules/reconciliation/reconciliation.ts):   *)
(* a pure function from a payment, the open charges of a unit, the unit's  *)
(* credit balance and the estate's settings to the allocations, the credit *)
(* movement and the status of the payment.  Money is in kobo.              *)
(*                                                                         *)
(* A charge is a record [id, kind, outstanding, due]; a payment, and a     *)
(* prior payment, a record with fields amount, source and at.  A sender or *)
(* occupant name is compared in two ways by the code: as a normalised text *)
(* (equality of names here) and as the set of its words (Words).           *)
(***************************************************************************)
EXTENDS Integers, FiniteSets, Sequences, SequencesExt

CONSTANTS
  Name,   \* trimmed, lower-case sender and occupant names
  Words   \* the words nameTokens extracts from a name: a set, maybe empty

ASSUME WordsAssumption == /\ DOMAIN Words = Name
                         /\ \A n \in Name : IsFiniteSet(Words[n])

NotAnException == "NONE"

(* sendersDiffer: an unknown name never differs from another one.          *)
SendersDiffer(a, b) ==
  /\ Words[a] # {}
  /\ Words[b] # {}
  /\ Words[a] \cap Words[b] = {}

\* Mutant of IsDuplicate: the window looks back only.
IsDuplicateLookingBack(in) ==
  \E prior \in in.priors :
    /\ prior.amount = in.amount
    /\ prior.source = in.source
    /\ (in.at - prior.at) \in 0 .. in.window

(* isDuplicate: same amount and same sender, within the window either way. *)
IsDuplicate(in) ==
  \E prior \in in.priors :
    /\ prior.amount = in.amount
    /\ prior.source = in.source
    /\ (in.at - prior.at) \in -in.window .. in.window

Rank(charge) == IF charge.kind = "SERVICE_CHARGE" THEN 0 ELSE 1

Older(a, b) == \/ a.due < b.due
               \/ a.due = b.due /\ a.id < b.id

(* The comparison sortCharges hands to Array.sort under each rule.         *)
SortsBefore(rule, a, b) ==
  IF rule = "DUES_FIRST" /\ Rank(a) # Rank(b) THEN Rank(a) < Rank(b)
                                              ELSE Older(a, b)

(* sortCharges: the charges as a sequence in that order.  No two compare   *)
(* equal, because ids differ.                                              *)
SortCharges(charges, rule) ==
  CHOOSE s \in [1..Cardinality(charges) -> charges] :
    \A i, j \in DOMAIN s : i < j => SortsBefore(rule, s[i], s[j])

Lesser(m, n) == IF m <= n THEN m ELSE n

\* Mutant of AllocateTo: the payment is not told what credit covered.
AllocateWithoutNetting(purse, charge) ==
  LET fromCredit  == Lesser(purse.credit, charge.outstanding)
      fromPayment == Lesser(purse.payment, charge.outstanding)
  IN  [credit  |-> purse.credit - fromCredit,
       payment |-> purse.payment - fromPayment,
       allocs  |-> [id \in DOMAIN purse.allocs \cup {charge.id} |->
                      IF id = charge.id
                      THEN [amount |-> fromPayment, fromCredit |-> fromCredit]
                      ELSE purse.allocs[id]]]

(* One turn of the allocation loop.  purse holds the credit and the money  *)
(* of the payment that are left, and the allocations made so far.          *)
AllocateTo(purse, charge) ==
  LET fromCredit  == Lesser(purse.credit, charge.outstanding)
      fromPayment == Lesser(purse.payment, charge.outstanding - fromCredit)
      pushed      == fromCredit > 0 \/ fromPayment > 0
  IN  [credit  |-> purse.credit - fromCredit,
       payment |-> purse.payment - fromPayment,
       allocs  |-> IF pushed
                   THEN [id \in DOMAIN purse.allocs \cup {charge.id} |->
                           IF id = charge.id
                           THEN [amount |-> fromPayment, fromCredit |-> fromCredit]
                           ELSE purse.allocs[id]]
                   ELSE purse.allocs]

(* The loop.  Its break only skips turns that would push nothing.          *)
Allocate(in) ==
  FoldLeft(AllocateTo,
           [credit |-> in.credit, payment |-> in.amount, allocs |-> << >>],
           SortCharges({c \in in.charges : c.outstanding > 0}, in.rule))

SumOver(f, S) == MapThenSumSet(LAMBDA x : f[x], S)

TotalOutstanding(charges) ==
  SumOver([c \in charges |-> c.outstanding], {c \in charges : c.outstanding > 0})

AllocatedFromPayment(allocs) ==
  SumOver([id \in DOMAIN allocs |-> allocs[id].amount], DOMAIN allocs)

(* The result of a payment that is held without touching any money.        *)
Held(in, type) ==
  [status |-> "EXCEPTION", exceptionType |-> type, allocs |-> << >>,
   creditApplied |-> 0, creditAdded |-> 0, newCredit |-> in.credit,
   reminder |-> FALSE]

OutstandingAfter(in, purse) ==
  TotalOutstanding(in.charges) - (in.credit - purse.credit)
    - AllocatedFromPayment(purse.allocs)

\* Mutant of OverThreshold: off by one.
AtThreshold(in, surplus) == surplus >= in.threshold

OverThreshold(in, surplus) == surplus > in.threshold

(* Classification of an allocated payment (step 5 of the engine).          *)
Classify(in, purse) ==
  LET surplus   == purse.payment
      outcome   == [Held(in, NotAnException) EXCEPT
                      !.allocs = purse.allocs,
                      !.creditApplied = in.credit - purse.credit,
                      !.newCredit = purse.credit]
  IN  IF surplus > 0 /\ OverThreshold(in, surplus)
      THEN [outcome EXCEPT !.exceptionType = "OVERPAYMENT"]
      ELSE IF surplus > 0
      THEN [outcome EXCEPT !.status = "OVERPAYMENT",
                           !.creditAdded = surplus,
                           !.newCredit = purse.credit + surplus]
      ELSE IF OutstandingAfter(in, purse) > 0
      THEN [outcome EXCEPT !.status = "PARTIAL", !.reminder = TRUE]
      ELSE [outcome EXCEPT !.status = "MATCHED"]

(* reconcile.  The first rule that applies decides.                        *)
Reconcile(in) ==
  IF ~in.unitMatched
  THEN Held(in, "MISDIRECTED")
  ELSE IF ~in.forceApply /\ IsDuplicate(in)
  THEN Held(in, "DUPLICATE")
  ELSE IF ~in.forceApply /\ SendersDiffer(in.source, in.occupant)
  THEN Held(in, "THIRD_PARTY")
  ELSE Classify(in, Allocate(in))

IsException(result) == result.exceptionType # NotAnException
=============================================================================
