------------------------------- MODULE Ledger -------------------------------
(***************************************************************************)
(* The estate's books: charges, payments, allocations, credit and          *)
(* exceptions, and the handlers that write them - payment ingest           *)
(* (payments.service.ts), reversal, exception resolution                   *)
(* (exceptions.service.ts) and billing (billing.service.ts), over the      *)
(* shared helpers of apply.ts and the engine of module Reconciliation.     *)
(*                                                                         *)
(* A handler is one request being served.  Every await outside a           *)
(* transaction is a step of its own, so what a handler has read may be     *)
(* stale when it commits.  So may what is read in a prisma.$transaction,   *)
(* which runs under READ COMMITTED: it reads the unit row and the charges, *)
(* then writes and takes the sums of the unit, then commits.  A step sees  *)
(* what was committed before it and the transaction's own writes, and      *)
(* charge rows are locked from the write to the end.  (Within the write,   *)
(* RollupTx goes statement by statement.)  The transactions that write no  *)
(* unit row are one step.  The refund a resolution sends is a call to      *)
(* Nomba, between two steps.                                               *)
(***************************************************************************)
EXTENDS Reconciliation

CONSTANTS
  Unit,        \* the units of the estate
  NoUnit,      \* no unit
  Ref,         \* transaction references (Payment.nombaTxnRef)
  Handler,     \* requests in service at the same time
  Manager,     \* the handlers that may serve a resolution: one if the
               \* estate's managers never resolve at the same time
  Bill,        \* billing runs and levies: numbers, the order of charge ids
  BillKind,    \* SERVICE_CHARGE for a billing run, LEVY for a levy
  BillDue,     \* dueDate
  BillAmount,  \* originalAmountKobo of each charge of the bill
  Occupant,    \* the name on each unit
  Rule,        \* Estate.allocationRule
  Threshold,   \* Estate.autoCreditThresholdKobo
  Window,      \* Estate.duplicateWindowSecs
  Transfers,   \* what may stand behind a reference, see TransferType
  Offered,     \* pairs <<exception type, action>> a manager can submit
  Scopes,      \* the sets of units a bill may select
  Reversals,   \* TRUE if Nomba may claw back settled transfers
  MaxRefunded  \* bound: no refund is sent that would take refunded above it

TransferType ==
  [account : Unit \cup {NoUnit}, amount : Nat \ {0}, source : Name, at : Nat, manual : BOOLEAN]

ASSUME LedgerAssumption ==
  /\ IsFiniteSet(Unit) /\ NoUnit \notin Unit
  /\ Manager \subseteq Handler
  /\ IsFiniteSet(Ref)
  /\ Bill \subseteq Nat /\ IsFiniteSet(Bill)
  /\ \A b \in Bill : BillDue[b] \in Int /\ BillAmount[b] \in Nat \ {0}
  /\ Occupant \in [Unit -> Name]
  /\ Threshold \in Nat /\ Window \in Nat
  /\ Scopes \subseteq (SUBSET Unit) \ {{}}
  /\ Transfers \subseteq TransferType

VARIABLES
  wire,      \* the transfer behind each reference: the bank's knowledge
  db,        \* the tables, see EmptyDb
  refunded,  \* what Nomba has paid back to the sender of each payment
  handler,   \* the state of each handler
  tx,        \* the transaction each handler has open, see NoTx
  clawedBack,\* history: the payments whose reversal has been processed
  stranded   \* history: refunds sent by a request that then failed

vars == <<wire, db, refunded, handler, tx, clawedBack, stranded>>

Charge == Bill \X Unit

(* The tables.  outstanding has one entry per charge row; paid sums the    *)
(* allocation rows of a payment and a charge; added and used sum the       *)
(* positive and the negative credit entries of a unit; rollup holds        *)
(* balanceKobo and creditBalanceKobo of the unit row.  covered and         *)
(* credited are history: the credit spent on each charge and the credit    *)
(* each payment became, which the code's rows do not link.                 *)
PaymentStatus == {"NONE", "MATCHED", "PARTIAL", "OVERPAYMENT", "EXCEPTION", "MANUAL", "REVERSED"}
ExceptionType == {NotAnException, "OVERPAYMENT", "DUPLICATE", "MISDIRECTED", "THIRD_PARTY", "REVERSAL"}

EmptyDb ==
  [bills       |-> {},
   outstanding |-> << >>,
   added       |-> [u \in Unit |-> 0],
   used        |-> [u \in Unit |-> 0],
   rollup      |-> [u \in Unit |-> [balance |-> 0, credit |-> 0]],
   payment     |-> [r \in Ref |-> [status |-> "NONE", unit |-> NoUnit]],
   paid        |-> [r \in Ref |-> [c \in Charge |-> 0]],
   exception   |-> [r \in Ref |-> [type |-> NotAnException, open |-> FALSE]],
   covered     |-> [c \in Charge |-> 0],
   credited    |-> [r \in Ref |-> 0]]

Idle == [pc |-> "idle"]

(* at is its next statement: it reads the "charges", "write"s or "commit"s.*)
(* unit is whose rows it works on, credit and snapshot what it has read of *)
(* them; locks are the charge rows it has updated, and sums what its       *)
(* aggregates have returned.                                               *)
NoSums == [balance |-> 0, credit |-> 0]
NoTx   == [at |-> "none", unit |-> NoUnit, credit |-> 0, snapshot |-> << >>,
           locks |-> {}, sums |-> NoSums]

Init ==
  /\ wire \in [Ref -> Transfers]
  /\ db = EmptyDb
  /\ refunded = [r \in Ref |-> 0]
  /\ handler = [h \in Handler |-> Idle]
  /\ tx = [h \in Handler |-> NoTx]
  /\ clawedBack = {}
  /\ stranded = {}
-----------------------------------------------------------------------------
\* Reads and writes of the tables shared by the handlers (apply.ts).

ChargesOf(d, u) == {c \in DOMAIN d.outstanding : c[2] = u}

(* status is SETTLED exactly when nothing is outstanding (chargeStatusFor).*)
OpenCharges(d, u) ==
  [c \in {x \in ChargesOf(d, u) : d.outstanding[x] > 0} |-> d.outstanding[c]]

(* The charges as the engine takes them.                                   *)
EngineCharges(snapshot) ==
  {[id |-> c[1], kind |-> BillKind[c[1]], due |-> BillDue[c[1]],
    outstanding |-> snapshot[c]] : c \in DOMAIN snapshot}

HasPayment(d, r) == d.payment[r].status # "NONE"

\* Mutant of Sums: the aggregate takes the positive entries only.
SumsIgnoringSpending(d, u) ==
  [balance |-> SumOver(d.outstanding, ChargesOf(d, u)), credit |-> d.added[u]]

(* The aggregates of recomputeUnitRollups.                                 *)
Sums(d, u) ==
  [balance |-> SumOver(d.outstanding, ChargesOf(d, u)), credit |-> d.added[u] - d.used[u]]

(* recomputeUnitRollups: the unit row becomes what its aggregates returned.*)
RecomputeUnitRollups(d, u, sums) == [d EXCEPT !.rollup[u] = sums]

(* The credit entry that moves a surplus of payment r to unit u.           *)
AddCredit(d, r, u, amount) ==
  [d EXCEPT !.added[u] = @ + amount, !.credited[r] = @ + amount]

Positive(n) == IF n > 0 THEN n ELSE 0

\* Mutant of NewOutstanding: the reduction forgets the credit spent.
OutstandingAfterPaymentOnly(owed, alloc) == Positive(owed - alloc.amount)

NewOutstanding(owed, alloc) == Positive(owed - alloc.amount - alloc.fromCredit)

(* The charges that a result allocates to, whose rows are written.         *)
Touched(result, snapshot) == {c \in DOMAIN snapshot : c[1] \in DOMAIN result.allocs}

(* applyReconEffects: the new outstanding is computed from the snapshot    *)
(* the caller took, not from the row.                                      *)
ApplyReconEffects(d, r, u, result, snapshot, sums) ==
  LET Alloc(c)  == result.allocs[c[1]]
      touched   == Touched(result, snapshot)
      allocated == [d EXCEPT
        !.outstanding = [c \in DOMAIN @ |->
           IF c \in touched
           THEN NewOutstanding(snapshot[c], Alloc(c)) ELSE @[c]],
        !.paid[r] = [c \in Charge |-> IF c \in touched THEN @[c] + Positive(Alloc(c).amount)
                                                       ELSE @[c]],
        !.covered = [c \in Charge |-> IF c \in touched THEN @[c] + Alloc(c).fromCredit
                                                       ELSE @[c]],
        !.used[u] = @ + Positive(result.creditApplied)]
      written   == AddCredit(allocated, r, u, Positive(result.creditAdded))
  IN  IF touched # {} \/ result.creditApplied > 0 \/ result.creditAdded > 0
      THEN RecomputeUnitRollups(written, u, sums)
      ELSE written

(* The loop of consumeCreditForUnit: credit is spent on the open charges,  *)
(* oldest first whatever the estate's rule.                                *)
Spending(credit, open) ==
  Allocate([credit |-> Positive(credit), amount |-> 0,
            charges |-> EngineCharges(open), rule |-> "OLDEST_FIRST"])

(* consumeCreditForUnit, with what it has read of the unit.                *)
ConsumeCreditForUnit(d, u, credit, open, sums) ==
  LET spent   == Spending(credit, open)
      Take(c) == spent.allocs[c[1]].fromCredit
      touched == Touched(spent, open)
  IN  RecomputeUnitRollups(
        [d EXCEPT !.outstanding = [c \in DOMAIN @ |-> IF c \in touched THEN open[c] - Take(c)
                                                                       ELSE @[c]],
                  !.covered = [c \in Charge |-> IF c \in touched THEN @[c] + Take(c) ELSE @[c]],
                  !.used[u] = @ + Positive(credit) - spent.credit], u, sums)
-----------------------------------------------------------------------------
\* What the transactions of all handlers have in common.

SetTx(h, next) == tx' = [tx EXCEPT ![h] = next]
EndTx(h)       == SetTx(h, NoTx)

InTx == UNCHANGED <<wire, db, refunded, handler, clawedBack, stranded>>

(* The first statement reads the unit row, the second the open charges; a  *)
(* transaction that has inserted one sees it.                              *)
TxReadUnit(h, u) ==
  /\ tx[h] = NoTx
  /\ SetTx(h, [NoTx EXCEPT !.at = "charges", !.unit = u, !.credit = db.rollup[u].credit])
  /\ InTx

TxReadCharges(h, open) ==
  /\ tx[h].at = "charges"
  /\ SetTx(h, [tx[h] EXCEPT !.at = "write", !.snapshot = open])
  /\ InTx

(* It updates charge rows, once nobody else has them locked, and takes the *)
(* sums of what is committed with its own writes, which make db outcome.   *)
TxWrite(h, u, rows, outcome) ==
  /\ \A g \in Handler \ {h} : tx[g].locks \cap rows = {}
  /\ SetTx(h, [tx[h] EXCEPT !.at = "commit", !.unit = u, !.locks = rows,
                            !.sums = Sums(outcome, u)])
  /\ InTx
-----------------------------------------------------------------------------
\* Payment ingest (ingestInboundPayment, persistReconciled).

Gross(r) == wire[r].amount

Goes(h, next) == handler' = [handler EXCEPT ![h] = next]

Quiet == UNCHANGED <<wire, refunded, clawedBack, stranded>>

Serving(r) == \E h \in Handler : handler[h].pc # "idle" /\ "ref" \in DOMAIN handler[h]
                                                       /\ handler[h].ref = r

(* The reference is looked up; a known one returns at once.  The webhook   *)
(* and the backfill may deliver a bank reference any number of times, a    *)
(* manual entry gets a fresh reference.                                    *)
IngestDedupe(h, r) ==
  /\ handler[h] = Idle
  /\ ~HasPayment(db, r)
  /\ wire[r].manual => ~Serving(r)
  /\ Goes(h, [pc |-> "account", ref |-> r])
  /\ UNCHANGED <<db, tx>> /\ Quiet

(* No unit owns the account: payment and exception in one nested create.   *)
BookMisdirected(h) ==
  LET r == handler[h].ref
  IN  /\ handler[h].pc = "account"
      /\ wire[r].account = NoUnit
      /\ ~HasPayment(db, r)
      /\ db' = [db EXCEPT !.payment[r].status = "EXCEPTION",
                          !.exception[r] = [type |-> "MISDIRECTED", open |-> TRUE]]
      /\ Goes(h, Idle)
      /\ UNCHANGED tx /\ Quiet

(* The account is read with its unit row, and with it the credit balance.  *)
ReadUnit(h) ==
  LET r == handler[h].ref
      u == wire[r].account
  IN  /\ handler[h].pc = "account"
      /\ u # NoUnit
      /\ Goes(h, [pc |-> "charges", ref |-> r, credit |-> db.rollup[u].credit])
      /\ UNCHANGED <<db, tx>> /\ Quiet

ReadCharges(h) ==
  LET l == handler[h]
  IN  /\ l.pc = "charges"
      /\ Goes(h, [pc |-> "priors", ref |-> l.ref, credit |-> l.credit,
                  snapshot |-> OpenCharges(db, wire[l.ref].account)])
      /\ UNCHANGED <<db, tx>> /\ Quiet

(* Payments of the unit since the start of the window, whatever became of  *)
(* them.                                                                   *)
ReadPriors(h) ==
  LET l == handler[h]
      w == wire[l.ref]
  IN  /\ l.pc = "priors"
      /\ Goes(h, [pc |-> "persist", ref |-> l.ref, credit |-> l.credit,
                  snapshot |-> l.snapshot,
                  priors |-> {[amount |-> Gross(s), source |-> wire[s].source, at |-> wire[s].at] :
                              s \in {x \in Ref : /\ HasPayment(db, x)
                                                 /\ db.payment[x].unit = w.account
                                                 /\ wire[x].at >= w.at - Window}}])
      /\ UNCHANGED <<db, tx>> /\ Quiet

IngestResult(l) ==
  LET w == wire[l.ref]
  IN  Reconcile([amount |-> w.amount, at |-> w.at, source |-> w.source,
                 occupant |-> Occupant[w.account], charges |-> EngineCharges(l.snapshot),
                 credit |-> l.credit, rule |-> Rule, threshold |-> Threshold,
                 window |-> Window, priors |-> l.priors,
                 unitMatched |-> TRUE, forceApply |-> FALSE])

\* Mutant of MapStatus: MANUAL even if the payment is held.
ManualWins(r, result) == IF wire[r].manual THEN "MANUAL" ELSE result.status

(* mapStatus: a manual entry that is not an exception stays MANUAL.        *)
MapStatus(r, result) ==
  IF wire[r].manual /\ ~IsException(result) THEN "MANUAL" ELSE result.status

\* Mutant of CanInsert: no unique index on nombaTxnRef.
CanInsertAnything(h, r) == TRUE

Inserting(g, r) ==
  handler[g].pc = "persist" /\ tx[g].at = "commit" /\ handler[g].ref = r

(* The unique index on nombaTxnRef.  An insert waits for one of the same   *)
(* reference that is not committed yet; a second one fails, the handler    *)
(* ends as in Abort and Nomba redelivers.                                  *)
CanInsert(h, r) == ~HasPayment(db, r) /\ \A g \in Handler \ {h} : ~Inserting(g, r)

(* The tables after the transaction of persistReconciled.                  *)
Persisted(d, l, sums) ==
  LET r == l.ref
      u == wire[r].account
      result == IngestResult(l)
      booked == [d EXCEPT !.payment[r] = [status |-> MapStatus(r, result), unit |-> u]]
      effects == ApplyReconEffects(booked, r, u, result, l.snapshot, sums)
  IN  IF IsException(result)
      THEN [effects EXCEPT !.exception[r] = [type |-> result.exceptionType, open |-> TRUE]]
      ELSE effects

PersistWrite(h) ==
  LET l == handler[h]
  IN  /\ l.pc = "persist" /\ tx[h] = NoTx
      /\ CanInsert(h, l.ref)
      /\ TxWrite(h, wire[l.ref].account, Touched(IngestResult(l), l.snapshot),
                 Persisted(db, l, NoSums))

Persist(h) ==
  /\ handler[h].pc = "persist" /\ tx[h].at = "commit"
  /\ db' = Persisted(db, handler[h], tx[h].sums)
  /\ Goes(h, Idle) /\ EndTx(h)
  /\ Quiet
-----------------------------------------------------------------------------
\* Reversal (reverseInboundPayment).

(* The original is looked up outside the transaction; an unknown or an     *)
(* already reversed one returns at once.                                   *)
ReverseFind(h, r) ==
  /\ Reversals /\ ~wire[r].manual
  /\ handler[h] = Idle
  /\ HasPayment(db, r) /\ db.payment[r].status # "REVERSED"
  /\ Goes(h, [pc |-> "reverse", ref |-> r])
  /\ UNCHANGED <<db, tx>> /\ Quiet

\* Mutant of MarkReversed: only what has no exception yet is marked.
MarkReversedOnce(h) ==
  LET r == handler[h].ref
  IN  /\ handler[h].pc = "reverse"
      /\ db' = IF db.exception[r].type = NotAnException
               THEN [db EXCEPT !.payment[r].status = "REVERSED",
                               !.exception[r] = [type |-> "REVERSAL", open |-> TRUE]]
               ELSE db
      /\ clawedBack' = clawedBack \cup {r}
      /\ Goes(h, Idle)
      /\ UNCHANGED <<wire, refunded, tx, stranded>>

\* Mutant of MarkReversed: an existing exception is reopened.
MarkReversedReopening(h) ==
  LET r == handler[h].ref
  IN  /\ handler[h].pc = "reverse"
      /\ db' = [db EXCEPT !.payment[r].status = "REVERSED",
                          !.exception[r] = [type |-> "REVERSAL", open |-> TRUE]]
      /\ clawedBack' = clawedBack \cup {r}
      /\ Goes(h, Idle)
      /\ UNCHANGED <<wire, refunded, tx, stranded>>

(* Exception.paymentId is unique: one is raised only if the payment never  *)
(* had any.                                                                *)
MarkReversed(h) ==
  LET r == handler[h].ref
      marked == [db EXCEPT !.payment[r].status = "REVERSED"]
  IN  /\ handler[h].pc = "reverse"
      /\ db' = IF db.exception[r].type = NotAnException
               THEN [marked EXCEPT !.exception[r] = [type |-> "REVERSAL", open |-> TRUE]]
               ELSE marked
      /\ clawedBack' = clawedBack \cup {r}
      /\ Goes(h, Idle)
      /\ UNCHANGED <<wire, refunded, tx, stranded>>
-----------------------------------------------------------------------------
\* Exception resolution (ExceptionsService.resolve).

Surplus(d, r) == Gross(r) - SumOver(d.paid[r], Charge)

(* The exception is read with its payment; a resolved one is refused.      *)
ResolveRead(h, r, action, target) ==
  LET type == db.exception[r].type
  IN  /\ h \in Manager /\ handler[h] = Idle
      /\ db.exception[r].open
      /\ <<type, action>> \in Offered
      /\ type # "MISDIRECTED" => target = NoUnit
      /\ type = "MISDIRECTED" => target \in Unit
      /\ Goes(h, [pc |-> IF type = "OVERPAYMENT" /\ action = "refund" THEN "refund" ELSE "resolve",
                  ref |-> r, type |-> type, action |-> action,
                  unit |-> IF type = "MISDIRECTED" THEN target ELSE db.payment[r].unit])
      /\ UNCHANGED <<db, tx>> /\ Quiet

(* The transfer goes out before the transaction is opened.  It may come    *)
(* back, or be executed and time out, in which case the request fails.     *)
(* refunded is what Nomba has taken on: a transfer may still be PENDING    *)
(* when it comes back, a status that the handler does not look at.         *)
SendRefund(h) ==
  LET l == handler[h]
  IN  /\ l.pc = "refund"
      /\ Surplus(db, l.ref) > 0
      /\ refunded[l.ref] + Surplus(db, l.ref) <= MaxRefunded
      /\ refunded' = [refunded EXCEPT ![l.ref] = @ + Surplus(db, l.ref)]
      /\ \/ Goes(h, [l EXCEPT !.pc = "resolve"]) /\ UNCHANGED stranded
         \/ Goes(h, Idle) /\ stranded' = stranded \cup {l.ref}
      /\ UNCHANGED <<wire, db, tx, clawedBack>>

\* Mutant of AttributionThreshold: the estate's threshold, as in ingest.
EstateThreshold(r) == Threshold

(* Number.MAX_SAFE_INTEGER: any amount no surplus of r can exceed.         *)
AttributionThreshold(r) == Gross(r)

(* applyPaymentToUnit, with what the transaction t has read of the unit.   *)
Attribution(r, t) ==
  Reconcile([amount |-> Gross(r), at |-> wire[r].at, source |-> wire[r].source,
             occupant |-> Occupant[t.unit], charges |-> EngineCharges(t.snapshot),
             credit |-> t.credit, rule |-> Rule,
             threshold |-> AttributionThreshold(r), window |-> Window,
             priors |-> {}, unitMatched |-> TRUE, forceApply |-> TRUE])

ApplyPaymentToUnit(d, r, t) ==
  LET result == Attribution(r, t)
  IN  [ApplyReconEffects(d, r, t.unit, result, t.snapshot, t.sums)
         EXCEPT !.payment[r].status = result.status]

(* The resolutions that apply the payment, and those that make it credit.  *)
Applies(l) ==
  \/ l.type = "DUPLICATE" /\ l.action = "duplicate-keep"
  \/ l.type = "MISDIRECTED"
  \/ l.type = "THIRD_PARTY" /\ l.action # "refund"

MakesCredit(d, l) == l.type = "OVERPAYMENT" /\ l.action = "credit" /\ Surplus(d, l.ref) > 0

(* The tables after the switch on the exception's type.                    *)
Decide(d, l, t) ==
  LET r == l.ref
  IN  CASE l.type = "OVERPAYMENT" ->
             LET marked == [d EXCEPT !.payment[r].status = "OVERPAYMENT"]
             IN  IF MakesCredit(d, l)
                 THEN RecomputeUnitRollups(AddCredit(marked, r, l.unit, Surplus(d, r)),
                                           l.unit, t.sums)
                 ELSE marked
        [] l.type = "DUPLICATE" ->
             IF l.action = "duplicate-keep" THEN ApplyPaymentToUnit(d, r, t) ELSE d
        [] l.type = "MISDIRECTED" ->
             ApplyPaymentToUnit([d EXCEPT !.payment[r].unit = t.unit], r, t)
        [] l.type = "THIRD_PARTY" ->
             IF l.action = "refund" THEN [d EXCEPT !.payment[r].status = "REVERSED"]
                                    ELSE ApplyPaymentToUnit(d, r, t)
        [] l.type = "REVERSAL" -> d

ResolveReadUnit(h) ==
  /\ handler[h].pc = "resolve" /\ Applies(handler[h])
  /\ TxReadUnit(h, handler[h].unit)

ResolveReadCharges(h) ==
  /\ handler[h].pc = "resolve"
  /\ TxReadCharges(h, OpenCharges(db, tx[h].unit))

ResolveWrite(h) ==
  LET l == handler[h]
      t == tx[h]
  IN  /\ l.pc = "resolve"
      /\ \/ /\ t.at = "write"
            /\ TxWrite(h, t.unit, Touched(Attribution(l.ref, t), t.snapshot), Decide(db, l, t))
         \/ /\ t = NoTx /\ MakesCredit(db, l)
            /\ TxWrite(h, l.unit, {}, Decide(db, l, t))

(* The end of the transaction.  It does not look at the exception's status *)
(* again.                                                                  *)
Resolve(h) ==
  LET l == handler[h]
  IN  /\ l.pc = "resolve"
      /\ tx[h].at = IF Applies(l) \/ MakesCredit(db, l) THEN "commit" ELSE "none"
      /\ db' = [Decide(db, l, tx[h]) EXCEPT !.exception[l.ref].open = FALSE]
      /\ Goes(h, Idle) /\ EndTx(h)
      /\ Quiet
-----------------------------------------------------------------------------
\* Billing (createBillingRun, createLevy).

(* The run or fee row is created; the charges come one unit at a time.     *)
BillStart(h, b, scope) ==
  /\ handler[h] = Idle
  /\ b \notin db.bills
  /\ db' = [db EXCEPT !.bills = @ \cup {b}]
  /\ Goes(h, [pc |-> "bill", bill |-> b, todo |-> scope])
  /\ UNCHANGED tx /\ Quiet

Charged(d, c) ==
  [d EXCEPT !.outstanding = [x \in DOMAIN @ \cup {c} |-> IF x = c THEN BillAmount[c[1]] ELSE @[x]]]

(* The tables after the transaction for one unit: the charge, then the     *)
(* unit's credit.                                                          *)
UnitBilled(d, b, t) ==
  ConsumeCreditForUnit(Charged(d, <<b, t.unit>>), t.unit, t.credit, t.snapshot, t.sums)

BillReadUnit(h, u) ==
  /\ handler[h].pc = "bill" /\ u \in handler[h].todo
  /\ TxReadUnit(h, u)

BillReadCharges(h) ==
  LET u == tx[h].unit
  IN  /\ handler[h].pc = "bill"
      /\ TxReadCharges(h, OpenCharges(Charged(db, <<handler[h].bill, u>>), u))

BillWrite(h) ==
  LET t == tx[h]
  IN  /\ handler[h].pc = "bill" /\ t.at = "write"
      /\ TxWrite(h, t.unit, Touched(Spending(t.credit, t.snapshot), t.snapshot),
                 UnitBilled(db, handler[h].bill, t))

BillUnit(h) ==
  LET l == handler[h]
      u == tx[h].unit
  IN  /\ l.pc = "bill" /\ tx[h].at = "commit"
      /\ db' = UnitBilled(db, l.bill, tx[h])
      /\ Goes(h, IF l.todo = {u} THEN Idle ELSE [l EXCEPT !.todo = @ \ {u}])
      /\ EndTx(h)
      /\ Quiet
-----------------------------------------------------------------------------
(* A request ends in an exception, or its process dies: a transaction in   *)
(* progress rolls back, what was committed or sent before stays.           *)
Abort(h) ==
  /\ handler[h] # Idle
  /\ Goes(h, Idle) /\ EndTx(h)
  /\ stranded' = IF handler[h].pc = "resolve" /\ handler[h].type = "OVERPAYMENT"
                    /\ handler[h].action = "refund"
                 THEN stranded \cup {handler[h].ref} ELSE stranded
  /\ UNCHANGED <<wire, db, refunded, clawedBack>>

Ingest(h)  == \/ \E r \in Ref : IngestDedupe(h, r)
              \/ BookMisdirected(h) \/ ReadUnit(h) \/ ReadCharges(h) \/ ReadPriors(h)
              \/ PersistWrite(h) \/ Persist(h)
Reversal(h) == (\E r \in Ref : ReverseFind(h, r)) \/ MarkReversed(h)
Resolution(h) ==
  \/ \E r \in Ref, action \in {p[2] : p \in Offered}, target \in Unit \cup {NoUnit} :
       ResolveRead(h, r, action, target)
  \/ SendRefund(h)
  \/ ResolveReadUnit(h) \/ ResolveReadCharges(h) \/ ResolveWrite(h) \/ Resolve(h)
Billing(h) == \/ \E b \in Bill, scope \in Scopes : BillStart(h, b, scope)
              \/ \E u \in Unit : BillReadUnit(h, u)
              \/ BillReadCharges(h) \/ BillWrite(h) \/ BillUnit(h)

Next == \E h \in Handler : Ingest(h) \/ Reversal(h) \/ Resolution(h) \/ Billing(h) \/ Abort(h)

Spec == Init /\ [][Next]_vars
-----------------------------------------------------------------------------
Applied(r) == SumOver(db.paid[r], Charge) + db.credited[r]

(* The tables when these charges exist.                                    *)
Tables(charges) ==
  [bills : SUBSET Bill, outstanding : [charges -> Int],
   added : [Unit -> Nat], used : [Unit -> Int],
   rollup : [Unit -> [balance : Int, credit : Int]],
   payment : [Ref -> [status : PaymentStatus, unit : Unit \cup {NoUnit}]],
   paid : [Ref -> [Charge -> Nat]],
   exception : [Ref -> [type : ExceptionType, open : BOOLEAN]],
   covered : [Charge -> Int], credited : [Ref -> Nat]]

Prior == [amount : Nat, source : Name, at : Nat]

(* What a handler remembers between two of its steps, charges being those  *)
(* it has read.                                                            *)
HandlerState(charges) ==
  {Idle} \cup [pc : {"account", "reverse"}, ref : Ref]
    \cup [pc : {"charges"}, ref : Ref, credit : Int]
    \cup [pc : {"priors"}, ref : Ref, credit : Int, snapshot : [charges -> Int]]
    \cup [pc : {"persist"}, ref : Ref, credit : Int, snapshot : [charges -> Int],
          priors : SUBSET Prior]
    \cup [pc : {"refund", "resolve"}, ref : Ref, type : ExceptionType,
          action : {p[2] : p \in Offered}, unit : Unit \cup {NoUnit}]
    \cup [pc : {"bill"}, bill : Bill, todo : SUBSET Unit]

(* What a transaction has read, charges being those it has read.           *)
TxState(charges) ==
  [at : {"none", "charges", "write", "commit"}, unit : Unit \cup {NoUnit}, credit : Int,
   snapshot : [charges -> Int], locks : SUBSET Charge,
   sums : [balance : Int, credit : Int]]

TypeOK ==
  /\ wire \in [Ref -> Transfers]
  /\ DOMAIN db.outstanding \subseteq db.bills \X Unit
  /\ db \in Tables(DOMAIN db.outstanding)
  /\ refunded \in [Ref -> Nat]
  /\ handler = [h \in Handler |-> handler[h]]
  /\ \A h \in Handler : \E charges \in SUBSET Charge : handler[h] \in HandlerState(charges)
  /\ tx = [h \in Handler |-> tx[h]]
  /\ \A h \in Handler : \E charges \in SUBSET Charge : tx[h] \in TxState(charges)
  /\ clawedBack \subseteq Ref
  /\ stranded \subseteq Ref

(* Every charge is explained: what it was billed is what is outstanding    *)
(* plus what payments and credit have paid.  "Each payment reduces the     *)
(* outstanding amount; the charge settles when cumulative allocations      *)
(* reach the original amount" (PRD 6.3; apply.ts lines 43-90).             *)
ChargesBalance ==
  \A c \in DOMAIN db.outstanding :
    /\ db.outstanding[c] >= 0
    /\ db.outstanding[c] + db.covered[c]
         + SumOver([r \in Ref |-> db.paid[r][c]], Ref) = BillAmount[c[1]]

(* No unit spends credit it was not given, and each entry of credit has a  *)
(* payment behind it and each spending of it a charge (apply.ts 60-64,     *)
(* 92-97, exceptions.service.ts 65-67).                                    *)
CreditBalances ==
  \A u \in Unit :
    /\ db.used[u] <= db.added[u]
    /\ db.used[u] = SumOver(db.covered, {c \in Charge : c[2] = u})
    /\ db.added[u] = SumOver(db.credited, {r \in Ref : db.payment[r].unit = u})

(* The unit row shows the sums of the unit's charges and credit entries    *)
(* after every transaction, whichever handler it belongs to                *)
(* ("guaranteeing balanceKobo == sum of outstanding", apply.ts 15-16).     *)
(* The code keeps it for one handler at a time only: of two transactions   *)
(* that share no charge row, neither sees the other's, and the row shows   *)
(* what the last of them has summed.                                       *)
RollupsBalance == \A u \in Unit : db.rollup[u] = Sums(db, u)

(* Every payment is explained: once it is settled its gross amount went to *)
(* charges, to credit or back to the sender; while it is held, only an     *)
(* overpayment has touched the books, with part of it.  A refund that was  *)
(* sent by a request that then failed is the one way to lose track.        *)
PaymentsBalance ==
  \A r \in Ref \ stranded :
    LET status == db.payment[r].status
        ex     == db.exception[r]
    IN  /\ status \in {"MATCHED", "PARTIAL", "OVERPAYMENT", "MANUAL"} =>
             Applied(r) + refunded[r] = Gross(r)
        /\ status = "EXCEPTION" =>
             IF ex.type = "OVERPAYMENT"
             THEN Applied(r) < Gross(r) /\ Applied(r) + refunded[r] <= Gross(r)
             ELSE Applied(r) = 0 /\ refunded[r] = 0

(* A payment is never applied beyond its own amount, however often its     *)
(* webhook is delivered and whatever runs at the same time: "a re-delivered *)
(* webhook must never double-credit" (payments.service.ts 158).            *)
AppliedAtMostOnce == \A r \in Ref : Applied(r) <= Gross(r)

(* A payment that needs review can be found in the exceptions queue, until *)
(* a manager has confirmed it as a duplicate (the comment on               *)
(* applyPaymentToUnit: a surplus must not leave "the payment invisible").  *)
NothingIsInvisible ==
  \A r \in Ref :
    db.payment[r].status = "EXCEPTION" /\ ~db.exception[r].open =>
      db.exception[r].type = "DUPLICATE"

(* Two copies of a payment into one account are not both applied unless a  *)
(* manager has been asked: one of them carries a DUPLICATE exception ("hold *)
(* for confirmation rather than double-counting", PRD 6.4).                *)
Copies(r, s) ==
  /\ wire[r].account = wire[s].account /\ wire[r].account # NoUnit
  /\ wire[r].amount = wire[s].amount /\ wire[r].source = wire[s].source
  /\ (wire[r].at - wire[s].at) \in -Window .. Window

CopiesAreHeld ==
  \A r, s \in Ref :
    r # s /\ Copies(r, s) /\ HasPayment(db, r) /\ HasPayment(db, s) =>
      \E x \in {r, s} : db.exception[x].type = "DUPLICATE"

(* A payment whose reversal has been processed stays REVERSED, or carried  *)
(* an exception of its own which a manager has resolved since (payments.   *)
(* service.ts 264-294: "flag for manual review, do NOT auto-unwind").      *)
ClawbackIsKnown ==
  \A r \in clawedBack :
    db.payment[r].status # "REVERSED" =>
      ~db.exception[r].open /\ db.exception[r].type \notin {NotAnException, "REVERSAL"}

(* What is sent back to the sender of a payment and what stays in the      *)
(* books never exceed the payment: "merchantTxRef is the idempotency key   *)
(* and must be unique per payout" (nomba.service.ts 225) promises that a   *)
(* refund that is tried again is not paid again.                           *)
RefundedAtMostOnce == \A r \in Ref : Applied(r) + refunded[r] <= Gross(r)

(* Allocations and credit entries are only ever added, and the history of  *)
(* a payment does not run backwards: a booked payment stays booked and a   *)
(* resolved exception stays resolved (no handler deletes or reopens).      *)
BooksOnlyGrow ==
  [][\A r \in Ref :
       /\ \A c \in Charge : db'.paid[r][c] >= db.paid[r][c]
       /\ HasPayment(db, r) => HasPayment(db', r)
       /\ db.exception[r].type # NotAnException /\ ~db.exception[r].open =>
            ~db'.exception[r].open]_vars
=============================================================================
