------------------------------ MODULE ReadModels ------------------------------
(***************************************************************************)
(* What managers, residents and the public are shown of the books of       *)
(* module Ledger: the estate's state and a unit's statement                *)
(* (state.service.ts), the transparency figures (public.service.ts), the   *)
(* report (reports.service.ts) and the figures the pages compute for       *)
(* themselves.  gone are the soft-deleted units: every reader leaves them  *)
(* out but the report and the bills, which read their charges too.         *)
(***************************************************************************)
EXTENDS Ledger

AllocatedOf(r) == SumOver(db.paid[r], Charge)

PaidOf(c) == BillAmount[c[1]] - db.outstanding[c]

ChargesOfAll(units) == UNION {ChargesOf(db, u) : u \in units}

Billed(charges) == SumOver([c \in charges |-> BillAmount[c[1]]], charges)
Paid(charges)   == SumOver([c \in charges |-> PaidOf(c)], charges)
-----------------------------------------------------------------------------
\* The statement of a unit (buildLedger).

ChargeRow(c) ==
  [kind |-> "charge", of |-> c, amount |-> BillAmount[c[1]], affects |-> TRUE,
   settled |-> IF db.outstanding[c] <= 0 THEN "paid"
               ELSE IF db.outstanding[c] >= BillAmount[c[1]] THEN "unpaid" ELSE "partial"]

\* Mutant of TransferRow: the row shows, and counts, all that was received.
GrossRow(r) ==
  [kind |-> "payment", of |-> r, amount |-> -Gross(r), affects |-> AllocatedOf(r) > 0]

(* A transfer that paid nothing is said to be held as credit, and does not *)
(* move the balance.                                                       *)
TransferRow(r) ==
  IF AllocatedOf(r) > 0
  THEN [kind |-> "payment", of |-> r, amount |-> -AllocatedOf(r), affects |-> TRUE]
  ELSE [kind |-> "payment", of |-> r, amount |-> -Gross(r), affects |-> FALSE]

(* A held payment that has paid nothing is not shown to the resident.      *)
TransfersOn(u) ==
  {r \in Ref : /\ HasPayment(db, r) /\ db.payment[r].unit = u
               /\ AllocatedOf(r) > 0 \/ db.payment[r].status # "EXCEPTION"}

(* The credit entries of a unit, those of each sign in one row.            *)
CreditRows(u) ==
  { [kind |-> "debit",  of |-> u, amount |-> -db.used[u],  affects |-> TRUE],
    [kind |-> "credit", of |-> u, amount |-> -db.added[u], affects |-> FALSE] }

Statement(u) ==
  {ChargeRow(c) : c \in ChargesOf(db, u)}
    \cup {TransferRow(r) : r \in TransfersOn(u)} \cup CreditRows(u)

(* The running balance of the last row.                                    *)
Running(rows) ==
  SumOver([row \in rows |-> row.amount], {row \in rows : row.affects})

AmountsOf(rows, kind) ==
  SumOver([row \in rows |-> row.amount], {row \in rows : row.kind = kind})
-----------------------------------------------------------------------------
\* The estate's figures.

(* The unit tiles and the resident's page show the unit row.               *)
Tile(u) ==
  LET row == db.rollup[u]
  IN  IF row.balance > 0 THEN [says |-> "owing", amount |-> row.balance]
      ELSE IF row.credit > 0 THEN [says |-> "credit", amount |-> row.credit]
      ELSE [says |-> IF ChargesOf(db, u) = {} THEN "not billed" ELSE "settled", amount |-> 0]

(* The dashboard's figures.                                                *)
Kpis(gone) ==
  LET charges == ChargesOfAll(Unit \ gone)
  IN  [billed |-> Billed(charges), collected |-> Paid(charges),
       outstanding |-> Billed(charges) - Paid(charges)]

(* collected of the public page and of a resident's page.                  *)
PublicCollected(gone) == Paid(ChargesOfAll(Unit \ gone))

NoPage == [found |-> FALSE]

(* The reports page: what was collected, and its list of arrears.          *)
ReportPage(gone) ==
  [collected |-> Paid(ChargesOfAll(Unit \ gone)),
   arrears   |-> [u \in {x \in Unit \ gone : db.rollup[x].balance > 0} |-> db.rollup[u].balance]]

(* agingBucket, in days.                                                   *)
AgingBucket(due, now) ==
  CASE now - due <= 30 -> "0-30"
    [] now - due \in 31..60 -> "31-60"
    [] now - due \in 61..90 -> "61-90"
    [] now - due > 90 -> "90+"

\* Mutant of OwedCharges: charges that are not due yet are no arrears.
OverdueCharges(charges, now) == {c \in charges : db.outstanding[c] > 0 /\ BillDue[c[1]] < now}

OwedCharges(charges, now) == {c \in charges : db.outstanding[c] > 0}

(* getReports, of all the charges there are.                               *)
Reports(now) ==
  LET charges == DOMAIN db.outstanding
      owed    == OwedCharges(charges, now)
      sum     == SumOver(db.outstanding, charges)
  IN  [collected   |-> Billed(charges) - sum,
       outstanding |-> sum,
       buckets     |-> [b \in {"0-30", "31-60", "61-90", "90+"} |->
                          SumOver(db.outstanding,
                                  {c \in owed : AgingBucket(BillDue[c[1]], now) = b})],
       arrears     |-> [u \in {c[2] : c \in owed} |->
                          SumOver(db.outstanding, owed \cap ChargesOf(db, u))]]

(* A bill in the list of billing runs and levies.                          *)
BillView(b) ==
  LET charges == {c \in DOMAIN db.outstanding : c[1] = b}
  IN  [unitsBilled |-> Cardinality(charges), total |-> Billed(charges), collected |-> Paid(charges)]

(* The sheet of a bill lists the units shown that have a charge of it.     *)
(* Charges are found by the bill's label: the bills have different ones.   *)
PaidUnits(b, gone) ==
  {u \in Unit \ gone :
     <<b, u>> \in DOMAIN db.outstanding /\ PaidOf(<<b, u>>) >= BillAmount[b]}

(* The units still to pay, who are sent the alert; with what they have     *)
(* paid.                                                                   *)
UnpaidUnits(b, gone) ==
  {u \in Unit \ gone :
     <<b, u>> \in DOMAIN db.outstanding /\ PaidOf(<<b, u>>) < BillAmount[b]}

PartlyPaid(b, gone) == {u \in UnpaidUnits(b, gone) : PaidOf(<<b, u>>) > 0}

(* A row of the list of billing runs; progress in whole per cent, rounded  *)
(* down where the page has a fraction.  A run all of whose units failed    *)
(* has no charges.                                                         *)
RunRow(b, gone) ==
  LET bill == BillView(b)
  IN  [unitsBilled |-> bill.unitsBilled, unitsPaid |-> Cardinality(PaidUnits(b, gone)),
       progress    |-> IF bill.total > 0 THEN (100 * bill.collected) \div bill.total ELSE 0]

(* Unit.status, which every recompute of the unit row derives with it      *)
(* (deriveUnitStatus).  A charge is inserted in a transaction that         *)
(* recomputes, so the total is that of the last recompute.                 *)
UnitStatus(u) ==
  LET total == Billed(ChargesOf(db, u))
      row   == db.rollup[u]
  IN  CASE row.credit > 0 /\ (total <= 0 \/ row.balance <= 0)  -> "CREDIT"
        [] row.credit <= 0 /\ total <= 0                       -> "UNBILLED"
        [] row.credit <= 0 /\ total > 0 /\ row.balance <= 0    -> "PAID"
        [] total > 0 /\ row.balance > 0 /\ row.balance < total -> "PARTIAL"
        [] total > 0 /\ row.balance >= total                   -> "OVERDUE"

(* The units page under a filter of the status, and what a row says is     *)
(* owed or, with a plus, held: any credit hides the balance.               *)
UnitsPage(status, gone) ==
  [u \in {x \in Unit \ gone : UnitStatus(x) = status} |->
     IF db.rollup[u].credit > 0 THEN [says |-> "credit", amount |-> db.rollup[u].credit]
     ELSE [says |-> "balance", amount |-> db.rollup[u].balance]]

(* What a resident is shown behind a payment link, above the statement and *)
(* PublicCollected: nothing of a deleted unit.                             *)
ResidentPage(u, gone) ==
  IF u \in gone THEN NoPage
  ELSE [found |-> TRUE, owe |-> db.rollup[u].balance, credit |-> db.rollup[u].credit]
-----------------------------------------------------------------------------
\* Payments and exceptions.

(* A payment in the list of payments.                                      *)
PaymentView(r) ==
  [unit    |-> db.payment[r].unit, amount |-> Gross(r), status |-> db.payment[r].status,
   surplus |-> IF db.payment[r].status = "OVERPAYMENT" THEN Gross(r) - AllocatedOf(r) ELSE 0,
   open    |-> db.exception[r].open]

Queue == {r \in Ref : HasPayment(db, r) /\ PaymentView(r).open}

(* The payments page under a filter of the status; a row without a unit    *)
(* that is shown says "Unmatched" and points to the queue.                 *)
PaymentsPage(status, gone) ==
  [r \in {x \in Ref : HasPayment(db, x) /\ PaymentView(x).status = status} |->
     IF PaymentView(r).unit \in Unit \ gone THEN "unit" ELSE "unmatched"]

(* The amount in the confirmation of a refund.                             *)
RefundShown(r) ==
  IF PaymentView(r).surplus # 0 THEN PaymentView(r).surplus ELSE PaymentView(r).amount

(* The buttons of a card.                                                  *)
Buttons ==
  { <<"OVERPAYMENT", "credit">>, <<"OVERPAYMENT", "refund">>,
    <<"DUPLICATE", "duplicate-hold">>, <<"DUPLICATE", "duplicate-keep">>,
    <<"MISDIRECTED", "reassign">>, <<"THIRD_PARTY", "attribute">>,
    <<"THIRD_PARTY", "refund">>, <<"REVERSAL", "acknowledge">> }
-----------------------------------------------------------------------------
(* A resident can follow the statement down to what the page says is owed: *)
(* the running balance of its last row is the balance of the unit row,     *)
(* whatever exceptions, refunds, credit and reassignments lie behind the   *)
(* payments, and its credit rows leave the unit's credit ("running balance *)
(* == original charges - allocated payments (incl. credit applied)", PRD 8,*)
(* state.service.ts 224).                                                  *)
StatementExplainsBalance ==
  \A u \in Unit :
    LET rows == Statement(u)
    IN  /\ Running(rows) = db.rollup[u].balance
        /\ AmountsOf(rows, "debit") - AmountsOf(rows, "credit") = db.rollup[u].credit

(* Each figure next to the others that say the same, with gone the deleted *)
(* units and report what the reports page is sent.                         *)
Figures(gone, report) ==
  LET arrears == ReportPage(gone).arrears
      kpis    == Kpis(gone)
      owing   == {u \in Unit \ gone : Tile(u).says = "owing"}
  IN  /\ kpis.outstanding = SumOver(arrears, DOMAIN arrears)
      /\ kpis.outstanding = SumOver([u \in owing |-> Tile(u).amount], owing)
      /\ DOMAIN report.arrears \ gone = DOMAIN arrears
      /\ \A u \in DOMAIN arrears : arrears[u] = report.arrears[u]
      /\ report.collected = PublicCollected(gone) + Paid(ChargesOfAll(gone))

(* The sheet of a bill next to its progress bar and the residents' pages,  *)
(* when no unit is deleted.                                                *)
Sheet(b) ==
  LET bill   == BillView(b)
      paid   == PaidUnits(b, {})
      unpaid == UnpaidUnits(b, {})
  IN  /\ bill.unitsBilled = Cardinality(paid) + Cardinality(unpaid)
      /\ bill.collected = bill.total <=> unpaid = {}
      /\ bill.collected = 0 <=> paid \cup PartlyPaid(b, {}) = {}
      /\ \A u \in unpaid : ResidentPage(u, {}).owe > 0
      /\ BillKind[b] = "SERVICE_CHARGE" /\ bill.total > 0 =>
           (RunRow(b, {}).progress = 100 <=> RunRow(b, {}).unitsPaid = bill.unitsBilled)

(* The filters of the units page next to the statements, and those of the  *)
(* payments page next to the queue.  Reversals are not under a filter of   *)
(* the page.                                                               *)
Filters ==
  /\ \A u \in Unit :
       LET settled == {ChargeRow(c).settled : c \in ChargesOf(db, u)}
       IN  /\ u \in DOMAIN UnitsPage("OVERDUE", {}) <=> settled = {"unpaid"}
           /\ u \in DOMAIN UnitsPage("PARTIAL", {}) <=> settled \notin {{}, {"paid"}, {"unpaid"}}
           /\ u \in DOMAIN UnitsPage("PAID", {}) =>
                settled = {"paid"} /\ UnitsPage("PAID", {})[u] = [says |-> "balance", amount |-> 0]
           /\ u \in DOMAIN UnitsPage("CREDIT", {}) => Tile(u).says = "credit"
  /\ \A status \in PaymentStatus \ {"REVERSED"} :
       LET page == PaymentsPage(status, {})
       IN  \A r \in DOMAIN page : page[r] = "unmatched" => status = "EXCEPTION" /\ r \in Queue

(* The pages agree with one another, although each computes its figures    *)
(* from other rows: what the dashboard calls outstanding is what the       *)
(* reports page lists as arrears and what the tiles say is owed; the       *)
(* report's buckets hold all of its outstanding, at any time, and differ   *)
(* from the dashboard by the deleted units' charges only; what was         *)
(* collected is what the statements' transfers and spent credit have paid, *)
(* and what the bills say; a bill's sheet says what its progress bar says, *)
(* and alerts nobody whose own page says that nothing is owed; a unit is   *)
(* listed under the status that its statement's charges have, and a        *)
(* payment as unmatched only if it waits in the queue.                     *)
PagesAgree ==
  LET collected == Paid(DOMAIN db.outstanding)
      later     == Reports(34)
  IN  /\ \A report \in {Reports(4), later} :
           report.outstanding = SumOver(report.buckets, DOMAIN report.buckets)
      /\ \A gone \in SUBSET Unit : Figures(gone, later)
      /\ \A b \in Bill : Sheet(b)
      /\ Filters
      /\ collected = SumOver([r \in Ref |-> AllocatedOf(r)], Ref) + SumOver(db.used, Unit)
      /\ collected = SumOver([b \in Bill |-> BillView(b).collected], Bill)
=============================================================================
