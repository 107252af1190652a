# Gatehouse: specifications of the estate's books

Gatehouse collects service charges and levies for residential estates. Every
unit (house, flat) owns a virtual bank account at Nomba, the payment provider; a
transfer into it reaches the backend as a webhook, is reconciled against the
unit's open charges, and what cannot be settled by rule waits for a manager as an
exception. The estate pays its vendors through the same provider. The backend is
NestJS over PostgreSQL (Prisma), one Node process; the frontend is a React
dashboard.

This directory specifies, in TLA+, the parts of that program that move money or decide
where it goes, and those that show it: the browser's copy of the estate, the stream
that keeps it fresh, the statements and figures, the wizard and the forms. TLC checks
the specifications on small instances; TLAPS proves the theorems for every value of
the constants. Paths below are relative to `src/`, `modules/` stands for
`apps/backend/src/modules/` and `web/` for `apps/frontend/src/`.

## 1. The system

| Component | State | Operations | Talks to |
|---|---|---|---|
| Reconciliation engine, `modules/reconciliation/reconciliation.ts` | none (pure) | `reconcile`, `isDuplicate`, `sendersDiffer`, `sortCharges` | called by payments and exceptions |
| Inbound payments, `modules/payments/payments.service.ts` | `Payment`, `Allocation`, `Exception` rows | `ingestInboundPayment`, `persistReconciled`, `reverseInboundPayment`, `recordManualPayment` | engine, `apply.ts`, webhook, backfill |
| Backfill job, `payments.service.ts:59` | none; a cron timer | `backfillMissedPayments` every ten minutes | Nomba's list of transactions, ingest |
| Shared effects, `modules/payments/apply.ts` | `Charge`, `CreditEntry`, the rollup columns of `Unit` | `applyReconEffects`, `consumeCreditForUnit`, `recomputeUnitRollups` | called inside the transactions of payments, exceptions, billing |
| Exception queue, `modules/exceptions/exceptions.service.ts` | `Exception` rows | `resolve` | engine, `apply.ts`, Nomba (refunds) |
| Billing, `modules/billing/billing.service.ts` | `BillingRun`, `FeeItem`, `Charge` | `createBillingRun`, `createLevy`, `renameBillingRun` | `apply.ts` |
| Payouts and vendors, `modules/payouts/payouts.service.ts` | `Vendor`, `Payout` rows | `payVendor`, vendor CRUD | Nomba (transfers) |
| Webhook controller, `modules/webhook/webhook.controller.ts` | none | `handle`, `dispatch` | payments (in, reversal), payout rows |
| Nomba client, `modules/nomba/nomba.service.ts` | a cached token and the promise of one being fetched | token, virtual accounts, lookups, `transferToBank` | the provider |
| Onboarding, `modules/onboarding` and `web/routes/onboarding.tsx` | `Estate`, `Unit`, `Account`; the wizard's step | create an estate, create units with accounts, many at once, resume | Nomba, database, authentication |
| Units and groups, `modules/units`, `modules/groups` | `Unit`, `Group` | update, soft-delete, create and delete groups, assign | Nomba (expire an account), realtime events |
| Realtime events, `modules/realtime` and `web/lib/use-live-updates.ts` | subscribers, stream tickets; the effect's `closed`, `es` and timer | ticket, stream, broadcast, connect, reconnect | every service, the browser |
| Browser cache, `web/lib/store.ts`, `api.ts`, `query-client.ts` | one query with the estate's state, optimistic changes, the token and the estate's id in local storage | mutate, roll back, invalidate, refetch, log out | backend |
| Read models, `modules/state`, `modules/public`, `modules/reports` | none | the estate's state, a unit's statement, the public figures, reports and aging | database, pages |
| Pages, `web/routes`, `web/components/gatehouse` | what each form holds: open, editing, fields, busy; a lookup's answer; a total and its split | open, type, submit, close, leave | cache, backend |
| Authentication, `modules/auth` | `Manager` | register, login, me | database, onboarding |

The rest (database connection, notifier, health, filters, DTO validation, the
landing page, vendored components, the frontend's copy of the engine, the repair
script) is listed in `PROJECT.json` with the reason it is left out.

### What is hard about it

*Interleaving.* One Node process serves many requests; each `await` lets another
one run. `ingestInboundPayment` reads the unit, its charges and its prior payments
in three queries **outside** the transaction that writes the result
(`payments.service.ts:162-228`), and `ExceptionsService.resolve` checks the
exception's status outside the transaction that closes it. Transactions commit as a
whole, but under READ COMMITTED each of their statements sees what was committed
before it: what one reads and sums may be stale when it writes.

*Delivery.* Webhooks are lost, repeated, late and out of order. The unique index on
`Payment.nombaTxnRef` and a backfill job stand between that and the books.

*Two parties.* A refund or a vendor payment is a call to the provider and a write
to the database. Either can fail without the other, and the answer to the call can
be lost after the money has moved.

*Copies.* The browser holds a copy of the estate that others change. It is read with
nine queries in no transaction, changed ahead of the server's answer, rolled back to
snapshots, and refreshed by events that are lost while the stream is down. The pages
hold copies of copies: fields filled from a vendor, a confirmed name, an amount
computed from a total, and answers that come when the form is about something else.

*Arithmetic.* A payment is spread over charges in a priority order, after the
unit's own credit, and what the resident is told (`MATCHED`, `PARTIAL`,
`OVERPAYMENT`) is derived from totals rather than from the charges.

### What makes each part correct

* Engine: charges are paid in order and never above what they owe, credit goes
  first, the surplus goes where the threshold says, the status tells the truth,
  instalments add up to what one payment would do, and copies are held whichever
  comes first.
* Books: each charge, each credit entry and each payment is explained to the kobo;
  the unit row is the sum of the unit's rows; nothing is applied or refunded
  beyond its amount; a held payment stays visible; a clawback is not lost.
* Ingest: each transfer is booked once, and is booked in the end.
* Transactions of `apply.ts`: they leave the unit row right (with several at once they
  do not, section 6; `RollupTx` says what a row can miss) and never all wait for each
  other.
* Payouts: no money leaves without a row; a row claims only what happened. That it
  says in the end what happened is not so (section 6).
* Access token: no request leaves with an expired token, fetches do not multiply
  with the callers, and a failed or replaced fetch leaves nobody waiting.
* Browser: when all is quiet the screen shows the books, it never stays behind,
  nobody sees an earlier session's estate, and there is one stream.
* Read models: a resident can follow the statement to the balance, and figures that
  pages compute from different rows agree.
* Wizard: whoever finishes it gets in, and stays in.
* Forms: nothing typed for one thing is sent for another, a form is busy exactly
  while it waits, every picked unit gets its share. A confirmed name should be that
  of the account, and a name field of the opening at hand; neither is (section 6).
* Units and accounts: a unit that is shown can be paid, the answer to the manager is
  true, and a deleted unit's account is closed in the end.

The hazards in `PROJECT.json` list, line by line, where these can go wrong.

## 2. Modules

| Module | Models | How it corresponds to the code |
|---|---|---|
| `Reconciliation` | `reconciliation.ts` as operators | `Reconcile(in)` is `reconcile(input)`; the loop is a fold over the sorted charges (`Allocate`), one turn is `AllocateTo`. |
| `AllocationLoop` | the same loop as a state machine | `remCredit` and `remPayment` are the loop's locals, `prefix` the running total of the reduction before it, `fromCredit`, `fromPayment` and `allocated` what the allocations say; `AllocateTurn` is one turn, with the `break`. It is written without recursion so that it can be proved about; `AgreesWithEngine` ties it to `Reconciliation`. |
| `Ledger` | payments, reversal, resolution, billing over `apply.ts` and the engine | `db` holds the tables, `handler[h]` one request: its `pc` is the await it stands at, its other fields the values it has read. Each step between two awaits is an action. A `$transaction` that writes a unit row is several, and `tx[h]` is the one that handler `h` has open: it reads the unit row and the charges (`ResolveReadUnit`, `BillReadCharges`, ...), updates rows and takes the sums of the unit (`PersistWrite`, `ResolveWrite`, `BillWrite`), and commits (`Persist`, `Resolve`, `BillUnit`). The refund's call to Nomba is its own step, with a late answer as one of its outcomes; `Abort` is a failure or a dying process at any await. |
| `Ingest` | webhook deliveries, `ingestInboundPayment`'s lookup/insert, the backfill job | `task[p]` is what a webhook request or the job is doing; `todo` the rest of the job's list; `rows[r]` counts payment rows with a reference. Deliveries are repeated or never made, requests and fetches fail, the process crashes and is restarted, the clock is counted in cron periods. |
| `Booking` | the promise of ingest | A transfer is booked once, after it arrived, and in the end. `Ingest` implements it, with `booked` mapped to the number of payment rows of a transfer. |
| `RollupTx` | the transactions of `apply.ts`, statement by statement | Each `update` of a charge, both aggregates of `recomputeUnitRollups` and the update of the unit row are actions of their own: row locks, aggregates that see what is committed plus the transaction's own writes, a last write of values computed earlier. `Path[t]` may be empty: a bill that finds no credit only inserts. |
| `Payouts` | `payVendor`, `transferToBank`, the payout branch of `dispatch` | `pc`/`result` are the request, `status` the row, `bank` the transfer at Nomba. Webhooks are delivered at any time, any number of times, in any order or never. |
| `NombaToken` | the access token in `nomba.service.ts` | `cache` is `tokenCache`, with the age of the token beside that of `fetchedAt`; `shared` is `fetchingToken`, `flying` the fetches under way, `caller` where each caller is. |
| `VendorPayments` | `transferToBank` over `getAccessToken` | `Payouts` and `NombaToken` composed: each payout is a caller of the token (`AskToken`), and `Posts` awaits what `getAccessToken` returns or throws. The other callers create accounts, look them up or list banks. |
| `Accounts` | `createUnits` and `softDelete` | `creation[u]` is the promise of each unit, `deletion[d]` a soft delete, `unit` and `account` the rows, `nomba` the accounts at the provider. |
| `ReadModels` | `state.service.ts`, `public.service.ts`, `reports.service.ts` and the figures of the pages | Operators on `db` of `Ledger`, which it extends: `Statement(u)` is `buildLedger`; `Kpis`, `ReportPage`, `Tile`, `RunRow`, `PaidUnits`, `UnitsPage`, `PaymentsPage`, `ResidentPage` are pages, `UnitStatus` is `deriveUnitStatus`, `Reports` is `getReports`. `gone` are the soft-deleted units. |
| `LiveUpdates` | `use-live-updates.ts` and the server's stream | `conn[m]` is where `connect()` stands in the m-th mount of the layout, `closed` the variable of its effect, `told[m]` a message on the wire. |
| `Dashboard` | `store.ts`, `api.ts`, `query-client.ts`, the groups service, over `LiveUpdates` | `db` is the estate, `cache` the query's data with the session it came in, `fetch` the query in flight with what the server has read so far, `call[c]` a call of the store or a request of somebody else, with both of its ends. |
| `Screen` | the promise of the dashboard | What is shown may be anything for a while, but not for ever anything but the books. `Dashboard` implements it. |
| `Onboarding` | `auth.service.ts`, the wizard, its gates, `createEstate`, over `Accounts` | `browser` is local storage, shared by the tabs; `tab[t]` the page of each and the request it waits for; `call[c]` a `createEstate` request, which checks the name and inserts in two steps. |
| `Forms` | every form of the frontend | `form` is one of twenty kinds (`Kind`): where it lives, whether it is filled or emptied, whether its button looks at `busy`, whether it awaits, what a success does. `opening` and `mount` say what it is about, `draft` the opening its fields are from, `request` its submissions. |
| `Pages` | `vendor-dialog.tsx`; the billing dialog with `unit-picker.tsx`; over `Forms` | `entered`, `confirmed`, `verifying` and `lookup`; `named` is the opening that the name field was filled, typed or looked up in; `units`, `selected`, `total` and `amount`. |
| `EngineRuns` | the loop beside the function | a run of `AllocationLoop` that is done has drawn an input; `EngineInput` is that input for `Reconcile`, `Listed` the charges' ids, kinds and due dates in the order of each rule. It holds the reference definitions (PRD section 6) that both are compared with. |
| `EngineProofs` | lemmas and theorems about `Reconciliation` | sums, sorting, the fold and its result; see section 5, as for the next rows. |
| `AllocationLoopProofs` | the theorems about `AllocationLoop` and `EngineRuns` | |
| `LedgerProofs` | the theorems about `Ledger` and `ReadModels` | |
| `IngestProofs`, `RollupTxProofs`, `AccountsProofs`, `DashboardProofs`, `PagesProofs` | the theorems about the others | `AccountsProofs` also covers `Onboarding`, and `PagesProofs` covers `Forms`, `Pages`, `Payouts`, `NombaToken` and `VendorPayments`. |
| `MC*` | values for the constants | one per run of its own, `MCLedger` for the five of `Ledger`. |

`EngineRuns` composes `AllocationLoop` and `Reconciliation`; `Ledger` composes
`Reconciliation` (EXTENDS) and interleaves the transactions' reads, writes and
commits; `RollupTx` goes through one kind of transaction statement by statement, with
sums abstracted to the sets of transactions they count; `Ingest` abstracts `Ledger` to
the number of rows per transfer and adds the environment. `ReadModels` reads `Ledger`;
`VendorPayments` composes `Payouts` with `NombaToken`, `Onboarding` composes the
wizard with `Accounts`, `Dashboard` the cache with `LiveUpdates`, `Pages` two forms
with the life of `Forms`.

### Abstractions

* Names of senders are members of a small set with their words given by `Words`;
  `sendersDiffer` compares words, and a name without letters has none. Notes,
  suggestions, labels and formatting are left out. Amounts are whole kobo in the
  code and naturals here.
* In a transaction of `Ledger` the updates of the charges and the aggregates that
  follow are one step (`RollupTx` splits them), and it takes effect in `db` at the
  commit: nobody else sees it before. Locks on charges last from the write to the
  commit. Locks on payments, exceptions and the unit row are left out: the first two
  are written blindly and last, so waiting only orders commits, and the unit row gets
  values that were computed before its lock. An insert of a payment waits for one of
  the same reference (`Inserting`). `MarkReversed` and `BookMisdirected` write no
  unit row and are one step each.
* `SendRefund` does not look at the status of Nomba's answer, as the code does not:
  a transfer that is answered with `PENDING` counts as sent.
* `Ledger` keeps sums instead of rows where rows are only ever summed (`paid`, `added`,
  `used`). `covered` and `credited` are history: which charge an entry of credit
  paid, and which payment a credit came from; the database does not link them.
* A due date is a number, charge ids are ordered by the number of their bill, and
  a payment's place in time is the `at` of its transfer.
* `Number.MAX_SAFE_INTEGER` as threshold of a manual attribution is modelled as the
  gross amount, which no surplus exceeds.
* `Payouts` gives a payout and its request one name, since every request draws a
  `merchantTxRef` of its own. Vendors' rows are only read and are left out.
* `recordManualPayment` enters `ingestInboundPayment` with a reference of its own: in
  `Ledger` a transfer with `manual` set, which is delivered once at a time and is
  never reversed by the bank.
* A reversal that finds no payment changes nothing (`payments.service.ts:282`) and
  is left out as a stutter: if the payment's webhook then comes, it is booked as if
  nothing had been clawed back. `ClawbackIsKnown` speaks of processed reversals.
* Signatures of webhooks are assumed to have been verified.
* `NombaToken` counts time in units longer than the 15 seconds of a fetch's timeout,
  so a fetch sees at most one unit end. `MaxOverlaps` bounds how many refreshes in a
  row meet a fetch under way; the cron job fires ten minutes apart or more.
* `Accounts` reads unit and account in one step (`softDelete` never decides on the
  account's row) and gives every attempt at a unit a name of its own, since every
  attempt draws an `accountRef`. A transaction whose commit is not heard of counts
  as one that did not fail. A 200 or a 404 for an expiry means that the account is
  closed.
* `ReadModels` gives all charges of a bill its amount, keeps the entries of credit
  of a unit in one row per sign, and lets bills have labels of their own (pages find
  a bill's charges by its label). Spending, which comes from payouts, is left out.
* Of the estate's state `Dashboard` keeps what the optimistic changes touch: open
  exceptions, groups, and the group of each unit. The other calls of the store wait
  for the server and refresh, which `createGroup` stands for. Tickets are not
  numbered, since each is used by the mount that fetched it; a heartbeat comes
  after a query in flight has ended, being 25 seconds away.
* A name of an estate is taken by any manager's estate in the code; `Onboarding` has
  one manager. An account's password and a token's expiry are left out: a request
  may fail at any time anyway.
* In `Forms` an opening stands for what the form is about, and a field for all of
  them. `Pages` rounds a share as `Math.round` does for positive numbers.

## 3. Runs

| Run | Instance and bounds | What it shows |
|---|---|---|
| `engine` | three charges of both kinds that tie on a due date, any of them settled; amounts of 0-4 kobo (owed and paid: 1-4); both rules; thresholds 0, 1 and 2 | turn by turn the loop agrees with the function, and the function is the waterfall that the PRD (section 6) describes |
| `ledger_serial` | one request at a time, failing at any await; two units, two references (symmetric), two bills, eight dashboard actions; any units deleted, reports at two times | charges, credit and payments balance to the kobo, copies are held, statements explain balances, pages agree |
| `ledger_concurrent` | two requests interleaved at every await and inside their transactions, of which one may be a manager's; one unit, two references, one bill, reversals | nothing is applied beyond its amount; nothing drops out of the queue; clawbacks stay known; rows only grow |
| `ledger_stale_rollup` | violation | a payment and a bill that meet leave the unit row wrong, below |
| `ledger_lost_update` | violation | two requests of one unit lose a reduction, below |
| `ledger_refund_twice` | violation | a refund that timed out is paid again |
| `ingest` | two transfers, two webhook workers and the job, two deliveries each, one fault, look-back of two periods | each transfer is booked once and in the end; `Ingest` implements `Booking` |
| `rollup_tx` | four transactions of one unit - two payments, a bill that only inserts, one that spends credit - and one of another, four charges, rollbacks | a unit row misses only transactions that share no charge row with its last writer; no deadlock under one row order |
| `vendor_payments` | one payout and one other caller, three fetches, threshold 2 and lifetime 3, two overlaps, webhooks at any time | money is recorded and rows have a reason while transfers wait for the token; no expired token, no stampede, every caller is answered |
| `onboarding` | one tab, reloaded and logged out at any time, two `createEstate` requests for one name, one request for two units, two deletions, perhaps of the same unit, dying and refused anywhere | whoever finishes gets in and stays in; a shown unit can be paid, reports are true, accounts of deleted units are closed in the end |
| `dashboard` | one exception, unit and group; one call of the page and one request of others, each of two operations; two mounts, two sessions, one fault | the screen is right when all is quiet and never stays wrong; own data only; one stream; `Dashboard` implements `Screen` |
| `pages` | all twenty forms, two mounts, three openings, three submissions; two accounts and three lookups; three units in two groups, totals of 2 and 5 | nothing typed leaks, busy is truthful, shares are split |

There is one run per question. Wherever a claim may need three requests or more to
break it, it is proved (section 5) and not just checked: all nine passing runs are
runs of modules whose invariants are theorems. In `Ledger` two units, two references
and two handlers also are enough for the races of its code to occur, because every
operation touches one unit, one payment and one exception, and every stale read is
between one reader and one writer. The bills have amounts 1 and 2, the payments 1 to
4, so that exact, partial and surplus payments and a surplus on either side of the
threshold all happen. `MaxRefunded` caps what refunds may add up to; it is above twice
the largest payment, so a second refund is possible. `MaxDeliveries` = 2 is a
redelivery; `MaxFaults` = 1 is below `LookBack` = 2, as in the code a single bad pass
is below the six passes that an hour holds.

In `dashboard` one call of the page and one outside request of two operations each are
enough for every pair of the store's changes with another's; the second mount and
session are what comes after leaving and logging out. In `onboarding` the two requests
for one name meet between check and insert, and one lost answer leads to a second
estate; the two deletions meet between any two of their steps when they are of one
unit; tabs share only local storage, which a reload reads again, and the theorems
cover any number of them. In `vendor_payments` one payout is enough, since payouts
share nothing but the token; the other caller is what the token is shared with. In
`pages` an answer may belong to the opening before the last, or to a mount that is
gone; totals of 2 and 5 over 1-3 units round down, up and at a half.

Deadlock is reported in `vendor_payments` only, whose time always goes on; in the
other runs a request, a transfer or an engine call that is done stays done.
`NoDeadlock` says what deadlock would mean in `RollupTx`.

### Fairness

`Ingest` (FairSpec): weak fairness on `Tick`, since time passes; on `JobStep`, since
Node runs the cron callback and its continuations while the process is up; on
`Restart`, since the platform restarts the service. Nothing is assumed of webhooks:
they may never come. An outage of whole cron periods is excluded in the runs
(`LongOutage = FALSE`), and so are a reference that differs between webhook and
API (`SameReference`) and two equal transfers close to each other (`Near`); section 6
says what happens otherwise. The safety theorems need only the second of these.

`VendorPayments` (PayingSpec): that of `NombaToken`, weak fairness on the end of each
fetch, which axios' timeout of 15 seconds guarantees. Of payouts, of requests and of
webhooks nothing is assumed: `payments.service.ts:49` says that webhooks can be dropped,
and payouts have no backfill.

`Onboarding` (OnboardingSpec): weak fairness on the steps of each deletion under way;
it may still die or be refused, which `spoilt` records. Of the manager nothing is
assumed: she may stop on any page.

`Dashboard` (Spec): weak fairness on each request and its answer, since the server
answers or the browser gives up; on the query, which ends or is started again; on
the stream of each mount: its ticket is answered, its timers fire (3 and 5 seconds),
the wire delivers, and the server's heartbeat comes every 25 seconds. Streams may
break, queries and answers fail, `MaxFaults` times. Managers and others owe nothing.

The other specifications state safety only.

### Assumptions that carry weight

* `ledger_serial`: one request at a time. With two, `ChargesBalance`,
  `CreditBalances` and `CopiesAreHeld` fail (`ledger_lost_update` shows the first).
* `ledger_serial` uses that references are interchangeable (`AnyReference`).
* `ledger_concurrent`: one manager resolves at a time (`Manager`, one handler).
* `Offered`: the actions the dashboard shows for each type of exception, not
  everything that the DTO accepts.
* `QuietScreenIsCurrent` excludes `suspect`: since the last finished fetch a rollback
  restored a snapshot, a query failed, or the very first one was joined. The heartbeat
  mends these, which `ImplementsScreen` shows. `OwnDataOnly` excludes `revived`,
  `ShareIsSplit` excludes `relisted`, and `FinishIsAdmitted` two
  estates: section 6 says what happens then.
* Broadcasts reach one process's subscribers; there is one Node process.
* `RollupTx`: `NeverADeadlock` assumes `OneOrder`, that all transactions take their
  charges in one order. It holds of `OLDEST_FIRST`: `sortCharges` and
  `consumeCreditForUnit` both go by due date and id, and every transaction comes to
  the unit row last. Under `DUES_FIRST` a payment takes service charges first where
  a bill's use of credit goes by date, and the two can deadlock; PostgreSQL then
  aborts one, which is `Rollback`. `OnlyStrangersAreEverMissed` assumes nothing.
* `LedgerProofs`: `OneManager` and `OneHandler` are what the two runs of `Ledger`
  assume, `OfferedByCards` (`Offered` \subseteq `Buttons`) is what the cards show.
* `EngineRuns`: `ListedAssumption`, the charges have ids of their own and their numbers
  are in the order of either rule.
* Constants of `Ledger`: units, references and bills are finite, due dates are
  integers, amounts of bills and transfers are positive. `Onboarding`: there is a
  name to give to an estate.
* `Ingest` theorems: `SameReference`.
* `NombaToken`: the threshold is positive and below the lifetime of a token, in units
  longer than a fetch's timeout. `VendorPayments`: payouts are among the callers.

## 4. Properties

*Engine.* `Waterfall` lays the charges and the money end to end and requires every
charge to be paid by exactly what lies over it. `SurplusIsRouted` and
`InstalmentsAddUp` (two payments leave the unit where one of their sum leaves it) are
independent of how the loop is written. `OutcomeIsTruthful`: what is derived from
totals agrees with each charge. `AgreesWithEngine`: the two translations of the loop
agree.

*Ledger.* `ChargesBalance`, `CreditBalances`, `PaymentsBalance`: three sides of double
entry. `RollupsBalance`: the cached columns, which two transactions that meet break
(`ledger_stale_rollup`). `AppliedAtMostOnce`,
`RefundedAtMostOnce`: no double credit, no double refund. `CopiesAreHeld`.
`NothingIsInvisible`: a payment in `EXCEPTION` has an open exception, unless a
manager confirmed it as a duplicate. `ClawbackIsKnown`: a payment whose reversal
was processed reads `REVERSED` until a manager resolves an exception it carried.
`BooksOnlyGrow`: an action property, nothing is deallocated, unbooked or reopened.

*Ingest.* `BookedAtMostOnce`, and `ImplementsBooking`, the refinement, which adds that
a transfer is booked only after it arrived, and in the end.

*RollupTx.* `OnlyStrangersAreMissed`: a unit row counts nothing that is not committed,
and the transactions it misses share no charge row with the one that wrote it last.
This is what the row locks of the code do give; `recomputeUnitRollups` promises more.
`NoDeadlock`: transactions in progress never all wait.

*Payouts.* `MoneyIsRecorded`: Nomba holds no transfer without a row. `StatusHasReason`: a
row never says what nobody has reported.

*NombaToken.* `TokenIsValid`: although `fetchedAt` is the time of the answer and an
old fetch may fill the cache after a new one. `StampedeIsBounded`: one fetch, plus
one for each refresh that met a fetch under way. `CallersAreAnswered` (liveness): the
waiters of a promise that another has replaced, and those of a failed one, go on.

*ReadModels.* `StatementExplainsBalance`: the running balance of a statement's last row
is the unit's balance, its credit rows leave the unit's credit. `PagesAgree`: the
dashboard, the report, the reports page, the tiles, the bills' sheets and the
residents' pages, and the lists of runs, units and payments under their filters,
computed from unit rows, charges, allocations and bills, with and without deleted
units.

*Dashboard.* `QuietScreenIsCurrent`, `OwnDataOnly`, `OneStream`, and the refinement
`ImplementsScreen` with its liveness.

*Onboarding.* `FinishIsAdmitted`, and the action property `AdmittedStaysAdmitted`.

*Pages.* `NothingTypedLeaks` (of what was typed; not of what an answer fills in),
`BusyIsTruthful` (also that nothing stays disabled), `ShareIsSplit`. The module also
states what comments of the vendor dialog promise and the code breaks,
`ConfirmationApplies` and `NameIsOfThisOpening`; no run checks these (section 6).

*Accounts.* `LiveUnitCanBePaid`, `ReportIsTrue` (also later than the answer), and the
liveness property `DeletedAccountsExpire`.

For each property of a passing run `PROJECT.json` names a mutant of the code, defined
next to the definition it changes, which violates it.

## 5. Proofs

**`AllocationLoopProofs`** (every number of charges, every amount). `IInv` joins the
types to `PrefixInv`, that `prefix` is the strictly growing running total of what is
owed, and `LoopInv`, that as long as money is left all charges behind the loop are
settled and what was spent is exactly their total, and that otherwise it is less
than their total if one of them is open. Each of `AddToTotal`,
`StartAllocating` and `AllocateTurn` preserves it. `PriorityAndCredit` and
`OutcomeTruthful` follow. The strengthening is needed because `OutcomeIsTruthful`
relates totals to single charges, which no single turn can see.

The loop and the function are tied together in the same module, over the lemmas of
`EngineProofs`. `FilledAlong` follows the engine's fold charge by charge: a purse that
has served the first charges has left `LeftOver`, the part of credit and of payment
beyond what those owe, and each of them has got `LiesOver`, what lies over it when
charges and money are laid end to end (`FilledStep`, by `TurnTakes`, which is the
arithmetic of one turn). `WaterfallHolds` and `SurplusRouted` are this at the end of
the fold, through the classification (`ReconcileClassifies`). The loop has the same
as an invariant, `FillInv`: prefixes are sums, and its locals are `LeftOver` and
`LiesOver`. After the `break`, `DoneFills` shows that nothing lies over the charges
that it skipped. `LoopAgreesWithEngine` is the comparison of the two.
`InstalmentsAreSums` needs to know where a charge starts in the second payment: what
the charges before it still owe. `AllRemain` gets it from the conservation of money,
applied to the payment of *those charges alone* (`SubInput`), which gives them the
same; so there is no induction over the charges left. The assumption is
`ListedAssumption`: ids differ and the numbers are in the order of the rule, which is
what `sortCharges` establishes.

**`EngineProofs`** (any charges, credit, payment, rule and threshold). The tables are
kept in sums over finite sets (`SumOver`, by
`MapThenFoldSet` of the community modules), and the engine folds over a sorted
sequence. The library's induction theorems take an operator; the proofs use
`SetInduction` and `FiniteInduction` instead, which take the property as a *set* and
follow from the existence of a minimal element in a well-founded order. From them come
the value of a sum when an entry changes or the set grows, sums by key and in another
order (`SumByKey`, `SumSwap`), that
`SortCharges` exists, and what the whole fold returns. `ReconcileResult` states the
engine's contract for every input: it holds the payment and moves nothing, or
the payment and the credit used are exactly the allocations and the surplus.

**`LedgerProofs`** (any number of units, bills, references and charges, any amounts,
names, rules, thresholds and windows) has three layers, and uses `ReconcileResult`
without looking into the loop again.

*Every interleaving.* `BooksInv` holds for any number of handlers at any await, and
of their transactions between any two of their steps. It
says what each handler may remember, with however stale a snapshot (`Memory`,
`Serves`), what an open transaction has read and is going to write
(`TransactionsOK`), that no two of them insert one payment, and which
payment, exception and reversal go together (`Known`). Each commit is shown to
keep it whatever the snapshot says: this is where `NewOutstanding` never going below
zero is used. It says nothing of the amounts in unit rows, which may be wrong
(`ledger_stale_rollup`). `TypeOK`, `NothingIsInvisible`, `ClawbackIsKnown` and
`BooksOnlyGrow` follow without any hypothesis.

*One manager, one handler.* `ReviewInv` adds what has been applied of a payment while
it waits for a manager, and that an exception under review is open. That needs
`OneManager`: with two, the second resolves an exception that the first has closed
(section 6). `AppliedAtMostOnce` follows, with ingests, reversals and bills
still interleaved. `MoneyInv` adds where the gross amount went, with the refunds
sent and not yet written, and gives `PaymentsBalance`. `SerialInv` adds that what the
handler has read is what the tables hold (`Fresh`), which only `OneHandler` can give;
then the arithmetic of snapshots is that of rows, and `ChargesBalance`,
`CreditBalances`, `RollupsBalance` and `CopiesAreHeld` follow. `ledger_lost_update` and
`ledger_stale_rollup` are the counterexamples to `ChargesBalance` and `RollupsBalance`
with two handlers, so the hypothesis cannot go.

*What residents and managers read.* `ReadModels` only reads, so its two properties
follow from an invariant of the books, but from a stronger one: pages sum the same
allocations by payer, by charge, by bill and by unit, and these agree only if a payment
has paid charges of its own unit, also after a manager has moved it. `HomesInv` adds
that to `SerialInv`; its hard case is `Resolve`, where a misdirected payment
gets a unit: it has paid nothing before (`ReviewInv`). `StatementsExplainBalances` then
adds up the rows of a statement by their kind (`BalanceExplained`): what a hold takes
out and a refund, credit or attribution puts back cancels against the payments'
money (`MoneyInv`). `ThePagesAgree` is a lemma for each pair of pages, mostly a
sum taken in another order (`SumSwap`), by another key (`SumByKey`), or over the rows
that a filter keeps (`SumWithin`).

**`IngestProofs`** (any number of transfers, references, workers, deliveries and
faults). `BookedAtMostOnce` needs to know that a request carries the reference of its
transfer (`TaskInv`), that a transfer's bookings are the rows under its reference
(`RowsInv`), and that there is at most one row per reference (`UniqueInv`, the
unique index). Together these make `IInv`, preserved by every action under
`SameReference`. `Implements` shows the safety part of `Booking`: `Persist` maps to
`Book`, `Arrive` to `Arrive`, the rest to stutters.

**`RollupTxProofs`** (any number of transactions, rows, units). Locks exclude each
other (`LocksInv`). A transaction that has updated all its charges holds all their
locks, so of two that share a row at most one is past its last charge (`OnePast`).
What it has summed therefore stays true until it commits, but for strangers
(`PastInv`, by `Counts`), and `Commit` preserves `OnlyStrangersAreMissed`. No relation
between transactions is assumed. `NoDeadlock`: among the rows that transactions in
progress want next there is one of the highest rank, the unit rows ranking above all
charges; whoever holds that row wants a higher one, so nobody holds it. The maximum is
taken by well-founded induction over numbers (`Smallest`).

**The token, in `PagesProofs`** (any number of callers and fetches, any thresholds).
`PromiseInv` says that the shared promise, the cron job's and each waiter's belong to
fetches under way, and counts the fetch that may start while nothing is shared; the
count alone is not inductive. `AgeInv` bounds a token's age by its time in the cache
and one unit, from which `TokenIsValid` follows when a caller is served.
`PayingIsBoth` shows that the composition with payouts is a payout and a use of the
token, so `PayingIsRecorded` has the invariants of both there.

**`AccountsProofs`** (any number of units, requests and deletions). `CreationInv` ties
the rows and the account to the state of the creation; `DeletionInv` says that a
deletion beyond its first write has hidden the unit already, so it can never close
the account of one that is shown; `ReportInv` says that a request has reported
only when all its units are settled, which no later step of a unit can change. The
steps of the wizard are steps of `Accounts` or leave it alone, so these hold under
`OnboardingSpec` too (`AccountsOfTheWalk`). `FinishIsAdmitted` (any number of tabs,
requests and names) needs `WalkInv`: units are made only for requests that were sent,
requests go only into estates that exist, and a wizard that is done has rows of
units behind it, which soft deletion keeps. `AdmittedStaysAdmitted` follows, since
the first estate stays the first and its rows are never removed.

**`DashboardProofs`** (any number of mounts, calls, outside requests, sessions and
faults). `MountInv` says that a mount that is not on screen is closed wherever it may
still come back from an await, from which `OneStream` is inductive: the ticket that
comes after the layout has gone finds `closed`. `OwnDataOnly` needs `SessionInv`: a
query in flight belongs to the session that lasts, and an ended session leaves an
empty cache unless a rollback has filled it again. `QuietScreenIsCurrent` needs to
know why a screen that is behind will not stay so: news is coming (`NewsIsComing`: a
stream that is not open, an event on the wire, a write not yet announced), or a query
is under way that has read the current books or will be sent again (`FetchInv`), or an
optimistic change waits for its answer (`ScreenInv`). When all is quiet none of these
is left. TLC checked the two as invariants of `dashboard` before they were proved.
`EveryStepIsOfTheScreen` is the safety part of `ImplementsScreen`.

**`PagesProofs`** (any number of openings, mounts, requests, accounts, lookups, units,
groups and totals). `FieldsInv` says when fields may be left over: what forgets on closing
holds nothing while it is closed, and every sheet does. With it, and with what the
twenty kinds have in common (`KindsOfForms`), `NothingTypedLeaks` is inductive;
`BusyIsTruthful` needs that no request is of a mount to come. `Pages` steps are steps
of `Forms` or stutters (`PagesAreForms`), so both hold there. They speak of what was
typed: the name that a lookup fills in may be of an earlier opening (section 6).
`ShareIsSplit` follows from the handlers, since each
that changes total or selection splits.

The payouts are in the same module (any number of them). `RequestInv` relates the
state of a request to its row and to the transfer: no row exactly at the start,
nothing is at the bank before the call, an answer of success was true when given. With
it `StatusHasReason` is inductive, and `MoneyIsRecorded` follows.

### Model-checked only

* Liveness (the fair part of `ImplementsBooking`,
  `CallersAreAnswered`, `DeletedAccountsExpire`, the fair part of
  `ImplementsScreen`): the proof system does not handle
  fairness.
* Of what recursive definitions compute, only sums and folds are covered, by
  `SetInduction` and `FiniteInduction`.

Every invariant and action property of a passing run is a theorem; those of
`ledger_serial` under `OneHandler`, which is what that run assumes.

## 6. Where the program does not do what it says

Three disagreements have a run whose counterexample shows them:

* `ledger_lost_update` (`apply.ts:83`): the new outstanding amount is computed from
  the charges read before the transaction. Two payments, or a payment and a bill
  that consumes credit, lose one reduction; the PRD (`gatehouse-prd.md:89`) says
  that each payment reduces the outstanding amount.
* `ledger_refund_twice` (`exceptions.service.ts:55`): each attempt has a new
  `merchantTxRef`, so the idempotency key protects nothing.
* `ledger_stale_rollup` (`apply.ts:29`): the comment at `apply.ts:16` guarantees that a
  unit's balance is the sum of what is outstanding. A bill inserts its charge while a
  payment of the unit is in its transaction: they share no charge row, both aggregate
  before the other commits, and the unit row that is written last stays wrong until
  the unit's next transaction. `OnlyStrangersAreMissed` says which transactions a row
  can miss.

Others were met while modelling and are recorded here without a run of their own.

In the books:

* The exception's status is checked once, outside the transaction that resolves it
  (`exceptions.service.ts:32`); with two managers, or a double click, both pass and
  the payment is applied twice. `AppliedAtMostOnce` fails with `Manager` = two handlers.

* The job's secondary check (`payments.service.ts:122`) takes any payment of that
  unit and amount in the window for the missing one, whoever sent it. Of two equal
  payments close to each other the one without a webhook is never booked, although
  the job is to re-ingest any credit "we don't already have" (line 51). With `Near`
  relating two transfers, `ImplementsBooking` fails in this way.
* `SECURITY.md` (81-83) says that `payout_success` marks a payout as a success, and
  `payout_refund` as reversed. `payVendor`'s last update (`payouts.service.ts:98`)
  writes the status of the transfer's answer over what a webhook has written while
  the answer was under way. And events are applied as they arrive
  (`webhook.controller.ts:106`): a `payout_success` that is repeated or late turns
  `REVERSED` back into `SUCCESS`, and the reports count a reversed payout as money
  out (`reports.service.ts:38`). `Webhook` has both; `StatusHasReason` allows them, as
  the row then says what somebody did report.
* A transfer whose answer is late is executed, `payout_success` marks it, and then
  `payVendor` writes `FAILED` (`payouts.service.ts:95`, 98): with every webhook delivered
  the row still says `FAILED`, and `reports.service.ts:38` leaves the payout out,
  where the PRD (line 138) says that "a successful payout reduces the estate balance
  and appears in reports".
* An account that Nomba opens after the request has given up, or whose rows fail to
  be written, stays open and belongs to no unit (`onboarding.service.ts:259`).
* A payment to a unit without open charges is credited or matched by the engine,
  where the comment at `reconciliation.ts:148` and the PRD (line 96) call it an
  exception.
* Two copies reconciled side by side each read the prior payments before the other
  is booked (`payments.service.ts:209`), and both are applied.
* Any action but `credit` on an `OVERPAYMENT` reaches the branch whose comment says
  "Refund was already sent above" (`exceptions.service.ts:71`), also `acknowledge`,
  which the dashboard does not offer.
* The reversal of a payment whose exception was resolved before raises no new one
  (`payments.service.ts:293`; the comment says "unresolved"), and resolving the
  exception of a payment that was reversed meanwhile applies it
  (`exceptions.service.ts:155`). `ClawbackIsKnown` states what does hold.
* If the API lists a transfer under another reference than its webhook, the
  secondary check (`payments.service.ts:112`) reads before the webhook's insert and
  the transfer may be credited twice.
* A transfer that arrives in an outage longer than the look-back of an hour is not
  found by the job (`payments.service.ts:62`).
* `requireExact` of a levy is stored and never read by the engine.
* The reports page counts `FAILED` payouts as spent (`app.reports.tsx:29`), which the
  public page and `reports.service.ts` leave out. The public page puts payouts of
  deleted vendors under "Other", the report under their category; the report counts
  charges of soft-deleted units, the pages do not.
* The refund dialog shows the gross amount for an overpayment that is still open
  (`app.exceptions.tsx:50`), where the server sends the surplus; "Send refund" on a
  third party's payment sends nothing; the toast comes before the answer.
* The statement has a row "Held as credit balance" (`state.service.ts:261`) for
  payments that were refunded, although there is no such credit; the unit's sheet
  calls the whole balance "0-30 days" old (`unit-detail-sheet.tsx:216`).
* Credit that a manager adds while a newer charge is open is not used at once, and the
  list of units then shows the credit only (`app.units.tsx:97`) where the unit's tile
  shows what is owed. Neither list has a filter for every status: units that were
  never billed, and manual or reversed payments, are under "All" alone.

In the browser:

* A change that fails after the manager has logged out restores the snapshot into the
  cleared cache (`store.ts:105`), against `api.ts:51`, and the next session's first
  look may be at it: `revived`. A rollback in general restores what was shown before
  other changes, until the next heartbeat: `suspect`.
* An event that comes during the very first query joins it and is not followed by
  another, so the copy may predate it until the next heartbeat. `renameBillingRun`,
  `updateEstate` and `createUnits` raise no event.

On the pages:

* The answer to a lookup is shown whatever account has been entered since
  (`vendor-dialog.tsx:68`), so a name is confirmed that belongs to another account,
  where the comment at lines 58-60 says that an edit clears the confirmation:
  `ConfirmationApplies` fails after `Verify`, `EnterAccount`, `LookupEnds`. Saving needs
  no confirmation.
* The answer also fills in the name (`vendor-dialog.tsx:71`), of whichever opening it
  is by then, where lines 46-47 say that the fields are those of the vendor at hand:
  `NameIsOfThisOpening` fails after `Verify`, `Close`, `Hydrate`, `LookupEnds`, and the
  name is saved with the next vendor. `NothingTypedLeaks` is about typed fields and
  does not see it.
* A late answer closes, empties or stops whatever the form is about by then
  (renaming a bill, editing a contact, removing or adding a unit, re-running a bill):
  what was typed for the next thing is lost, though never sent for it.
* Enter, or a second click, submits `createGroup`, a bill's new name and the
  removals of units and vendors again (`unit-groups-panel.tsx:195`,
  `app.billing.tsx:328`); leaving the page forgets that a submission is under way.
* "Payout sent" is shown before the answer to `payVendor`, whatever it is.
* A total is not divided again when units appear or go under "all units", though the
  dialog shows the new share beside the old amount: `relisted`.
* Bills are matched to charges by their label: two bills of one label show each
  other's payments, and a bill just renamed shows "No per-unit payment data" until it
  is opened again.
* With two estates (a lost answer to `createEstate`, or a progress that failed to
  load) the units go into the estate used last and the gate looks at the first
  (`api.ts:57`): the manager is sent through the wizard again.

### Not modelled

Rendering, searches, filters but those by status, and texts; vendored components and
generated routes; the landing page; DTO validation, signatures, hashing and the
parsing of CSV files; single statements without a precondition (a vendor's or a
contact's fields, the estate's settings, `createFees`, `renameBillingRun`); the
notifier, which logs; the connection's retry at start-up; the repair script; the
frontend's copy of the engine, which no page uses. Reversals that overtake their
payment, events without references and the expiry of tokens are outside the models as
sections 2 and 3 say.

## 7. Plan

Done, in this order: engine, its loop with proofs, books, ingest with its abstract
specification and proofs, transactions with proofs, payouts over the access token with
proofs, units and accounts with proofs; live updates and the browser's cache with the
abstract `Screen` and proofs; the wizard over the accounts; read models against the
books; forms and pages with proofs; the books, the wizard, the quiet screen, the
absence of deadlock, the engine against its references, statements and pages proved.

Left, most important first:

1. A reversal that overtakes its payment, against the bank's own record.
2. Spending by category in `ReadModels`, over the rows of `Payouts`.
