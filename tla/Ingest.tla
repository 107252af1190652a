------------------------------- MODULE Ingest -------------------------------
(***************************************************************************)
(* How a transfer becomes a payment row: webhook deliveries that may be    *)
(* lost, repeated and concurrent (webhook.controller.ts), and the backfill *)
(* job that lists recent transactions every ten minutes and ingests what   *)
(* is missing (payments.service.ts, backfillMissedPayments).  Both end in  *)
(* ingestInboundPayment, whose duplicate lookup runs outside the           *)
(* transaction that inserts the row; the unique index on nombaTxnRef is    *)
(* what stops a second insert.  Here a row is only counted; what it does   *)
(* to the books is module Ledger.                                          *)
(***************************************************************************)
EXTENDS Naturals, FiniteSets

CONSTANTS
  Transfer,      \* transfers into virtual accounts of the estate
  Ref,           \* transaction references
  WebhookRef,    \* the reference a transfer's webhook carries
  ListRef,       \* the reference the transactions API lists it under
  Near,          \* pairs with the same unit, the same amount and receivedAt
                 \* within the duplicate window of each other
  SameSender,    \* pairs with the same sender name
  Worker,        \* webhook requests in service at the same time
  Job,           \* the backfill job
  LookBack,      \* cron periods the job looks back (one hour = 6 periods)
  LongOutage,    \* TRUE if an outage may last whole cron periods
  MaxDeliveries, \* bound: deliveries of one webhook
  MaxFaults      \* bound: failed requests, failed fetches and crashes

ASSUME IngestAssumption ==
  /\ WebhookRef \in [Transfer -> Ref] /\ ListRef \in [Transfer -> Ref]
  /\ \A s, t \in Transfer : WebhookRef[s] = WebhookRef[t] => s = t
  /\ \A s, t \in Transfer : ListRef[s] = ListRef[t] => s = t
  /\ \A s, t \in Transfer : s # t => WebhookRef[s] # ListRef[t]
  /\ Near \subseteq Transfer \X Transfer /\ SameSender \subseteq Transfer \X Transfer
  /\ \A t \in Transfer : <<t, t>> \in Near \cap SameSender
  /\ Job \notin Worker
  /\ LookBack \in Nat /\ MaxDeliveries \in Nat /\ MaxFaults \in Nat

VARIABLES
  arrived,     \* the transfers the bank has settled
  age,         \* cron periods since each transfer arrived, up to LookBack + 1
  deliveries,  \* how often each webhook has been delivered
  rows,        \* Payment rows with each reference
  credited,    \* rows of each transfer that were applied to the books
  held,        \* rows of each transfer that were held as DUPLICATE
  task,        \* what each worker and the job is doing
  todo,        \* the listed transfers the job has still to look at
  due,         \* the cron timer has fired and the job has not started
  up,          \* the service is running
  faults       \* faults so far

bank    == <<arrived, age, deliveries>>
books   == <<rows, credited, held>>
service == <<task, todo, due, up, faults>>
vars    == <<arrived, age, deliveries, rows, credited, held, task, todo, due, up, faults>>

Process == Worker \cup {Job}
Idle    == [pc |-> "idle"]

Booked(t) == credited[t] + held[t]

Init ==
  /\ arrived = {}
  /\ age = [t \in Transfer |-> 0]
  /\ deliveries = [t \in Transfer |-> 0]
  /\ rows = [r \in Ref |-> 0]
  /\ credited = [t \in Transfer |-> 0]
  /\ held = [t \in Transfer |-> 0]
  /\ task = [p \in Process |-> Idle]
  /\ todo = {}
  /\ due = FALSE
  /\ up = TRUE
  /\ faults = 0
-----------------------------------------------------------------------------
\* The bank and the clock.

Arrive(t) ==
  /\ t \notin arrived
  /\ arrived' = arrived \cup {t}
  /\ UNCHANGED <<age, deliveries, books, service>>

(* A cron period passes.  A run of the job is shorter than a period.       *)
Tick ==
  /\ IF up THEN ~due /\ task[Job] = Idle /\ todo = {} ELSE LongOutage
  /\ age' = [t \in Transfer |->
               IF t \in arrived /\ age[t] <= LookBack THEN age[t] + 1 ELSE age[t]]
  /\ due' = up
  /\ UNCHANGED <<arrived, deliveries, books, task, todo, up, faults>>
-----------------------------------------------------------------------------
\* ingestInboundPayment, run by a worker or by the job.

Starts(p, next) == task' = [task EXCEPT ![p] = next]

(* Nomba delivers the webhook, for the first time or again.                *)
Deliver(w, t) ==
  /\ up /\ task[w] = Idle
  /\ t \in arrived /\ deliveries[t] < MaxDeliveries
  /\ deliveries' = [deliveries EXCEPT ![t] = @ + 1]
  /\ Starts(w, [pc |-> "lookup", transfer |-> t, ref |-> WebhookRef[t], hold |-> FALSE])
  /\ UNCHANGED <<arrived, age, books, todo, due, up, faults>>

(* The payment is looked up by its reference; a known one ends the request.*)
Lookup(p) ==
  /\ task[p].pc = "lookup"
  /\ Starts(p, IF rows[task[p].ref] > 0 THEN Idle ELSE [task[p] EXCEPT !.pc = "reconcile"])
  /\ UNCHANGED <<bank, books, todo, due, up, faults>>

(* The unit's payments are read and the engine decides: a booked payment   *)
(* of the same amount and sender within the window makes it a duplicate.   *)
Copy(t) == \E s \in Transfer : <<s, t>> \in Near \cap SameSender /\ Booked(s) > 0

Reconcile(p) ==
  /\ task[p].pc = "reconcile"
  /\ Starts(p, [task[p] EXCEPT !.pc = "persist", !.hold = Copy(task[p].transfer)])
  /\ UNCHANGED <<bank, books, todo, due, up, faults>>

\* Mutant of Insertable: no unique index on nombaTxnRef.
AnyInsertable(r) == TRUE

(* The unique index on nombaTxnRef.                                        *)
Insertable(r) == rows[r] = 0

Persist(p) ==
  LET t == task[p].transfer
  IN  /\ task[p].pc = "persist"
      /\ Insertable(task[p].ref)
      /\ rows' = [rows EXCEPT ![task[p].ref] = @ + 1]
      /\ IF task[p].hold
         THEN held' = [held EXCEPT ![t] = @ + 1] /\ UNCHANGED credited
         ELSE credited' = [credited EXCEPT ![t] = @ + 1] /\ UNCHANGED held
      /\ Starts(p, Idle)
      /\ UNCHANGED <<bank, todo, due, up, faults>>

(* The insert violates the index: 500 to Nomba, or the job's next item.    *)
Rejected(p) ==
  /\ task[p].pc = "persist"
  /\ ~Insertable(task[p].ref)
  /\ Starts(p, Idle)
  /\ UNCHANGED <<bank, books, todo, due, up, faults>>
-----------------------------------------------------------------------------
\* backfillMissedPayments.

\* Mutant of Listed: the window of one period misses what a failed fetch
\* should have found.
ListedBriefly(t) == t \in arrived /\ age[t] <= 1

(* The transactions of the last hour.                                      *)
Listed(t) == t \in arrived /\ age[t] <= LookBack

StartJob ==
  /\ up /\ due /\ todo = {}
  /\ due' = FALSE
  /\ todo' = {t \in Transfer : Listed(t)}
  /\ UNCHANGED <<bank, books, task, up, faults>>

(* Fetching the first or a later page, or the lookup of an account, throws:*)
(* the outer catch gives up the run, and the rest of the list with it.     *)
FetchFails ==
  /\ up /\ task[Job] = Idle
  /\ due \/ todo # {}
  /\ faults < MaxFaults
  /\ faults' = faults + 1
  /\ due' = FALSE /\ todo' = {}
  /\ UNCHANGED <<bank, books, task, up>>

(* The next item: the exact check on the reference.                        *)
Examine(t) ==
  /\ up /\ task[Job] = Idle
  /\ t \in todo
  /\ todo' = todo \ {t}
  /\ IF rows[ListRef[t]] > 0
     THEN UNCHANGED task
     ELSE Starts(Job, [pc |-> "secondary", transfer |-> t, ref |-> ListRef[t], hold |-> FALSE])
  /\ UNCHANGED <<bank, books, due, up, faults>>

(* The secondary check: skip the item if any payment of the unit with the  *)
(* same amount lies within the window, whoever sent it.                    *)
AlreadyBooked(t) == \E s \in Transfer : <<s, t>> \in Near /\ Booked(s) > 0

Secondary ==
  /\ task[Job].pc = "secondary"
  /\ Starts(Job, IF AlreadyBooked(task[Job].transfer) THEN Idle
                 ELSE [task[Job] EXCEPT !.pc = "lookup"])
  /\ UNCHANGED <<bank, books, todo, due, up, faults>>
-----------------------------------------------------------------------------
\* Faults.

(* A request or an item of the job fails before its transaction commits.   *)
(* The job goes on with its next item only if the failure was inside       *)
(* ingestInboundPayment.                                                   *)
Fail(p) ==
  /\ faults < MaxFaults /\ task[p] # Idle
  /\ faults' = faults + 1
  /\ Starts(p, Idle)
  /\ todo' = IF task[p].pc = "secondary" THEN {} ELSE todo
  /\ UNCHANGED <<bank, books, due, up>>

(* The process dies with everything it was doing.                          *)
Crash ==
  /\ faults < MaxFaults /\ up
  /\ faults' = faults + 1
  /\ up' = FALSE /\ due' = FALSE /\ todo' = {}
  /\ task' = [p \in Process |-> Idle]
  /\ UNCHANGED <<bank, books>>

Restart ==
  /\ ~up
  /\ up' = TRUE
  /\ UNCHANGED <<bank, books, task, todo, due, faults>>
-----------------------------------------------------------------------------
Request(p) == Lookup(p) \/ Reconcile(p) \/ Persist(p) \/ Rejected(p)

JobStep == StartJob \/ (\E t \in Transfer : Examine(t)) \/ Secondary \/ Request(Job)

Next ==
  \/ \E t \in Transfer : Arrive(t)
  \/ Tick
  \/ \E w \in Worker, t \in Transfer : Deliver(w, t)
  \/ \E w \in Worker : Request(w)
  \/ JobStep \/ FetchFails
  \/ \E p \in Process : Fail(p)
  \/ Crash \/ Restart

(* The clock runs, the scheduler runs the job while the service is up, and *)
(* the platform restarts the service.  Nothing is assumed of webhooks.     *)
Fairness == WF_vars(Tick) /\ WF_vars(JobStep) /\ WF_vars(Restart)

Spec     == Init /\ [][Next]_vars
FairSpec == Spec /\ Fairness
-----------------------------------------------------------------------------
Requests == [pc : {"lookup", "reconcile", "persist", "secondary"}, transfer : Transfer,
             ref : Ref, hold : BOOLEAN]

TypeOK ==
  /\ arrived \subseteq Transfer
  /\ age \in [Transfer -> 0 .. LookBack + 1]
  /\ deliveries \in [Transfer -> 0 .. MaxDeliveries]
  /\ rows \in [Ref -> Nat]
  /\ credited \in [Transfer -> Nat] /\ held \in [Transfer -> Nat]
  /\ task \in [Process -> Requests \cup {Idle}]
  /\ todo \subseteq arrived
  /\ due \in BOOLEAN /\ up \in BOOLEAN
  /\ faults \in 0 .. MaxFaults

(* A transfer is never booked twice, whatever is delivered, retried and    *)
(* run concurrently: "a re-delivered webhook must never double-credit"     *)
(* (payments.service.ts 158).                                              *)
BookedAtMostOnce == \A t \in Transfer : Booked(t) <= 1

(* Ingest implements Booking: steps that do not insert a row are stutters, *)
(* a row is inserted for a transfer that has arrived and has none.  In the *)
(* end each has one, even if its webhook is never delivered: the job is    *)
(* the "safety net for dropped or retry-exhausted webhooks"                *)
(* (payments.service.ts 49).                                               *)
Abstract == INSTANCE Booking WITH booked <- [t \in Transfer |-> Booked(t)]

ImplementsBooking == Abstract!Spec

(* The webhook and the transactions API know a transfer by one reference.  *)
SameReference == \A t \in Transfer : WebhookRef[t] = ListRef[t]

(* The inductive invariant behind BookedAtMostOnce: a transfer is booked   *)
(* by the row of its reference and by no other, and a request works on a   *)
(* transfer that arrived, under that reference.                            *)
RowsInv == \A t \in Transfer :
  /\ Booked(t) = rows[WebhookRef[t]]
  /\ Booked(t) > 0 => t \in arrived
UniqueInv == \A r \in Ref : rows[r] <= 1
TaskInv == \A p \in Process : task[p] # Idle =>
  /\ task[p].transfer \in arrived
  /\ task[p].ref = WebhookRef[task[p].transfer]
IInv == TypeOK /\ RowsInv /\ UniqueInv /\ TaskInv
=============================================================================
