---------------------------- MODULE IngestProofs ----------------------------
(***************************************************************************)
(* Exactly-once booking, proved for any number of transfers, workers,      *)
(* deliveries and faults and any look-back, when the webhook and the       *)
(* transactions API know a transfer by the same reference.                 *)
(***************************************************************************)
EXTENDS Ingest, TLAPS

(* The references of a transfer are references, and tell transfers apart.  *)
LEMMA References ==
  ASSUME SameReference, NEW s \in Transfer
  PROVE  /\ WebhookRef[s] \in Ref /\ ListRef[s] = WebhookRef[s]
         /\ \A t \in Transfer : WebhookRef[s] = WebhookRef[t] => s = t
BY IngestAssumption DEF SameReference

(* A process that is at a step of a request has one.                       *)
LEMMA AtWork ==
  ASSUME TypeOK, NEW p \in Process, task[p] # Idle
  PROVE  task[p] \in Requests
BY DEF TypeOK

(* Initially nothing has arrived and nothing is booked.                    *)
LEMMA InitInv == ASSUME SameReference, Init PROVE IInv
<1> USE IngestAssumption
<1>1. TypeOK
  <2>1. task \in [Process -> Requests \cup {Idle}]
    BY DEF Init
  <2>2. /\ age \in [Transfer -> 0 .. LookBack + 1]
        /\ deliveries \in [Transfer -> 0 .. MaxDeliveries]
        /\ faults \in 0 .. MaxFaults
    BY DEF Init
  <2>3. /\ rows \in [Ref -> Nat]
        /\ credited \in [Transfer -> Nat] /\ held \in [Transfer -> Nat]
    BY DEF Init
  <2> QED
    BY <2>1, <2>2, <2>3 DEF Init, TypeOK
<1>2. RowsInv
  BY References DEF Init, RowsInv, Booked
<1>3. UniqueInv /\ TaskInv
  BY DEF Init, UniqueInv, TaskInv
<1> QED
  BY <1>1, <1>2, <1>3 DEF IInv

(* A step that leaves the rows alone and only adds arrivals keeps the      *)
(* booking part of the invariant.                                          *)
LEMMA BooksKept ==
  ASSUME IInv, UNCHANGED books, arrived \subseteq arrived'
  PROVE  RowsInv' /\ UniqueInv'
BY DEF IInv, RowsInv, UniqueInv, Booked, books

(* A process that takes up a request for a transfer that arrived, goes on  *)
(* with the one it has, or becomes idle keeps the rest of it.              *)
LEMMA TaskKept ==
  ASSUME IInv, NEW p \in Process, NEW next \in Requests \cup {Idle},
         Starts(p, next), arrived' = arrived,
         next # Idle => /\ next.transfer \in arrived
                        /\ next.ref = WebhookRef[next.transfer]
  PROVE  TaskInv' /\ task' \in [Process -> Requests \cup {Idle}]
<1>1. task \in [Process -> Requests \cup {Idle}] /\ TaskInv
  BY DEF IInv, TypeOK
<1>2. task' = [task EXCEPT ![p] = next]
  BY DEF Starts
<1>3. task' \in [Process -> Requests \cup {Idle}]
  BY <1>1, <1>2
<1>4. ASSUME NEW q \in Process, task'[q] # Idle
      PROVE  /\ task'[q].transfer \in arrived
             /\ task'[q].ref = WebhookRef[task'[q].transfer]
  <2>1. CASE q = p
    BY <2>1, <1>1, <1>2, <1>4
  <2>2. CASE q # p
    BY <2>2, <1>1, <1>2, <1>4 DEF TaskInv
  <2> QED
    BY <2>1, <2>2
<1> QED
  BY <1>3, <1>4 DEF TaskInv

(* The insert: the row of a transfer that has none is its first.           *)
LEMMA PersistBooks ==
  ASSUME SameReference, IInv, NEW p \in Process, Persist(p),
         NEW t, t = task[p].transfer
  PROVE  /\ t \in arrived /\ t \in Transfer
         /\ Booked(t) = 0
         /\ Booked(t)' = 1
         /\ \A s \in Transfer \ {t} : Booked(s)' = Booked(s)
         /\ rows' = [rows EXCEPT ![WebhookRef[t]] = 1]
         /\ credited' \in [Transfer -> Nat] /\ held' \in [Transfer -> Nat]
<1>1. task[p] # Idle
  BY DEF Persist, Idle
<1>2. t \in arrived /\ t \in Transfer /\ task[p].ref = WebhookRef[t]
  BY <1>1 DEF IInv, TaskInv, TypeOK
<1>3. rows[WebhookRef[t]] = 0 /\ rows' = [rows EXCEPT ![WebhookRef[t]] = 1]
  <2>1. rows[WebhookRef[t]] = 0
    BY <1>2 DEF Persist, Insertable
  <2>2. rows' = [rows EXCEPT ![WebhookRef[t]] = rows[WebhookRef[t]] + 1]
    BY <1>2 DEF Persist
  <2> QED
    BY <2>1, <2>2
<1>4. credited \in [Transfer -> Nat] /\ held \in [Transfer -> Nat]
  BY DEF IInv, TypeOK
<1>5. Booked(t) = 0 /\ credited[t] = 0 /\ held[t] = 0
  BY <1>2, <1>3, <1>4 DEF IInv, RowsInv, Booked
<1>6. \/ held' = [held EXCEPT ![t] = held[t] + 1] /\ credited' = credited
      \/ credited' = [credited EXCEPT ![t] = credited[t] + 1] /\ held' = held
  BY DEF Persist
<1>7. /\ credited' \in [Transfer -> Nat] /\ held' \in [Transfer -> Nat]
      /\ credited'[t] + held'[t] = 1
      /\ \A s \in Transfer \ {t} : credited'[s] = credited[s] /\ held'[s] = held[s]
  <2>1. CASE held' = [held EXCEPT ![t] = held[t] + 1] /\ credited' = credited
    BY <1>2, <1>4, <1>5, <2>1
  <2>2. CASE credited' = [credited EXCEPT ![t] = credited[t] + 1] /\ held' = held
    BY <1>2, <1>4, <1>5, <2>2
  <2> QED
    BY <1>6, <2>1, <2>2
<1> QED
  BY <1>2, <1>3, <1>5, <1>7 DEF Booked

(* The insert preserves the invariant.                                     *)
LEMMA PersistInv ==
  ASSUME SameReference, IInv, NEW p \in Process, Persist(p)
  PROVE  IInv'
<1>1. PICK t : t = task[p].transfer
  OBVIOUS
<1>2. /\ t \in arrived /\ t \in Transfer /\ arrived' = arrived
      /\ Booked(t)' = 1
      /\ \A s \in Transfer \ {t} : Booked(s)' = Booked(s)
      /\ rows' = [rows EXCEPT ![WebhookRef[t]] = 1]
      /\ credited' \in [Transfer -> Nat] /\ held' \in [Transfer -> Nat]
  BY <1>1, PersistBooks DEF Persist, bank
<1>3. rows \in [Ref -> Nat] /\ rows' \in [Ref -> Nat] /\ rows'[WebhookRef[t]] = 1
  BY <1>2, References DEF IInv, TypeOK
<1>4. TaskInv' /\ task' \in [Process -> Requests \cup {Idle}]
  BY <1>2, TaskKept DEF Persist
<1>5. TypeOK'
  <2>1. TypeOK /\ UNCHANGED <<arrived, age, deliveries, todo, due, up, faults>>
    BY DEF Persist, IInv, bank
  <2> QED
    BY <1>2, <1>3, <1>4, <2>1 DEF TypeOK
<1>6. RowsInv'
  <2>1. ASSUME NEW s \in Transfer, s # t
        PROVE  Booked(s)' = rows'[WebhookRef[s]] /\ (Booked(s)' > 0 => s \in arrived')
    <3>1. WebhookRef[s] # WebhookRef[t] /\ WebhookRef[s] \in Ref
      BY <1>2, <2>1, References
    <3>2. rows'[WebhookRef[s]] = rows[WebhookRef[s]] /\ Booked(s)' = Booked(s)
      BY <1>2, <1>3, <2>1, <3>1
    <3> QED
      BY <1>2, <3>2 DEF IInv, RowsInv
  <2> QED
    BY <1>2, <1>3, <2>1 DEF RowsInv
<1>7. UniqueInv'
  BY <1>2, <1>3 DEF IInv, UniqueInv
<1> QED
  BY <1>4, <1>5, <1>6, <1>7 DEF IInv

(* The other steps of a request leave the books alone.                     *)
LEMMA RequestInv ==
  ASSUME SameReference, IInv, NEW p \in Process, Request(p)
  PROVE  IInv'
<1>1. CASE Persist(p)
  BY <1>1, PersistInv
<1>2. CASE Lookup(p) \/ Reconcile(p) \/ Rejected(p)
  <2>1. PICK next \in Requests \cup {Idle} :
          /\ Starts(p, next)
          /\ next # Idle => /\ next.transfer = task[p].transfer
                            /\ next.ref = task[p].ref
    <3>1. task[p] \in Requests
      BY <1>2, AtWork DEF Lookup, Reconcile, Rejected, Idle, IInv
    <3>2. CASE Lookup(p)
      <4> DEFINE onward == [task[p] EXCEPT !.pc = "reconcile"]
      <4>1. /\ onward \in Requests
            /\ onward.transfer = task[p].transfer /\ onward.ref = task[p].ref
        BY <3>1 DEF Requests
      <4>2. Starts(p, Idle) \/ Starts(p, onward)
        BY <3>2 DEF Lookup
      <4> HIDE DEF onward
      <4>3. CASE Starts(p, Idle)
        BY <4>3
      <4>4. CASE Starts(p, onward)
        BY <4>1, <4>4
      <4> QED
        BY <4>2, <4>3, <4>4
    <3>3. CASE Reconcile(p)
      <4>1. Copy(task[p].transfer) \in BOOLEAN
        BY DEF Copy
      <4> DEFINE decided == [task[p] EXCEPT !.pc = "persist", !.hold = Copy(task[p].transfer)]
      <4>2. /\ decided \in Requests
            /\ decided.transfer = task[p].transfer /\ decided.ref = task[p].ref
        BY <3>1, <4>1 DEF Requests
      <4>3. Starts(p, decided)
        BY <3>3 DEF Reconcile
      <4> HIDE DEF decided
      <4> QED
        BY <4>2, <4>3
    <3>4. CASE Rejected(p)
      BY <3>4 DEF Rejected
    <3> QED
      BY <1>2, <3>2, <3>3, <3>4
  <2>2. /\ UNCHANGED <<arrived, age, deliveries, todo, due, up, faults>>
        /\ UNCHANGED books /\ task[p] # Idle
    BY <1>2 DEF Lookup, Reconcile, Rejected, bank, Idle
  <2>3. task[p].transfer \in arrived /\ task[p].ref = WebhookRef[task[p].transfer]
    BY <2>2 DEF IInv, TaskInv
  <2>4. TaskInv' /\ task' \in [Process -> Requests \cup {Idle}]
    BY <2>1, <2>2, <2>3, TaskKept
  <2>5. RowsInv' /\ UniqueInv'
    BY <2>2, BooksKept
  <2>6. TypeOK'
    BY <2>2, <2>4 DEF IInv, TypeOK, books
  <2> QED
    BY <2>4, <2>5, <2>6 DEF IInv
<1> QED
  BY <1>1, <1>2 DEF Request

(* A step that only idles some processes keeps the types of the tasks and  *)
(* TaskInv.                                                                *)
LEMMA StoppedKept ==
  ASSUME IInv, NEW p \in Process, Starts(p, Idle), arrived' = arrived
  PROVE  TaskInv' /\ task' \in [Process -> Requests \cup {Idle}]
BY TaskKept

(* Arrivals and the clock.                                                 *)
LEMMA BankInv ==
  ASSUME IInv, (\E t \in Transfer : Arrive(t)) \/ Tick
  PROVE  IInv'
<1> USE IngestAssumption
<1>1. UNCHANGED <<task, todo, up, faults, deliveries>> /\ UNCHANGED books
      /\ arrived \subseteq arrived' /\ arrived' \subseteq Transfer
  BY DEF Arrive, Tick, service, books, IInv, TypeOK
<1>2. RowsInv' /\ UniqueInv'
  BY <1>1, BooksKept
<1>3. TaskInv'
  BY <1>1 DEF IInv, TaskInv
<1>4. age' \in [Transfer -> 0 .. LookBack + 1] /\ due' \in BOOLEAN
  <2>1. CASE \E t \in Transfer : Arrive(t)
    BY <2>1 DEF Arrive, service, IInv, TypeOK
  <2>2. CASE Tick
    <3>1. ASSUME NEW t \in Transfer
          PROVE  (IF t \in arrived /\ age[t] <= LookBack THEN age[t] + 1 ELSE age[t])
                   \in 0 .. LookBack + 1
      BY DEF IInv, TypeOK
    <3> QED
      BY <2>2, <3>1 DEF Tick, IInv, TypeOK
  <2> QED
    BY <2>1, <2>2
<1>5. TypeOK'
  BY <1>1, <1>4 DEF IInv, TypeOK, books
<1> QED
  BY <1>2, <1>3, <1>5 DEF IInv

(* A delivery takes up a request for a transfer that arrived.              *)
LEMMA DeliverInv ==
  ASSUME SameReference, IInv, NEW w \in Worker, NEW t \in Transfer, Deliver(w, t)
  PROVE  IInv'
<1> USE IngestAssumption
<1> DEFINE request == [pc |-> "lookup", transfer |-> t, ref |-> WebhookRef[t], hold |-> FALSE]
<1>1. /\ t \in arrived /\ Starts(w, request) /\ w \in Process
      /\ UNCHANGED <<arrived, age, todo, due, up, faults>> /\ UNCHANGED books
  BY DEF Deliver, Process
<1>2. request \in Requests /\ request.transfer = t /\ request.ref = WebhookRef[t]
  BY References DEF Requests
<1>3. TaskInv' /\ task' \in [Process -> Requests \cup {Idle}]
  <2> HIDE DEF request
  <2> QED
    BY <1>1, <1>2, TaskKept
<1>4. RowsInv' /\ UniqueInv'
  BY <1>1, BooksKept
<1>5. deliveries' \in [Transfer -> 0 .. MaxDeliveries]
  BY DEF Deliver, IInv, TypeOK
<1>6. TypeOK'
  BY <1>1, <1>3, <1>5 DEF IInv, TypeOK, books
<1> QED
  BY <1>3, <1>4, <1>6 DEF IInv

(* The steps of the job that are not those of a request.                   *)
LEMMA JobInv ==
  ASSUME SameReference, IInv,
         StartJob \/ FetchFails \/ (\E t \in Transfer : Examine(t)) \/ Secondary
  PROVE  IInv'
<1> USE IngestAssumption
<1>0. Job \in Process
  BY DEF Process
<1>1. CASE StartJob \/ FetchFails
  <2>1. /\ UNCHANGED <<arrived, age, deliveries, task, up>> /\ UNCHANGED books
        /\ todo' \subseteq arrived /\ due' = FALSE
        /\ faults' \in 0 .. MaxFaults
    BY <1>1 DEF StartJob, FetchFails, Listed, bank, IInv, TypeOK
  <2>2. RowsInv' /\ UniqueInv' /\ TaskInv'
    BY <2>1, BooksKept DEF IInv, TaskInv
  <2>3. TypeOK'
    BY <2>1 DEF IInv, TypeOK, books
  <2> QED
    BY <2>2, <2>3 DEF IInv
<1>2. CASE (\E t \in Transfer : Examine(t)) \/ Secondary
  <2>1. /\ UNCHANGED <<arrived, age, deliveries, due, up, faults>> /\ UNCHANGED books
        /\ todo' \subseteq todo
    BY <1>2 DEF Examine, Secondary, bank
  <2>2. TaskInv' /\ task' \in [Process -> Requests \cup {Idle}]
    <3>1. CASE task' = task
      BY <2>1, <3>1 DEF IInv, TypeOK, TaskInv
    <3>2. ASSUME NEW t \in Transfer, Examine(t), task' # task
          PROVE  TaskInv' /\ task' \in [Process -> Requests \cup {Idle}]
      <4> DEFINE request == [pc |-> "secondary", transfer |-> t, ref |-> ListRef[t],
                             hold |-> FALSE]
      <4>1. t \in arrived /\ Starts(Job, request)
        BY <3>2 DEF Examine, IInv, TypeOK
      <4>2. request \in Requests /\ request.transfer = t /\ request.ref = WebhookRef[t]
        BY References DEF Requests
      <4> HIDE DEF request
      <4> QED
        BY <1>0, <2>1, <4>1, <4>2, TaskKept
    <3>3. CASE Secondary
      <4> DEFINE onward == [task[Job] EXCEPT !.pc = "lookup"]
      <4>1. task[Job] \in Requests /\ task[Job] # Idle
        BY <1>0, <3>3, AtWork DEF Secondary, Idle, IInv
      <4>2. /\ onward \in Requests
            /\ onward.transfer = task[Job].transfer /\ onward.ref = task[Job].ref
        BY <4>1 DEF Requests
      <4>3. Starts(Job, Idle) \/ Starts(Job, onward)
        BY <3>3 DEF Secondary
      <4>4. onward.transfer \in arrived /\ onward.ref = WebhookRef[onward.transfer]
        BY <1>0, <4>1, <4>2 DEF IInv, TaskInv
      <4> HIDE DEF onward
      <4> QED
        BY <1>0, <2>1, <4>2, <4>3, <4>4, TaskKept
    <3> QED
      BY <1>2, <3>1, <3>2, <3>3
  <2>3. RowsInv' /\ UniqueInv'
    BY <2>1, BooksKept
  <2>4. TypeOK'
    BY <2>1, <2>2 DEF IInv, TypeOK, books
  <2> QED
    BY <2>2, <2>3, <2>4 DEF IInv
<1> QED
  BY <1>1, <1>2

(* Failures drop requests and the job's list, never a row.                 *)
LEMMA FaultInv ==
  ASSUME IInv, (\E p \in Process : Fail(p)) \/ Crash \/ Restart
  PROVE  IInv'
<1> USE IngestAssumption
<1>1. /\ UNCHANGED <<arrived, age, deliveries>> /\ UNCHANGED books
      /\ todo' \subseteq todo /\ due' \in BOOLEAN /\ up' \in BOOLEAN
      /\ faults' \in 0 .. MaxFaults
  <2>1. TypeOK
    BY DEF IInv
  <2>2. CASE \E p \in Process : Fail(p)
    <3> PICK p \in Process : Fail(p)
      BY <2>2
    <3>1. todo' \subseteq todo /\ UNCHANGED <<arrived, age, deliveries, due, up>>
      BY DEF Fail, bank
    <3> QED
      BY <2>1, <3>1 DEF Fail, TypeOK
  <2>3. CASE Crash
    <3>1. faults' \in 0 .. MaxFaults
      BY <2>1, <2>3 DEF Crash, TypeOK
    <3>2. /\ todo' = {} /\ due' = FALSE /\ up' = FALSE
          /\ UNCHANGED <<arrived, age, deliveries>> /\ UNCHANGED books
      BY <2>3 DEF Crash, bank
    <3> QED
      BY <3>1, <3>2
  <2>4. CASE Restart
    BY <2>1, <2>4 DEF Restart, bank, TypeOK
  <2> QED
    BY <2>2, <2>3, <2>4
<1>2. TaskInv' /\ task' \in [Process -> Requests \cup {Idle}]
  <2>1. CASE \E p \in Process : Fail(p)
    BY <1>1, <2>1, StoppedKept DEF Fail
  <2>2. CASE Crash
    BY <2>2 DEF Crash, TaskInv
  <2>3. CASE Restart
    BY <1>1, <2>3 DEF Restart, TaskInv, IInv, TypeOK
  <2> QED
    BY <2>1, <2>2, <2>3
<1>3. RowsInv' /\ UniqueInv'
  BY <1>1, BooksKept
<1>4. TypeOK'
  BY <1>1, <1>2 DEF IInv, TypeOK, books
<1> QED
  BY <1>2, <1>3, <1>4 DEF IInv

(* IInv is inductive.                                                      *)
LEMMA Inductive == ASSUME SameReference, IInv, [Next]_vars PROVE IInv'
<1> USE IngestAssumption
<1>1. CASE \E t \in Transfer : Arrive(t)
  BY <1>1, BankInv
<1>2. CASE Tick
  BY <1>2, BankInv
<1>3. CASE \E w \in Worker, t \in Transfer : Deliver(w, t)
  BY <1>3, DeliverInv
<1>4. CASE \E w \in Worker : Request(w)
  BY <1>4, RequestInv DEF Process
<1>5. CASE JobStep \/ FetchFails
  <2>1. CASE Request(Job)
    BY <2>1, RequestInv DEF Process
  <2> QED
    BY <1>5, <2>1, JobInv DEF JobStep
<1>6. CASE (\E p \in Process : Fail(p)) \/ Crash \/ Restart
  BY <1>6, FaultInv
<1>7. CASE UNCHANGED vars
  BY <1>7 DEF vars, IInv, TypeOK, RowsInv, UniqueInv, TaskInv, Booked
<1> QED
  BY <1>1, <1>2, <1>3, <1>4, <1>5, <1>6, <1>7 DEF Next

(* IInv, and with it the types, hold of every reachable state              *)
(* (payments.service.ts, ingest and backfill).                             *)
THEOREM Invariant == ASSUME SameReference PROVE Spec => []IInv
<1>1. Init => IInv
  BY InitInv
<1>2. IInv /\ [Next]_vars => IInv'
  BY Inductive
<1> QED
  BY <1>1, <1>2, PTL DEF Spec

(* "A re-delivered webhook must never double-credit" (payments.service.ts  *)
(* 158): no transfer has two payment rows, for any interleaving of         *)
(* deliveries, the backfill job, failures and crashes.                     *)
THEOREM BookedOnce == ASSUME SameReference PROVE Spec => []BookedAtMostOnce
<1>1. IInv => BookedAtMostOnce
  <2> SUFFICES ASSUME IInv, NEW t \in Transfer PROVE Booked(t) <= 1
    BY DEF BookedAtMostOnce
  <2>1. WebhookRef[t] \in Ref
    BY References
  <2> QED
    BY <2>1 DEF IInv, RowsInv, UniqueInv
<1> QED
  BY <1>1, Invariant, PTL

(* A step of Ingest is a step of Booking or leaves it where it is.         *)
LEMMA StepImplements ==
  ASSUME SameReference, IInv, [Next]_vars PROVE [Abstract!Next]_(Abstract!vars)
<1> USE IngestAssumption
<1> DEFINE bookedNow == [t \in Transfer |-> Booked(t)]
<1>1. ASSUME UNCHANGED books, arrived' = arrived PROVE UNCHANGED Abstract!vars
  BY <1>1 DEF Abstract!vars, Booked, books
<1>2. ASSUME NEW t \in Transfer, Arrive(t) PROVE Abstract!Arrive(t)
  BY <1>2 DEF Arrive, Abstract!Arrive, Booked, books
<1>3. ASSUME NEW p \in Process, Persist(p)
      PROVE  \E t \in Transfer : Abstract!Book(t)
  <2>1. PICK t : t = task[p].transfer
    OBVIOUS
  <2>2. /\ t \in arrived /\ t \in Transfer /\ arrived' = arrived
        /\ Booked(t) = 0 /\ Booked(t)' = 1
        /\ \A s \in Transfer \ {t} : Booked(s)' = Booked(s)
    BY <1>3, <2>1, PersistBooks DEF Persist, bank
  <2>3. bookedNow' = [bookedNow EXCEPT ![t] = 1]
    BY <2>2
  <2> QED
    BY <2>2, <2>3 DEF Abstract!Book
<1>4. CASE UNCHANGED vars
  BY <1>1, <1>4 DEF vars, books
<1>5. CASE (\E p \in Process : Lookup(p) \/ Reconcile(p) \/ Rejected(p) \/ Fail(p))
           \/ Tick \/ (\E w \in Worker, t \in Transfer : Deliver(w, t))
           \/ StartJob \/ (\E t \in Transfer : Examine(t)) \/ Secondary \/ FetchFails
           \/ Crash \/ Restart
  <2>1. UNCHANGED books /\ arrived' = arrived
    BY <1>5 DEF Lookup, Reconcile, Rejected, Fail, Tick, Deliver, StartJob, Examine,
                Secondary, FetchFails, Crash, Restart, bank
  <2> QED
    BY <1>1, <2>1
<1> QED
  BY <1>2, <1>3, <1>4, <1>5 DEF Next, JobStep, Request, Process, Abstract!Next

(* Ingest implements the safety part of Booking: each transfer is booked   *)
(* in one step, after it arrived, once.                                    *)
THEOREM Implements == ASSUME SameReference PROVE Spec => Abstract!Safety
<1>1. Init => Abstract!Init
  BY DEF Init, Abstract!Init, Booked
<1>2. IInv /\ [Next]_vars => [Abstract!Next]_(Abstract!vars)
  BY StepImplements
<1> QED
  BY <1>1, <1>2, Invariant, PTL DEF Spec, Abstract!Safety
=============================================================================
