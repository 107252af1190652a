------------------------------ MODULE RollupTx ------------------------------
(***************************************************************************)
(* One prisma.$transaction, statement by statement.  Every transaction     *)
(* that moves money (applyReconEffects, consumeCreditForUnit in apply.ts)  *)
(* updates charge rows one by one and then calls recomputeUnitRollups: two *)
(* aggregates and the update of the unit row.  Module Ledger takes what    *)
(* such a transaction reads, writes and commits as a step each; here every *)
(* statement is one.  PostgreSQL's default isolation, READ COMMITTED, is   *)
(* what the code gets: a statement sees what was committed before it began,*)
(* and a row that a transaction has updated is locked until it ends.       *)
(*                                                                         *)
(* A sum over the rows of a unit is abstracted to the set of transactions  *)
(* whose writes it includes: the aggregate is right when it includes all   *)
(* that are committed.  A row that a transaction inserts is nobody else's, *)
(* and is on no path: that of a bill that finds no credit is empty.        *)
(***************************************************************************)
EXTENDS Naturals, Sequences

CONSTANTS
  Tx,      \* transactions
  Unit,    \* units
  UnitOf,  \* the unit of each transaction
  Row,     \* charge rows that exist before the transactions
  Path     \* the rows each transaction updates, in its order

ASSUME TxAssumption ==
  /\ UnitOf \in [Tx -> Unit]
  /\ Path \in [Tx -> Seq(Row)]

VARIABLES
  pc,         \* the next statement of each transaction
  taken,      \* how many rows of its path it has updated, and so locked
  sum,        \* what its aggregates have returned
  committed,  \* the transactions that have committed
  last,       \* history: the one that last wrote each unit row, if any
  rollup      \* balanceKobo and creditBalanceKobo of each unit row

vars == <<pc, taken, sum, committed, last, rollup>>

Init ==
  /\ pc = [t \in Tx |-> "ready"]
  /\ taken = [t \in Tx |-> 0]
  /\ sum = [t \in Tx |-> [balance |-> {}, credit |-> {}]]
  /\ committed = {}
  /\ last = [u \in Unit |-> {}]
  /\ rollup = [u \in Unit |-> [balance |-> {}, credit |-> {}]]
-----------------------------------------------------------------------------
Active(t) == pc[t] \notin {"ready", "done"}

Step(t, from, to) == pc[t] = from /\ pc' = [pc EXCEPT ![t] = to]

Of(u) == {t \in committed : UnitOf[t] = u}

(* What a statement of t sees of its unit's rows: what is committed, and   *)
(* its own writes.                                                         *)
Visible(t) == Of(UnitOf[t]) \cup {t}

Holds(t, row) == \E k \in 1 .. taken[t] : Path[t][k] = row

Begin(t) ==
  /\ Step(t, "ready", "charges")
  /\ UNCHANGED <<taken, sum, committed, last, rollup>>

\* Mutant of NextRow: the newest charge of each list comes first.
NewestRowFirst(t) == IF taken[t] = 0 THEN Path[t][Len(Path[t])] ELSE Path[t][taken[t]]

(* The row the next tx.charge.update of t writes.                          *)
NextRow(t) == Path[t][taken[t] + 1]

Free(t, row) == \A s \in Tx \ {t} : ~Holds(s, row)

UpdateCharge(t) ==
  /\ pc[t] = "charges" /\ taken[t] < Len(Path[t])
  /\ Free(t, NextRow(t))
  /\ taken' = [taken EXCEPT ![t] = @ + 1]
  /\ UNCHANGED <<pc, sum, committed, last, rollup>>

\* Mutant of ChargesDone: the aggregates run before the first update.
ChargesNotAwaited(t) == TRUE

ChargesDone(t) == taken[t] = Len(Path[t])

(* recomputeUnitRollups.  Both aggregates are awaited together, but one    *)
(* connection serves them one after the other.                             *)
AggregateCharges(t) ==
  /\ ChargesDone(t)
  /\ Step(t, "charges", "credits")
  /\ sum' = [sum EXCEPT ![t].balance = Visible(t)]
  /\ UNCHANGED <<taken, committed, last, rollup>>

AggregateCredits(t) ==
  /\ Step(t, "credits", "unit")
  /\ sum' = [sum EXCEPT ![t].credit = Visible(t)]
  /\ UNCHANGED <<taken, committed, last, rollup>>

(* The update of the unit row waits for its lock.  The values it writes    *)
(* are parameters: they are not computed again once the lock is there.     *)
UnitRowFree(t) == \A s \in Tx \ {t} : ~(pc[s] = "commit" /\ UnitOf[s] = UnitOf[t])

UpdateUnit(t) ==
  /\ UnitRowFree(t)
  /\ Step(t, "unit", "commit")
  /\ UNCHANGED <<taken, sum, committed, last, rollup>>

Commit(t) ==
  /\ Step(t, "commit", "done")
  /\ committed' = committed \cup {t}
  /\ last' = [last EXCEPT ![UnitOf[t]] = {t}]
  /\ rollup' = [rollup EXCEPT ![UnitOf[t]] = sum[t]]
  /\ taken' = [taken EXCEPT ![t] = 0]
  /\ UNCHANGED sum

(* An error, a timeout or a crash; the request may come again.             *)
Rollback(t) ==
  /\ Active(t)
  /\ pc' = [pc EXCEPT ![t] = "ready"]
  /\ taken' = [taken EXCEPT ![t] = 0]
  /\ UNCHANGED <<sum, committed, last, rollup>>

Next == \E t \in Tx :
  \/ Begin(t) \/ UpdateCharge(t) \/ AggregateCharges(t) \/ AggregateCredits(t)
  \/ UpdateUnit(t) \/ Commit(t) \/ Rollback(t)

Spec == Init /\ [][Next]_vars
-----------------------------------------------------------------------------
TypeOK ==
  /\ pc \in [Tx -> {"ready", "charges", "credits", "unit", "commit", "done"}]
  /\ taken \in [Tx -> Nat] /\ \A t \in Tx : taken[t] <= Len(Path[t])
  /\ sum \in [Tx -> [balance : SUBSET Tx, credit : SUBSET Tx]]
  /\ committed \subseteq Tx
  /\ last \in [Unit -> SUBSET Tx]
  /\ rollup \in [Unit -> [balance : SUBSET Tx, credit : SUBSET Tx]]

(* Transactions that update no charge row in common.                       *)
Strangers(s, t) ==
  s # t /\ \A j \in 1 .. Len(Path[s]), k \in 1 .. Len(Path[t]) : Path[s][j] # Path[t][k]

(* What is committed for the unit and its row does not count.              *)
Missed(u) == (Of(u) \ rollup[u].balance) \cup (Of(u) \ rollup[u].credit)

(* How far recomputeUnitRollups (apply.ts 15-39) can be relied upon when   *)
(* several transactions move money of a unit, roll back and wait: its row  *)
(* counts nothing that is not committed, and everything that is - but for  *)
(* transactions that share no charge row with the one that wrote it last,  *)
(* and could so go beside it.  The row locks on charges do this, and       *)
(* nothing else does: the unit row is locked after the sums are taken.     *)
OnlyStrangersAreMissed ==
  \A u \in Unit :
    /\ rollup[u].balance \subseteq Of(u) /\ rollup[u].credit \subseteq Of(u)
    /\ \A t \in last[u], s \in Missed(u) : Strangers(s, t)

(* Some transaction in progress can take its next step: they do not all    *)
(* wait for each other's rows (orderBy in consumeCreditForUnit and         *)
(* sortCharges give the rows one order).                                   *)
Waits(t) ==
  \/ pc[t] = "charges" /\ taken[t] < Len(Path[t]) /\ ~Free(t, NextRow(t))
  \/ pc[t] = "unit" /\ ~UnitRowFree(t)

NoDeadlock == (\E t \in Tx : Active(t)) => \E t \in Tx : Active(t) /\ ~Waits(t)

(* All transactions take rows in one order: that of the due dates.         *)
OneOrder ==
  \E n \in Nat : \E rank \in [Row -> 0 .. n] :
    \A t \in Tx : \A j, k \in 1 .. Len(Path[t]) :
      j < k => rank[Path[t][j]] < rank[Path[t][k]]

(* Why it is so: row locks exclude each other, so of transactions that are *)
(* no strangers at most one is past its last charge row, and what it has   *)
(* summed of the others stays true until it commits.                       *)
LocksInv == \A s, t \in Tx : s # t =>
  \A j \in 1 .. taken[s], k \in 1 .. taken[t] : Path[s][j] # Path[t][k]

Counts(t, rows) ==
  /\ rows \subseteq Visible(t)
  /\ \A s \in Visible(t) \ rows : Strangers(s, t)

PastInv == \A t \in Tx :
  /\ pc[t] \in {"credits", "unit", "commit"} =>
       taken[t] = Len(Path[t]) /\ Counts(t, sum[t].balance)
  /\ pc[t] \in {"unit", "commit"} => Counts(t, sum[t].credit)
  /\ pc[t] \in {"ready", "done"} => taken[t] = 0
IInv == TypeOK /\ LocksInv /\ PastInv /\ OnlyStrangersAreMissed
=============================================================================
