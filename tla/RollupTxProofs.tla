--------------------------- MODULE RollupTxProofs ---------------------------
(***************************************************************************)
(* What the rollup of a unit may miss, for any number of transactions,     *)
(* units and charges; and some transaction can always go on, if all take   *)
(* rows in one order.                                                      *)
(***************************************************************************)
EXTENDS RollupTx, WellFoundedInduction, TLAPS

Past(t) == pc[t] \in {"credits", "unit", "commit"}

(* Two transactions that share a row are not both past their last one.     *)
LEMMA OnePast ==
  ASSUME IInv, NEW s \in Tx, NEW t \in Tx, s # t, Past(s), Past(t)
  PROVE  Strangers(s, t)
<1>1. taken[s] = Len(Path[s]) /\ taken[t] = Len(Path[t])
  BY DEF Past, IInv, PastInv
<1> QED
  BY <1>1 DEF IInv, LocksInv, Strangers

(* At first no transaction has begun and no row is locked.                 *)
LEMMA InitInv == Init => IInv
<1> SUFFICES ASSUME Init PROVE IInv
  OBVIOUS
<1> USE TxAssumption
<1>1. TypeOK
  <2>1. \A t \in Tx : Len(Path[t]) \in Nat
    OBVIOUS
  <2> QED
    BY <2>1 DEF Init, TypeOK
<1>2. LocksInv
  BY DEF Init, LocksInv
<1>3. PastInv
  BY DEF Init, PastInv
<1>4. OnlyStrangersAreMissed
  BY DEF Init, OnlyStrangersAreMissed, Missed, Of
<1> QED
  BY <1>1, <1>2, <1>3, <1>4 DEF IInv

(* Steps that neither lock nor commit nor sum.                             *)
LEMMA QuietInv ==
  ASSUME IInv, NEW t \in Tx, Begin(t) \/ UpdateUnit(t)
  PROVE  IInv'
<1> USE TxAssumption
<1>1. /\ UNCHANGED <<taken, sum, committed, last, rollup>>
      /\ \/ pc[t] = "ready" /\ pc' = [pc EXCEPT ![t] = "charges"]
         \/ pc[t] = "unit" /\ pc' = [pc EXCEPT ![t] = "commit"]
  BY DEF Begin, UpdateUnit, Step
<1>2. TypeOK'
  BY <1>1 DEF IInv, TypeOK
<1>3. LocksInv' /\ OnlyStrangersAreMissed'
  BY <1>1 DEF IInv, LocksInv, OnlyStrangersAreMissed, Missed, Of
<1>4. PastInv'
  BY <1>1 DEF IInv, PastInv, TypeOK, Counts, Visible, Of
<1> QED
  BY <1>2, <1>3, <1>4 DEF IInv

(* A row is locked only if nobody else holds it.                           *)
LEMMA UpdateChargeInv ==
  ASSUME IInv, NEW t \in Tx, UpdateCharge(t)
  PROVE  IInv'
<1> USE TxAssumption
<1>0. Len(Path[t]) \in Nat /\ taken[t] \in Nat /\ taken[t] < Len(Path[t])
  BY DEF UpdateCharge, IInv, TypeOK
<1>1. /\ UNCHANGED <<pc, sum, committed, last, rollup>>
      /\ pc[t] = "charges"
      /\ taken' = [taken EXCEPT ![t] = taken[t] + 1]
  BY DEF UpdateCharge
<1>2. TypeOK'
  BY <1>0, <1>1 DEF IInv, TypeOK
<1>3. LocksInv'
  <2> SUFFICES ASSUME NEW r \in Tx, NEW s \in Tx, r # s,
                      NEW j \in 1 .. taken'[r], NEW k \in 1 .. taken'[s]
               PROVE  Path[r][j] # Path[s][k]
    BY DEF LocksInv
  <2>1. \A q \in Tx \ {t} : ~Holds(q, Path[t][taken[t] + 1])
    BY DEF UpdateCharge, Free, NextRow
  <2>2. CASE r = t /\ j = taken[t] + 1
    <3>1. taken'[s] = taken[s]
      BY <1>1, <2>2 DEF IInv, TypeOK
    <3> QED
      BY <2>1, <2>2, <3>1 DEF Holds
  <2>3. CASE s = t /\ k = taken[t] + 1
    <3>1. taken'[r] = taken[r]
      BY <1>1, <2>3 DEF IInv, TypeOK
    <3> QED
      BY <2>1, <2>3, <3>1 DEF Holds
  <2>4. CASE ~(r = t /\ j = taken[t] + 1) /\ ~(s = t /\ k = taken[t] + 1)
    <3>1. taken[r] \in Nat /\ taken[s] \in Nat
      BY DEF IInv, TypeOK
    <3>2. j \in 1 .. taken[r] /\ k \in 1 .. taken[s]
      BY <1>0, <1>1, <2>4, <3>1 DEF IInv, TypeOK
    <3> QED
      BY <3>2 DEF IInv, LocksInv
  <2> QED
    BY <2>2, <2>3, <2>4
<1>4. OnlyStrangersAreMissed'
  BY <1>1 DEF IInv, OnlyStrangersAreMissed, Missed, Of
<1>5. PastInv'
  BY <1>1 DEF IInv, PastInv, TypeOK, Counts, Visible, Of
<1> QED
  BY <1>2, <1>3, <1>4, <1>5 DEF IInv

(* An aggregate returns what is committed and the transaction's own.       *)
LEMMA AggregateInv ==
  ASSUME IInv, NEW t \in Tx, AggregateCharges(t) \/ AggregateCredits(t)
  PROVE  IInv'
<1> USE TxAssumption
<1>1. UNCHANGED <<taken, committed, last, rollup>>
  BY DEF AggregateCharges, AggregateCredits
<1>2. Visible(t) \subseteq Tx
  BY DEF IInv, TypeOK, Visible, Of
<1>3. TypeOK'
  <2>1. pc' \in [Tx -> {"ready", "charges", "credits", "unit", "commit", "done"}]
    BY DEF AggregateCharges, AggregateCredits, Step, IInv, TypeOK
  <2>2. sum' \in [Tx -> [balance : SUBSET Tx, credit : SUBSET Tx]]
    <3>1. /\ sum[t].balance \in SUBSET Tx /\ sum[t].credit \in SUBSET Tx
          /\ sum \in [Tx -> [balance : SUBSET Tx, credit : SUBSET Tx]]
      BY DEF IInv, TypeOK
    <3> DEFINE sums   == [balance : SUBSET Tx, credit : SUBSET Tx]
               summed == IF AggregateCharges(t) THEN [sum[t] EXCEPT !.balance = Visible(t)]
                                                ELSE [sum[t] EXCEPT !.credit = Visible(t)]
    <3>2. sum' = [sum EXCEPT ![t] = summed]
      BY DEF AggregateCharges, AggregateCredits
    <3>3. summed \in sums
      BY <1>2, <3>1
    <3> HIDE DEF summed, sums
    <3>4. sum' \in [Tx -> sums]
      BY <3>1, <3>2, <3>3 DEF sums
    <3> QED
      BY <3>4 DEF sums
  <2> QED
    BY <1>1, <2>1, <2>2 DEF IInv, TypeOK
<1>4. LocksInv' /\ OnlyStrangersAreMissed'
  <2>1. LocksInv'
    BY <1>1 DEF IInv, LocksInv
  <2>2. \A u \in Unit : Of(u)' = Of(u) /\ Missed(u)' = Missed(u)
    BY <1>1 DEF Missed, Of
  <2>3. OnlyStrangersAreMissed'
    BY <1>1, <2>2 DEF IInv, OnlyStrangersAreMissed
  <2> QED
    BY <2>1, <2>3
<1>5. /\ \A s \in Tx : \A rows : Counts(s, rows)' <=> Counts(s, rows)
      /\ Counts(t, Visible(t))
  BY <1>1 DEF Counts, Visible, Of
<1>6. PastInv'
  <2>1. CASE AggregateCharges(t)
    <3>1. /\ taken[t] = Len(Path[t])
          /\ pc' = [pc EXCEPT ![t] = "credits"]
          /\ sum' = [sum EXCEPT ![t].balance = Visible(t)]
      BY <2>1 DEF AggregateCharges, ChargesDone, Step
    <3> QED
      BY <1>1, <1>5, <3>1 DEF IInv, PastInv, TypeOK
  <2>2. CASE AggregateCredits(t)
    <3>1. /\ pc[t] = "credits"
          /\ pc' = [pc EXCEPT ![t] = "unit"]
          /\ sum' = [sum EXCEPT ![t].credit = Visible(t)]
      BY <2>2 DEF AggregateCredits, Step
    <3> QED
      BY <1>1, <1>5, <3>1 DEF IInv, PastInv, TypeOK
  <2> QED
    BY <2>1, <2>2
<1> QED
  BY <1>3, <1>4, <1>6 DEF IInv

(* A commit makes the rollup what the transaction has counted, and the     *)
(* others that have counted already are strangers to it.                   *)
LEMMA CommitInv ==
  ASSUME IInv, NEW t \in Tx, Commit(t)
  PROVE  IInv'
<1> USE TxAssumption
<1>1. /\ pc[t] = "commit" /\ pc' = [pc EXCEPT ![t] = "done"]
      /\ committed' = committed \cup {t}
      /\ last' = [last EXCEPT ![UnitOf[t]] = {t}]
      /\ rollup' = [rollup EXCEPT ![UnitOf[t]] = sum[t]]
      /\ taken' = [taken EXCEPT ![t] = 0]
      /\ sum' = sum
  BY DEF Commit, Step
<1>2. /\ taken[t] = Len(Path[t])
      /\ Counts(t, sum[t].balance) /\ Counts(t, sum[t].credit)
  BY <1>1 DEF IInv, PastInv
<1>3. TypeOK'
  <2>1. \A s \in Tx : Len(Path[s]) \in Nat
    OBVIOUS
  <2>2. taken' \in [Tx -> Nat] /\ \A s \in Tx : taken'[s] <= Len(Path[s])
    BY <1>1, <2>1 DEF IInv, TypeOK
  <2>3. rollup' \in [Unit -> [balance : SUBSET Tx, credit : SUBSET Tx]]
    BY <1>1 DEF IInv, TypeOK
  <2>4. last' \in [Unit -> SUBSET Tx]
    BY <1>1 DEF IInv, TypeOK
  <2> QED
    BY <1>1, <2>2, <2>3, <2>4 DEF IInv, TypeOK
<1>4. LocksInv'
  <2> SUFFICES ASSUME NEW r \in Tx, NEW s \in Tx, r # s,
                      NEW j \in 1 .. taken'[r], NEW k \in 1 .. taken'[s]
               PROVE  Path[r][j] # Path[s][k]
    BY DEF LocksInv
  <2>1. r # t /\ s # t
    BY <1>1 DEF IInv, TypeOK
  <2> QED
    BY <1>1, <2>1 DEF IInv, LocksInv, TypeOK
<1>5. /\ \A u \in Unit \ {UnitOf[t]} : Of(u)' = Of(u)
      /\ Of(UnitOf[t])' = Visible(t)
  BY <1>1 DEF Of, Visible
<1>6. OnlyStrangersAreMissed'
  <2> SUFFICES ASSUME NEW u \in Unit
               PROVE  /\ rollup'[u].balance \subseteq Of(u)'
                      /\ rollup'[u].credit \subseteq Of(u)'
                      /\ \A q \in last'[u], s \in Missed(u)' : Strangers(s, q)
    BY DEF OnlyStrangersAreMissed, Strangers
  <2>1. CASE u = UnitOf[t]
    <3>1. rollup'[u] = sum[t] /\ last'[u] = {t} /\ Of(u)' = Visible(t)
      BY <1>1, <1>5, <2>1 DEF IInv, TypeOK
    <3> QED
      BY <1>2, <3>1 DEF Counts, Missed
  <2>2. CASE u # UnitOf[t]
    <3>1. rollup'[u] = rollup[u] /\ last'[u] = last[u] /\ Of(u)' = Of(u)
      BY <1>1, <1>5, <2>2 DEF IInv, TypeOK
    <3> QED
      BY <3>1 DEF IInv, OnlyStrangersAreMissed, Missed
  <2> QED
    BY <2>1, <2>2
<1>7. PastInv'
  <2>1. ASSUME NEW s \in Tx, s # t, NEW rows, Past(s), Counts(s, rows)
        PROVE  Counts(s, rows)'
    <3>1. Strangers(t, s)
      BY <1>1, <2>1, OnePast DEF Past
    <3>2. Visible(s) \subseteq Visible(s)' /\ Visible(s)' \subseteq Visible(s) \cup {t}
      BY <1>1 DEF Visible, Of
    <3> QED
      BY <2>1, <3>1, <3>2 DEF Counts, Strangers
  <2>2. ASSUME NEW s \in Tx
        PROVE  /\ Past(s)' => taken'[s] = Len(Path[s]) /\ Counts(s, sum[s].balance)'
               /\ pc'[s] \in {"unit", "commit"} => Counts(s, sum[s].credit)'
               /\ pc'[s] \in {"ready", "done"} => taken'[s] = 0
    <3>1. CASE s = t
      BY <1>1, <3>1 DEF Past, IInv, TypeOK
    <3>2. CASE s # t
      <4>1. pc'[s] = pc[s] /\ taken'[s] = taken[s]
        BY <1>1, <3>2 DEF IInv, TypeOK
      <4>2. /\ Past(s) => taken[s] = Len(Path[s]) /\ Counts(s, sum[s].balance)
            /\ pc[s] \in {"unit", "commit"} => Past(s) /\ Counts(s, sum[s].credit)
            /\ pc[s] \in {"ready", "done"} => taken[s] = 0
        BY DEF IInv, PastInv, Past
      <4>3. Past(s)' <=> Past(s)
        BY <4>1 DEF Past
      <4> QED
        BY <1>1, <2>1, <3>2, <4>1, <4>2, <4>3
    <3> QED
      BY <3>1, <3>2
  <2> QED
    BY <1>1, <2>2 DEF PastInv, Past, Counts, Visible, Of, Strangers
<1> QED
  BY <1>3, <1>4, <1>6, <1>7 DEF IInv

(* A rollback gives the locks back and changes no row.                     *)
LEMMA RollbackInv ==
  ASSUME IInv, NEW t \in Tx, Rollback(t)
  PROVE  IInv'
<1> USE TxAssumption
<1>1. /\ UNCHANGED <<sum, committed, last, rollup>>
      /\ pc' = [pc EXCEPT ![t] = "ready"] /\ taken' = [taken EXCEPT ![t] = 0]
  BY DEF Rollback
<1>2. \A s \in Tx : Len(Path[s]) \in Nat
  OBVIOUS
<1>3. TypeOK'
  <2>1. taken' \in [Tx -> Nat] /\ \A s \in Tx : taken'[s] <= Len(Path[s])
    BY <1>1, <1>2 DEF IInv, TypeOK
  <2> QED
    BY <1>1, <2>1 DEF IInv, TypeOK
<1>4. LocksInv'
  <2> SUFFICES ASSUME NEW r \in Tx, NEW s \in Tx, r # s,
                      NEW j \in 1 .. taken'[r], NEW k \in 1 .. taken'[s]
               PROVE  Path[r][j] # Path[s][k]
    BY DEF LocksInv
  <2>1. r # t /\ s # t
    BY <1>1 DEF IInv, TypeOK
  <2> QED
    BY <1>1, <2>1 DEF IInv, LocksInv, TypeOK
<1>5. OnlyStrangersAreMissed'
  BY <1>1 DEF IInv, OnlyStrangersAreMissed, Missed, Of
<1>6. PastInv'
  <2>1. \A s \in Tx : \A rows : Counts(s, rows)' <=> Counts(s, rows)
    BY <1>1 DEF Counts, Visible, Of
  <2> QED
    BY <1>1, <2>1 DEF IInv, PastInv, TypeOK
<1> QED
  BY <1>3, <1>4, <1>5, <1>6 DEF IInv

(* IInv is inductive.                                                      *)
LEMMA Inductive == ASSUME IInv, [Next]_vars PROVE IInv'
<1>1. CASE Next
  BY <1>1, QuietInv, UpdateChargeInv, AggregateInv, CommitInv, RollbackInv DEF Next
<1>2. CASE UNCHANGED vars
  BY <1>2 DEF vars, IInv, TypeOK, LocksInv, PastInv, OnlyStrangersAreMissed,
              Missed, Counts, Visible, Of
<1> QED
  BY <1>1, <1>2

(* What a unit row misses under READ COMMITTED, for any transactions,      *)
(* whatever rows they share and wherever they roll back: only transactions *)
(* that update no charge row that the last writer of the row updates.      *)
THEOREM OnlyStrangersAreEverMissed == Spec => []OnlyStrangersAreMissed
<1>1. Init => IInv
  BY InitInv
<1>2. IInv /\ [Next]_vars => IInv'
  BY Inductive
<1>3. IInv => OnlyStrangersAreMissed
  BY DEF IInv
<1> QED
  BY <1>1, <1>2, <1>3, PTL DEF Spec

-----------------------------------------------------------------------------
\* No deadlock.

(* A set of numbers has a smallest one.                                    *)
LEMMA Smallest ==
  ASSUME NEW S \in SUBSET Nat, S # {}
  PROVE  \E x \in S : \A y \in S : x <= y
<1> DEFINE R == OpToRel(<, Nat)
<1>1. IsWellFoundedOn(R, Nat)
  BY NatLessThanWellFounded DEF R
<1> HIDE DEF R
<1>2. PICK x \in S : \A y \in S : ~ (<<y, x>> \in R)
  BY <1>1, WFMin
<1>3. \A y \in S : ~ (y < x)
  BY <1>2 DEF R, OpToRel
<1> QED
  BY <1>3

(* A transaction that holds rows is in progress.                           *)
HoldersInv ==
  /\ pc \in [Tx -> {"ready", "charges", "credits", "unit", "commit", "done"}]
  /\ taken \in [Tx -> Nat]
  /\ \A t \in Tx : taken[t] <= Len(Path[t])
  /\ \A t \in Tx : pc[t] \in {"ready", "done"} => taken[t] = 0

(* It stays so: a rollback and a commit release what was taken.            *)
LEMMA HoldersNext == ASSUME HoldersInv, [Next]_vars PROVE HoldersInv'
<1>0. \A t \in Tx : Len(Path[t]) \in Nat
  BY TxAssumption
<1>1. ASSUME NEW t \in Tx, Begin(t) \/ AggregateCharges(t) \/ AggregateCredits(t) \/ UpdateUnit(t)
      PROVE  HoldersInv'
  BY <1>1 DEF HoldersInv, Begin, AggregateCharges, AggregateCredits, UpdateUnit, Step
<1>2. ASSUME NEW t \in Tx, UpdateCharge(t) PROVE HoldersInv'
  BY <1>0, <1>2 DEF HoldersInv, UpdateCharge
<1>3. ASSUME NEW t \in Tx, Commit(t) \/ Rollback(t) PROVE HoldersInv'
  <2>1. /\ taken' = [taken EXCEPT ![t] = 0]
        /\ \E to \in {"done", "ready"} : pc' = [pc EXCEPT ![t] = to]
    BY <1>3 DEF Commit, Rollback, Step
  <2> QED
    BY <1>0, <2>1 DEF HoldersInv
<1>4. CASE UNCHANGED vars
  BY <1>4 DEF HoldersInv, vars
<1> QED
  BY <1>1, <1>2, <1>3, <1>4 DEF Next

(* Of the transactions that wait for a charge row, the one whose row comes *)
(* last in the order waits for one that goes on: that one's next row would *)
(* come later still.                                                       *)
LEMMA SomeoneGoesOn == ASSUME OneOrder, HoldersInv PROVE NoDeadlock
<1> SUFFICES ASSUME NEW first \in Tx, Active(first), \A t \in Tx : Active(t) => Waits(t)
             PROVE  FALSE
  BY DEF NoDeadlock
<1>1. \A t \in Tx : pc[t] # "commit"
  BY DEF Active, Waits
<1>2. \A t \in Tx : Active(t) =>
        pc[t] = "charges" /\ taken[t] < Len(Path[t]) /\ ~Free(t, NextRow(t))
  BY <1>1 DEF Waits, UnitRowFree
<1>3. PICK n \in Nat : \E rank \in [Row -> 0 .. n] :
        \A t \in Tx : \A j, k \in 1 .. Len(Path[t]) :
          j < k => rank[Path[t][j]] < rank[Path[t][k]]
  BY DEF OneOrder
<1>4. PICK rank \in [Row -> 0 .. n] :
        \A t \in Tx : \A j, k \in 1 .. Len(Path[t]) :
          j < k => rank[Path[t][j]] < rank[Path[t][k]]
  BY <1>3
<1>5. ASSUME NEW t \in Tx
      PROVE  /\ Len(Path[t]) \in Nat /\ taken[t] \in Nat
             /\ \A k \in 1 .. Len(Path[t]) : rank[Path[t][k]] \in 0 .. n
             /\ Active(t) => taken[t] + 1 \in 1 .. Len(Path[t])
  <2>1. Path[t] \in Seq(Row) /\ taken[t] \in Nat
    BY TxAssumption DEF HoldersInv
  <2> QED
    BY <1>2, <2>1
<1> DEFINE left(t) == n - rank[NextRow(t)]
           Lefts   == {left(t) : t \in {s \in Tx : Active(s)}}
<1>6. Lefts \in SUBSET Nat /\ Lefts # {}
  BY <1>5 DEF NextRow
<1>7. PICK x \in Lefts : \A y \in Lefts : x <= y
  <2> HIDE DEF Lefts
  <2> QED
    BY <1>6, Smallest
<1>8. PICK t \in Tx : Active(t) /\ x = left(t)
  BY <1>7
<1>9. PICK s \in Tx \ {t} : Holds(s, NextRow(t))
  BY <1>2, <1>8 DEF Free
<1>10. PICK k \in 1 .. taken[s] : Path[s][k] = NextRow(t)
  BY <1>9 DEF Holds
<1>11. Active(s) /\ taken[s] < Len(Path[s])
  BY <1>2, <1>5, <1>10 DEF HoldersInv, Active
<1>12. rank[NextRow(t)] < rank[NextRow(s)]
  <2>1. k \in 1 .. Len(Path[s]) /\ taken[s] + 1 \in 1 .. Len(Path[s]) /\ k < taken[s] + 1
    BY <1>5, <1>10, <1>11
  <2>2. rank[Path[s][k]] < rank[Path[s][taken[s] + 1]]
    BY <1>4, <2>1
  <2> QED
    BY <1>10, <2>2 DEF NextRow
<1>13. left(s) < left(t) /\ left(s) \in Lefts
  <2>1. rank[NextRow(t)] \in 0 .. n /\ rank[NextRow(s)] \in 0 .. n
    BY <1>5, <1>8, <1>11 DEF NextRow
  <2> QED
    BY <1>11, <1>12, <2>1
<1>14. left(t) <= left(s)
  <2> HIDE DEF Lefts
  <2> QED
    BY <1>7, <1>8, <1>13
<1> QED
  <2>1. left(s) \in Int /\ left(t) \in Int
    <3>1. rank[NextRow(t)] \in 0 .. n /\ rank[NextRow(s)] \in 0 .. n
      BY <1>5, <1>8, <1>11 DEF NextRow
    <3> QED
      BY <3>1
  <2> HIDE DEF left
  <2> QED
    BY <1>13, <1>14, <2>1

(* Transactions in progress never all wait for each other's rows, however  *)
(* many there are and whatever rolls back, as long as each takes its       *)
(* charges in the order of their due dates (orderBy in                     *)
(* consumeCreditForUnit, sortCharges).                                     *)
THEOREM NeverADeadlock == ASSUME OneOrder PROVE Spec => []NoDeadlock
<1>1. Init => HoldersInv
  BY TxAssumption DEF Init, HoldersInv
<1>2. HoldersInv /\ [Next]_vars => HoldersInv'
  BY HoldersNext
<1>3. HoldersInv => NoDeadlock
  BY SomeoneGoesOn
<1> QED
  BY <1>1, <1>2, <1>3, PTL DEF Spec
=============================================================================
