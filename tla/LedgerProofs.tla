---------------------------- MODULE LedgerProofs ----------------------------
(***************************************************************************)
(* Proofs about the books of the estate (Ledger), from what EngineProofs   *)
(* says of sums and of the engine.  In order:                              *)
(*                                                                         *)
(*  - what each operation on the tables does to each of them;              *)
(*  - BooksInv, which every interleaving of any number of handlers keeps;  *)
(*  - ReviewInv and MoneyInv, which hold while one manager at a time       *)
(*    decides on exceptions;                                               *)
(*  - SerialInv, which holds while requests are served one by one.         *)
(*                                                                         *)
(* MoneyInv and SerialInv both extend ReviewInv, which extends BooksInv.   *)
(* The hypotheses are needed: the runs ledger_lost_update and              *)
(* ledger_stale_rollup show what a second handler does to the charges and  *)
(* to the rows of the units.                                               *)
(***************************************************************************)
EXTENDS ReadModels, EngineProofs

(* A unit has finitely many charges.                                       *)
LEMMA ChargesAreFinite == IsFiniteSet(Charge) /\ \A S \in SUBSET Charge : IsFiniteSet(S)
<1>1. IsFiniteSet(Bill) /\ IsFiniteSet(Unit)
  BY LedgerAssumption
<1>2. IsFiniteSet(Charge)
  BY <1>1, FS_Product DEF Charge
<1> QED
  BY <1>2, FS_Subset

(* The row of the unit shows the sums of its other rows.                   *)
Balanced(d, u) == d.rollup[u] = Sums(d, u)

UnitRow == [balance : Int, credit : Int]

(* The balances of the rows are numbers.                                   *)
LEMMA TotalsType ==
  ASSUME NEW D \in SUBSET Charge, NEW d \in Tables(D)
  PROVE  /\ \A u \in Unit : SumOver(d.outstanding, ChargesOf(d, u)) \in Int
         /\ \A r \in Ref : SumOver(d.paid[r], Charge) \in Nat
<1>1. d.outstanding \in [D -> Int] /\ d.paid \in [Ref -> [Charge -> Nat]]
  BY DEF Tables
<1>2. ASSUME NEW u \in Unit PROVE SumOver(d.outstanding, ChargesOf(d, u)) \in Int
  <2>1. ChargesOf(d, u) \in SUBSET Charge /\ Numbers(d.outstanding, ChargesOf(d, u))
    BY <1>1 DEF ChargesOf, Numbers
  <2> QED
    BY <2>1, ChargesAreFinite, SumType
<1>3. ASSUME NEW r \in Ref PROVE SumOver(d.paid[r], Charge) \in Nat
  <2>1. \A c \in Charge : d.paid[r][c] \in Nat
    BY <1>1
  <2> QED
    BY <2>1, ChargesAreFinite, SumNat
<1> QED
  BY <1>2, <1>3

(* recomputeUnitRollups writes the row of its unit, and nothing else.      *)
LEMMA RecomputeUnitRollupsFacts ==
  ASSUME NEW D \in SUBSET Charge, NEW d \in Tables(D), NEW u \in Unit, NEW sums \in UnitRow
  PROVE  LET e == RecomputeUnitRollups(d, u, sums)
         IN  /\ e \in Tables(D)
             /\ e.bills = d.bills /\ e.outstanding = d.outstanding /\ e.added = d.added
             /\ e.used = d.used /\ e.payment = d.payment /\ e.paid = d.paid
             /\ e.exception = d.exception /\ e.covered = d.covered /\ e.credited = d.credited
             /\ e.rollup[u] = sums
             /\ \A v \in Unit \ {u} : e.rollup[v] = d.rollup[v]
<1> DEFINE e == RecomputeUnitRollups(d, u, sums)
<1>1. d.rollup \in [Unit -> UnitRow]
  BY DEF Tables, UnitRow
<1>2. e = [d EXCEPT !.rollup = [d.rollup EXCEPT ![u] = sums]]
  BY DEF RecomputeUnitRollups
<1> HIDE DEF e
<1>3. [d.rollup EXCEPT ![u] = sums] \in [Unit -> UnitRow]
  BY <1>1
<1>4. /\ e \in Tables(D)
      /\ e.bills = d.bills /\ e.outstanding = d.outstanding /\ e.added = d.added
      /\ e.used = d.used /\ e.payment = d.payment /\ e.paid = d.paid
      /\ e.exception = d.exception /\ e.covered = d.covered /\ e.credited = d.credited
      /\ e.rollup = [d.rollup EXCEPT ![u] = sums]
  BY <1>2, <1>3 DEF Tables, UnitRow
<1>5. e.rollup[u] = sums /\ \A v \in Unit \ {u} : e.rollup[v] = d.rollup[v]
  BY <1>1, <1>4
<1> QED
  BY <1>4, <1>5 DEF e

SameCharges(d, e, u) ==
  /\ ChargesOf(e, u) = ChargesOf(d, u)
  /\ \A c \in ChargesOf(d, u) : e.outstanding[c] = d.outstanding[c]

(* Rows that agree on a unit's charges and credit keep its row right.      *)
LEMMA BalancedStays ==
  ASSUME NEW D \in SUBSET Charge, NEW d \in Tables(D), NEW u \in Unit, Balanced(d, u),
         NEW e, SameCharges(d, e, u),
         e.added[u] - e.used[u] = d.added[u] - d.used[u], e.rollup[u] = d.rollup[u]
  PROVE  Balanced(e, u)
<1>1. d.outstanding \in [D -> Int]
  BY DEF Tables
<1>2. ChargesOf(d, u) \in SUBSET Charge /\ Numbers(d.outstanding, ChargesOf(d, u))
  BY <1>1 DEF ChargesOf, Numbers
<1>3. \A c \in ChargesOf(d, u) : e.outstanding[c] = d.outstanding[c]
  BY DEF SameCharges
<1>4. SumOver(e.outstanding, ChargesOf(d, u)) = SumOver(d.outstanding, ChargesOf(d, u))
  BY <1>2, <1>3, ChargesAreFinite, SumCongruence
<1> QED
  BY <1>4 DEF Balanced, Sums, SameCharges
-----------------------------------------------------------------------------
(* What applyReconEffects does to each table, sums being what it writes to *)
(* the row of the unit.                                                    *)
Effects(d, r, u, result, snapshot, sums, e) ==
  LET touched == Touched(result, snapshot)
  IN  /\ e.bills = d.bills /\ e.payment = d.payment /\ e.exception = d.exception
      /\ \A c \in DOMAIN d.outstanding :
           e.outstanding[c] = IF c \in touched
                              THEN NewOutstanding(snapshot[c], result.allocs[c[1]])
                              ELSE d.outstanding[c]
      /\ \A s \in Ref, c \in Charge :
           e.paid[s][c] = IF s = r /\ c \in touched
                          THEN d.paid[s][c] + result.allocs[c[1]].amount ELSE d.paid[s][c]
      /\ \A c \in Charge :
           e.covered[c] = IF c \in touched
                          THEN d.covered[c] + result.allocs[c[1]].fromCredit ELSE d.covered[c]
      /\ \A v \in Unit :
           /\ e.used[v] = IF v = u THEN d.used[v] + Positive(result.creditApplied) ELSE d.used[v]
           /\ e.added[v] = IF v = u THEN d.added[v] + Positive(result.creditAdded) ELSE d.added[v]
      /\ \A s \in Ref :
           e.credited[s] = IF s = r THEN d.credited[s] + Positive(result.creditAdded)
                                    ELSE d.credited[s]
      /\ \A v \in Unit : Balanced(d, v) /\ (v = u => sums = Sums(e, u)) => Balanced(e, v)

(* What reconcile returns for charges of the snapshot.                     *)
IsResult(result, charges) ==
  ResultOK(result) /\ DOMAIN result.allocs \subseteq {c[1] : c \in charges}

(* addCredit adds to the credit of one unit and records from which payment *)
(* it came.                                                                *)
LEMMA AddCreditFacts ==
  ASSUME NEW D \in SUBSET Charge, NEW d \in Tables(D), NEW r \in Ref, NEW u \in Unit, NEW n \in Nat
  PROVE  LET e == AddCredit(d, r, u, n)
         IN  /\ e \in Tables(D)
             /\ e.bills = d.bills /\ e.outstanding = d.outstanding /\ e.rollup = d.rollup
             /\ e.used = d.used /\ e.payment = d.payment /\ e.paid = d.paid
             /\ e.exception = d.exception /\ e.covered = d.covered
             /\ e.added = [d.added EXCEPT ![u] = d.added[u] + n]
             /\ e.credited = [d.credited EXCEPT ![r] = d.credited[r] + n]
<1>1. d.added \in [Unit -> Nat] /\ d.credited \in [Ref -> Nat]
  BY DEF Tables
<1>2. /\ [d.added EXCEPT ![u] = d.added[u] + n] \in [Unit -> Nat]
      /\ [d.credited EXCEPT ![r] = d.credited[r] + n] \in [Ref -> Nat]
  BY <1>1
<1>3. AddCredit(d, r, u, n) = [d EXCEPT !.added = [d.added EXCEPT ![u] = d.added[u] + n],
                                        !.credited = [d.credited EXCEPT ![r] = d.credited[r] + n]]
  BY DEF AddCredit
<1> QED
  BY <1>2, <1>3 DEF Tables

(* applyReconEffects does to each table what Effects says.                 *)
LEMMA ApplyReconEffectsFacts ==
  ASSUME NEW D \in SUBSET Charge, NEW d \in Tables(D), NEW r \in Ref, NEW u \in Unit,
         NEW S, S \subseteq ChargesOf(d, u), NEW snapshot \in [S -> Int],
         NEW result, IsResult(result, S), NEW sums \in UnitRow
  PROVE  LET e == ApplyReconEffects(d, r, u, result, snapshot, sums)
         IN  e \in Tables(D) /\ Effects(d, r, u, result, snapshot, sums, e)
<1> DEFINE Alloc(c) == result.allocs[c[1]]
           touched == Touched(result, snapshot)
           outstanding == [c \in D |-> IF c \in touched
                              THEN NewOutstanding(snapshot[c], Alloc(c)) ELSE d.outstanding[c]]
           paid == [c \in Charge |-> IF c \in touched THEN d.paid[r][c] + Positive(Alloc(c).amount)
                                                       ELSE d.paid[r][c]]
           covered == [c \in Charge |-> IF c \in touched THEN d.covered[c] + Alloc(c).fromCredit
                                                       ELSE d.covered[c]]
           a == [d EXCEPT !.outstanding = outstanding, !.paid[r] = paid, !.covered = covered,
                          !.used[u] = @ + Positive(result.creditApplied)]
           w == AddCredit(a, r, u, Positive(result.creditAdded))
           effect == touched # {} \/ result.creditApplied > 0 \/ result.creditAdded > 0
           e == ApplyReconEffects(d, r, u, result, snapshot, sums)
<1>1. d.outstanding \in [D -> Int] /\ d.paid \in [Ref -> [Charge -> Nat]]
      /\ d.covered \in [Charge -> Int] /\ d.used \in [Unit -> Int] /\ d.added \in [Unit -> Nat]
      /\ d.credited \in [Ref -> Nat]
  BY DEF Tables
<1>2. \A c \in touched : c \in S /\ c \in D /\ c[2] = u /\ Alloc(c).amount \in Nat /\ Alloc(c).fromCredit \in Int
  <2>1. PICK I \in SUBSET Int : result.allocs \in [I -> Shares]
    BY DEF IsResult, ResultOK
  <2>2. ASSUME NEW c \in touched PROVE c \in S /\ Alloc(c) \in Shares
    BY <2>1, <2>2 DEF Touched
  <2> QED
    BY <1>1, <2>2 DEF Shares, ChargesOf
<1>3. Positive(result.creditApplied) \in Nat /\ Positive(result.creditAdded) \in Nat
  BY DEF IsResult, ResultOK, Positive
<1> HIDE DEF touched
<1>4. outstanding \in [D -> Int]
  BY <1>1, <1>2 DEF NewOutstanding, Positive
<1>5. paid \in [Charge -> Nat]
  BY <1>1, <1>2 DEF Positive
<1>6. covered \in [Charge -> Int]
  BY <1>1, <1>2
<1> HIDE DEF outstanding, paid, covered, Alloc
<1>7. /\ a \in Tables(D)
      /\ a.bills = d.bills /\ a.payment = d.payment /\ a.exception = d.exception
      /\ a.rollup = d.rollup /\ a.added = d.added /\ a.credited = d.credited
      /\ a.outstanding = outstanding /\ a.covered = covered
      /\ a.paid = [d.paid EXCEPT ![r] = paid]
      /\ a.used = [d.used EXCEPT ![u] = d.used[u] + Positive(result.creditApplied)]
  <2>1. a = [d EXCEPT !.outstanding = outstanding, !.paid = [d.paid EXCEPT ![r] = paid],
                      !.covered = covered,
                      !.used = [d.used EXCEPT ![u] = d.used[u] + Positive(result.creditApplied)]]
    OBVIOUS
  <2>2. /\ [d.paid EXCEPT ![r] = paid] \in [Ref -> [Charge -> Nat]]
        /\ [d.used EXCEPT ![u] = d.used[u] + Positive(result.creditApplied)] \in [Unit -> Int]
    BY <1>1, <1>3, <1>5
  <2> HIDE DEF a
  <2> QED
    BY <1>4, <1>6, <2>1, <2>2 DEF Tables
<1> HIDE DEF a
<1>8. /\ w \in Tables(D)
      /\ w.bills = d.bills /\ w.payment = d.payment /\ w.exception = d.exception
      /\ w.rollup = d.rollup /\ w.outstanding = outstanding /\ w.covered = covered
      /\ w.paid = [d.paid EXCEPT ![r] = paid]
      /\ w.used = [d.used EXCEPT ![u] = d.used[u] + Positive(result.creditApplied)]
      /\ w.added = [d.added EXCEPT ![u] = d.added[u] + Positive(result.creditAdded)]
      /\ w.credited = [d.credited EXCEPT ![r] = d.credited[r] + Positive(result.creditAdded)]
  <2> DEFINE n == Positive(result.creditAdded)
  <2>1. n \in Nat
    BY <1>3
  <2> HIDE DEF n
  <2>2. LET x == AddCredit(a, r, u, n)
        IN  /\ x \in Tables(D)
            /\ x.bills = a.bills /\ x.outstanding = a.outstanding /\ x.rollup = a.rollup
            /\ x.used = a.used /\ x.payment = a.payment /\ x.paid = a.paid
            /\ x.exception = a.exception /\ x.covered = a.covered
            /\ x.added = [a.added EXCEPT ![u] = a.added[u] + n]
            /\ x.credited = [a.credited EXCEPT ![r] = a.credited[r] + n]
    BY <1>7, <2>1, AddCreditFacts
  <2> QED
    BY <1>7, <2>2 DEF n
<1> HIDE DEF w
<1>9. e = IF effect THEN RecomputeUnitRollups(w, u, sums) ELSE w
  <2>1. d.outstanding = [c \in D |-> d.outstanding[c]] /\ DOMAIN d.outstanding = D
    BY <1>1
  <2> QED
    BY <2>1 DEF ApplyReconEffects, w, a, outstanding, paid, covered, touched, Touched, Alloc
<1> HIDE DEF e
<1>10. RecomputeUnitRollups(w, u, sums) \in Tables(D)
  BY <1>8, RecomputeUnitRollupsFacts
<1>11. /\ e \in Tables(D)
       /\ e.bills = d.bills /\ e.payment = d.payment /\ e.exception = d.exception
       /\ e.outstanding = outstanding /\ e.covered = covered
       /\ e.paid = [d.paid EXCEPT ![r] = paid]
       /\ e.used = [d.used EXCEPT ![u] = d.used[u] + Positive(result.creditApplied)]
       /\ e.added = [d.added EXCEPT ![u] = d.added[u] + Positive(result.creditAdded)]
       /\ e.credited = [d.credited EXCEPT ![r] = d.credited[r] + Positive(result.creditAdded)]
       /\ \A v \in Unit \ {u} : e.rollup[v] = d.rollup[v]
       /\ effect => e.rollup[u] = sums
       /\ ~effect => e.rollup = d.rollup
  BY <1>8, <1>9, RecomputeUnitRollupsFacts
<1>12. ASSUME NEW v \in Unit, Balanced(d, v), v = u => sums = Sums(e, u) PROVE Balanced(e, v)
  <2>1. CASE v = u /\ effect
    BY <1>11, <1>12, <2>1 DEF Balanced
  <2>2. CASE v = u /\ ~effect
    <3>1. SameCharges(d, e, v)
      <4>1. \A c \in D : outstanding[c] = d.outstanding[c]
        BY <2>2 DEF outstanding
      <4> QED
        BY <1>1, <1>4, <1>11, <4>1 DEF SameCharges, ChargesOf
    <3>2. result.creditApplied \in Int /\ result.creditAdded \in Int
      BY DEF IsResult, ResultOK
    <3>3. Positive(result.creditApplied) = 0 /\ Positive(result.creditAdded) = 0
      BY <2>2, <3>2 DEF Positive
    <3>4. d.used[u] \in Int /\ d.added[u] \in Int
      BY <1>1
    <3>5. e.used[u] = d.used[u] /\ e.added[u] = d.added[u]
      BY <1>1, <1>11, <3>3, <3>4
    <3> QED
      BY <1>11, <1>12, <2>2, <3>1, <3>5, BalancedStays
  <2>3. CASE v # u
    <3>1. SameCharges(d, e, v)
      <4>1. \A c \in D : c[2] = v => outstanding[c] = d.outstanding[c]
        BY <1>2, <2>3 DEF outstanding
      <4> QED
        BY <1>1, <1>4, <1>11, <4>1 DEF SameCharges, ChargesOf
    <3>2. e.used[v] = d.used[v] /\ e.added[v] = d.added[v] /\ e.rollup[v] = d.rollup[v]
      BY <1>1, <1>11, <2>3
    <3> QED
      BY <1>11, <1>12, <3>1, <3>2, BalancedStays
  <2> QED
    BY <2>1, <2>2, <2>3
<1>13. \A c \in D : e.outstanding[c] = IF c \in touched
                              THEN NewOutstanding(snapshot[c], result.allocs[c[1]])
                              ELSE d.outstanding[c]
  BY <1>11 DEF outstanding, Alloc
<1>14. \A s \in Ref, c \in Charge :
           e.paid[s][c] = IF s = r /\ c \in touched
                          THEN d.paid[s][c] + result.allocs[c[1]].amount ELSE d.paid[s][c]
  <2>1. \A c \in touched : Positive(Alloc(c).amount) = Alloc(c).amount
    BY <1>2 DEF Positive
  <2>2. \A s \in Ref : e.paid[s] = IF s = r THEN paid ELSE d.paid[s]
    BY <1>1, <1>11
  <2>3. \A c \in Charge :
          paid[c] = IF c \in touched THEN d.paid[r][c] + result.allocs[c[1]].amount ELSE d.paid[r][c]
    BY <2>1 DEF paid, Alloc
  <2> HIDE DEF paid, e, touched
  <2> QED
    BY <2>2, <2>3
<1>15. \A c \in Charge :
           e.covered[c] = IF c \in touched
                          THEN d.covered[c] + result.allocs[c[1]].fromCredit ELSE d.covered[c]
  BY <1>11 DEF covered, Alloc
<1>16. /\ \A v \in Unit :
            /\ e.used[v] = IF v = u THEN d.used[v] + Positive(result.creditApplied) ELSE d.used[v]
            /\ e.added[v] = IF v = u THEN d.added[v] + Positive(result.creditAdded) ELSE d.added[v]
       /\ \A s \in Ref :
            e.credited[s] = IF s = r THEN d.credited[s] + Positive(result.creditAdded)
                                    ELSE d.credited[s]
  BY <1>1, <1>11
<1>17. DOMAIN d.outstanding = D
  BY <1>1
<1> QED
  BY <1>11, <1>12, <1>13, <1>14, <1>15, <1>16, <1>17 DEF Effects, e, touched

(* A sum over the charges of one unit is a sum over the bills.             *)
LEMMA SumOfUnit ==
  ASSUME NEW u \in Unit, NEW f, Numbers(f, Charge), \A c \in Charge : c[2] # u => f[c] = 0,
         NEW g, \A b \in Bill : g[b] = f[<<b, u>>]
  PROVE  SumOver(f, Charge) = SumOver(g, Bill)
<1> DEFINE p == [b \in Bill |-> <<b, u>>]
           U == {p[b] : b \in Bill}
           h == [b \in Bill |-> f[p[b]]]
<1>1. IsFiniteSet(Bill) /\ IsFiniteSet(Charge)
  BY LedgerAssumption, ChargesAreFinite
<1>2. p \in [Bill -> Charge] /\ \A a, b \in Bill : p[a] = p[b] => a = b
  BY DEF Charge
<1>3. SumOver(h, Bill) = SumOver(f, U)
  <2> HIDE DEF p
  <2> QED
    BY <1>1, <1>2, SumRename
<1>4. U \in SUBSET Charge
  BY <1>2
<1>5. \A c \in Charge \ U : f[c] = 0
  BY DEF Charge
<1>6. SumOver(f, Charge) = SumOver(f, U)
  <2> HIDE DEF U
  <2> QED
    BY <1>1, <1>4, <1>5, SumWithin
<1>7. Numbers(h, Bill) /\ \A b \in Bill : g[b] = h[b]
  <2>1. \A b \in Bill : p[b] = <<b, u>> /\ p[b] \in Charge /\ h[b] = f[p[b]]
    BY DEF Charge
  <2> HIDE DEF p, h
  <2> QED
    BY <2>1 DEF Numbers
<1>8. SumOver(g, Bill) = SumOver(h, Bill)
  <2> HIDE DEF h
  <2> QED
    BY <1>1, <1>7, SumCongruence
<1> QED
  BY <1>3, <1>6, <1>8

(* What a result gives to each charge it touches, and to all of them.      *)
AmountPart(result, snapshot) ==
  [c \in Charge |-> IF c \in Touched(result, snapshot) THEN result.allocs[c[1]].amount ELSE 0]
CreditPart(result, snapshot) ==
  [c \in Charge |-> IF c \in Touched(result, snapshot) THEN result.allocs[c[1]].fromCredit ELSE 0]

(* What a result gives to the charges of a unit adds up to what it hands   *)
(* out.                                                                    *)
LEMMA PartsAddUp ==
  ASSUME NEW u \in Unit, NEW S \in SUBSET Charge, \A c \in S : c[2] = u, NEW snapshot,
         DOMAIN snapshot = S, NEW result, IsResult(result, S)
  PROVE  /\ Numbers(AmountPart(result, snapshot), Charge)
         /\ Numbers(CreditPart(result, snapshot), Charge)
         /\ SumOver(AmountPart(result, snapshot), Charge) = SumOver(Amounts(result.allocs, Bill), Bill)
         /\ SumOver(CreditPart(result, snapshot), Charge) = SumOver(Credits(result.allocs, Bill), Bill)
<1> DEFINE A == AmountPart(result, snapshot)
           C == CreditPart(result, snapshot)
<1>1. \A c \in Touched(result, snapshot) : result.allocs[c[1]] \in Shares
  <2>1. PICK I \in SUBSET Int : result.allocs \in [I -> Shares]
    BY DEF IsResult, ResultOK
  <2> QED
    BY <2>1 DEF Touched
<1>2. Numbers(A, Charge) /\ Numbers(C, Charge)
  BY <1>1 DEF AmountPart, CreditPart, Numbers, Shares
<1>3. \A c \in Charge : c[2] # u => A[c] = 0 /\ C[c] = 0
  BY DEF AmountPart, CreditPart, Touched
<1>4. ASSUME NEW b \in Bill PROVE <<b, u>> \in Touched(result, snapshot) <=> b \in DOMAIN result.allocs
  <2>1. \A c \in S : c = <<c[1], u>>
    BY DEF Charge
  <2>2. b \in DOMAIN result.allocs => <<b, u>> \in S
    BY <2>1 DEF IsResult
  <2> QED
    BY <2>2 DEF Touched
<1>5. \A b \in Bill : /\ Amounts(result.allocs, Bill)[b] = A[<<b, u>>]
                      /\ Credits(result.allocs, Bill)[b] = C[<<b, u>>]
  <2>1. \A b \in Bill : <<b, u>> \in Charge /\ <<b, u>>[1] = b
    BY DEF Charge
  <2> QED
    BY <1>4, <2>1 DEF Amounts, Credits, AmountPart, CreditPart
<1> HIDE DEF A, C
<1>6. SumOver(A, Charge) = SumOver(Amounts(result.allocs, Bill), Bill)
  BY <1>2, <1>3, <1>5, SumOfUnit
<1>7. SumOver(C, Charge) = SumOver(Credits(result.allocs, Bill), Bill)
  BY <1>2, <1>3, <1>5, SumOfUnit
<1> QED
  BY <1>2, <1>6, <1>7 DEF A, C

(* The image of a finite set is finite.                                    *)
LEMMA FiniteImage ==
  ASSUME NEW S, IsFiniteSet(S), NEW f PROVE IsFiniteSet({f[x] : x \in S})
<1> DEFINE Of(s) == {f[x] : x \in s}
           Q == {s \in SUBSET S : IsFiniteSet(Of(s))}
<1>1. ASSUME NEW s \in SUBSET S, \A x \in s : s \ {x} \in Q PROVE s \in Q
  <2>1. CASE s = {}
    <3>1. Of(s) = {}
      BY <2>1
    <3> QED
      BY <3>1, FS_EmptySet
  <2>2. CASE s # {}
    <3>1. PICK x \in s : TRUE
      BY <2>2
    <3>2. IsFiniteSet(Of(s \ {x}))
      BY <1>1
    <3>3. Of(s) = Of(s \ {x}) \cup {f[x]}
      OBVIOUS
    <3>4. IsFiniteSet(Of(s))
      <4> DEFINE rest == Of(s \ {x})
                 new == f[x]
      <4>1. IsFiniteSet(rest) /\ Of(s) = rest \cup {new}
        BY <3>2, <3>3
      <4> HIDE DEF rest, new, Of
      <4>2. IsFiniteSet(rest \cup {new})
        BY <4>1, FS_AddElement
      <4> QED
        BY <4>1, <4>2
    <3> QED
      BY <3>4
  <2> QED
    BY <2>1, <2>2
<1>2. SUBSET S \subseteq Q
  <2> HIDE DEF Q
  <2> QED
    BY <1>1, FiniteInduction
<1> QED
  BY <1>2

(* The charges of one unit reach the engine with ids of their own, one for *)
(* each charge of the snapshot.                                            *)
LEMMA EngineChargesAreValid ==
  ASSUME NEW u \in Unit, NEW S \in SUBSET Charge, \A c \in S : c[2] = u, NEW snapshot \in [S -> Int]
  PROVE  /\ Distinct(EngineCharges(snapshot))
         /\ IdsOf(EngineCharges(snapshot)) = {c[1] : c \in S}
         /\ {c[1] : c \in S} \subseteq Bill
         /\ \A c \in S : \E e \in EngineCharges(snapshot) :
              e.id = c[1] /\ e.outstanding = snapshot[c]
<1> DEFINE Row(c) == [id |-> c[1], kind |-> BillKind[c[1]], due |-> BillDue[c[1]],
                      outstanding |-> snapshot[c]]
<1>1. EngineCharges(snapshot) = {Row(c) : c \in S}
  BY DEF EngineCharges
<1>2. \A c \in S : c[1] \in Bill /\ c = <<c[1], u>>
  BY DEF Charge
<1>3. IsFiniteSet(S)
  BY ChargesAreFinite
<1>4. IsFiniteSet({Row(c) : c \in S})
  <2> DEFINE row == [c \in S |-> Row(c)]
  <2>1. IsFiniteSet({row[c] : c \in S})
    <3> HIDE DEF row
    <3> QED
      BY <1>3, FiniteImage
  <2> HIDE DEF Row
  <2>2. {row[c] : c \in S} = {Row(c) : c \in S}
    OBVIOUS
  <2> QED
    BY <2>1, <2>2
<1>5. \A c \in S : c[1] \in Int /\ BillDue[c[1]] \in Int /\ snapshot[c] \in Int
  BY <1>2, LedgerAssumption
<1>6. \A c \in S : Row(c).id = c[1] /\ Row(c).due = BillDue[c[1]] /\ Row(c).outstanding = snapshot[c]
  OBVIOUS
<1> HIDE DEF Row
<1>7. \A c, d \in S : Row(c).id = Row(d).id => c = d
  BY <1>2, <1>6
<1>8. Distinct({Row(c) : c \in S})
  BY <1>4, <1>5, <1>6, <1>7 DEF Distinct
<1>9. IdsOf({Row(c) : c \in S}) = {c[1] : c \in S}
  BY <1>6 DEF IdsOf
<1> QED
  BY <1>1, <1>2, <1>6, <1>8, <1>9
-----------------------------------------------------------------------------
Total(d, r) == SumOver(d.paid[r], Charge)

(* A payment is run through the engine with a snapshot of its unit.        *)
UsesSnapshot(in, snapshot) ==
  /\ in.charges = EngineCharges(snapshot)
  /\ in.amount \in Nat /\ in.credit \in Int /\ in.threshold \in Nat

(* What becomes of the money of payment r.                                 *)
MoneyGoes(d, r, in, result, e) ==
  /\ MustHold(in) => /\ e.paid = d.paid /\ e.credited = d.credited
                     /\ e.outstanding = d.outstanding /\ e.covered = d.covered
                     /\ e.used = d.used /\ e.added = d.added
  /\ ~MustHold(in) /\ result.exceptionType = "OVERPAYMENT" =>
       e.credited = d.credited /\ Total(e, r) < Total(d, r) + in.amount - in.threshold
  /\ ~MustHold(in) /\ result.exceptionType # "OVERPAYMENT" =>
       Total(e, r) + e.credited[r] = Total(d, r) + d.credited[r] + in.amount
  /\ \A s \in Ref \ {r} : e.paid[s] = d.paid[s] /\ e.credited[s] = d.credited[s]

(* A payment that is run through the engine and persisted is either held   *)
(* in full or ends up on charges and in the credit, kobo by kobo.          *)
LEMMA MoneyGoesSomewhere ==
  ASSUME NEW D \in SUBSET Charge, NEW d \in Tables(D), NEW r \in Ref, NEW u \in Unit,
         NEW S, S \subseteq ChargesOf(d, u), NEW snapshot \in [S -> Int],
         NEW in, UsesSnapshot(in, snapshot), NEW sums \in UnitRow
  PROVE  LET result == Reconcile(in)
             e == ApplyReconEffects(d, r, u, result, snapshot, sums)
         IN  /\ IsResult(result, S)
             /\ e \in Tables(D)
             /\ Effects(d, r, u, result, snapshot, sums, e)
             /\ MoneyGoes(d, r, in, result, e)
<1> DEFINE result == Reconcile(in)
           p == Allocate(in)
           e == ApplyReconEffects(d, r, u, result, snapshot, sums)
           part == AmountPart(result, snapshot)
<1>1. S \in SUBSET Charge /\ \A c \in S : c[2] = u
  <2>1. d.outstanding \in [D -> Int]
    BY DEF Tables
  <2> QED
    BY <2>1 DEF ChargesOf
<1>2. /\ Distinct(in.charges) /\ IdsOf(in.charges) = {c[1] : c \in S}
      /\ {c[1] : c \in S} \subseteq Bill
  BY <1>1, EngineChargesAreValid DEF UsesSnapshot
<1>3. ValidInput(in, Bill)
  BY <1>2, LedgerAssumption DEF ValidInput, UsesSnapshot
<1>4. /\ ResultOK(result)
      /\ DOMAIN result.allocs \subseteq IdsOf(OpenOf(in))
      /\ MustHold(in) => HoldsAll(in, result)
      /\ ~MustHold(in) => /\ Allocated(OpenOf(in), Bill, in.amount, in.credit, p)
                          /\ Settles(in, p, result)
  BY <1>3, ReconcileResult
<1> HIDE DEF result, p
<1>5. IsResult(result, S)
  BY <1>2, <1>4 DEF IsResult, IdsOf, OpenOf
<1>6. e \in Tables(D) /\ Effects(d, r, u, result, snapshot, sums, e)
  BY <1>5, ApplyReconEffectsFacts
<1> HIDE DEF e
<1>7. /\ d.paid \in [Ref -> [Charge -> Nat]] /\ e.paid \in [Ref -> [Charge -> Nat]]
      /\ d.credited \in [Ref -> Nat] /\ e.credited \in [Ref -> Nat]
      /\ d.outstanding \in [D -> Int] /\ e.outstanding \in [D -> Int]
      /\ d.covered \in [Charge -> Int] /\ e.covered \in [Charge -> Int]
      /\ d.used \in [Unit -> Int] /\ e.used \in [Unit -> Int]
      /\ d.added \in [Unit -> Nat] /\ e.added \in [Unit -> Nat]
  BY <1>6 DEF Tables
<1>8. Total(e, r) = Total(d, r) + SumOver(part, Charge)
  <2>1. \A c \in Charge : e.paid[r][c] = d.paid[r][c] + part[c]
    <3>1. \A c \in Charge : e.paid[r][c] = IF c \in Touched(result, snapshot)
                          THEN d.paid[r][c] + result.allocs[c[1]].amount ELSE d.paid[r][c]
      BY <1>6 DEF Effects
    <3>2. \A c \in Charge : d.paid[r][c] \in Nat
      BY <1>7
    <3> QED
      BY <3>1, <3>2 DEF AmountPart
  <2>2. Numbers(d.paid[r], Charge)
    BY <1>7 DEF Numbers
  <2>3. Numbers(part, Charge)
    BY <1>1, <1>5, PartsAddUp
  <2> HIDE DEF part
  <2> QED
    BY <2>1, <2>2, <2>3, SumAdd, ChargesAreFinite DEF Total
<1>9. SumOver(part, Charge) = SumOver(Amounts(result.allocs, Bill), Bill)
  BY <1>1, <1>5, PartsAddUp
<1>10. Total(d, r) \in Nat /\ Total(e, r) \in Nat
  BY <1>6, TotalsType DEF Total
<1>11. e.credited[r] = d.credited[r] + Positive(result.creditAdded)
  BY <1>6 DEF Effects
<1>12. \A s \in Ref \ {r} : e.paid[s] = d.paid[s] /\ e.credited[s] = d.credited[s]
  <2> SUFFICES ASSUME NEW s \in Ref \ {r} PROVE e.paid[s] = d.paid[s] /\ e.credited[s] = d.credited[s]
    OBVIOUS
  <2>1. \A c \in Charge : e.paid[s][c] = d.paid[s][c]
    BY <1>6 DEF Effects
  <2>2. e.paid[s] \in [Charge -> Nat] /\ d.paid[s] \in [Charge -> Nat]
    BY <1>7
  <2>3. e.credited[s] = d.credited[s]
    BY <1>6 DEF Effects
  <2> QED
    BY <2>1, <2>2, <2>3
<1>13. CASE MustHold(in)
  <2>1. Touched(result, snapshot) = {} /\ Positive(result.creditAdded) = 0 /\ Positive(result.creditApplied) = 0
    BY <1>4, <1>13 DEF HoldsAll, Touched, Positive
  <2>2. /\ \A s \in Ref, c \in Charge : e.paid[s][c] = d.paid[s][c]
        /\ \A s \in Ref : e.credited[s] = d.credited[s] + 0 \/ e.credited[s] = d.credited[s]
        /\ \A c \in D : e.outstanding[c] = d.outstanding[c]
        /\ \A c \in Charge : e.covered[c] = d.covered[c]
        /\ \A v \in Unit : /\ e.used[v] = d.used[v] + 0 \/ e.used[v] = d.used[v]
                           /\ e.added[v] = d.added[v] + 0 \/ e.added[v] = d.added[v]
    BY <1>6, <1>7, <2>1 DEF Effects
  <2>3. \A s \in Ref : e.paid[s] = d.paid[s]
    <3>1. \A s \in Ref : e.paid[s] \in [Charge -> Nat] /\ d.paid[s] \in [Charge -> Nat]
      BY <1>7
    <3> QED
      BY <2>2, <3>1
  <2>4. e.paid = d.paid
    BY <1>7, <2>3
  <2>5. /\ \A s \in Ref : e.credited[s] = d.credited[s]
        /\ \A v \in Unit : e.used[v] = d.used[v] /\ e.added[v] = d.added[v]
    BY <1>7, <2>2
  <2>6. e.credited = d.credited /\ e.outstanding = d.outstanding /\ e.covered = d.covered
    BY <1>7, <2>2, <2>5
  <2>7. e.used = d.used /\ e.added = d.added
    BY <1>7, <2>5
  <2> QED
    BY <1>5, <1>6, <1>12, <1>13, <2>4, <2>6, <2>7 DEF MoneyGoes, e, result
<1>14. CASE ~MustHold(in)
  <2>1. /\ p \in Purses /\ SumOver(Amounts(p.allocs, Bill), Bill) + p.payment = in.amount
        /\ result.allocs = p.allocs
    BY <1>4, <1>14 DEF Allocated, Settles
  <2>2. p.payment \in Nat
    BY <2>1 DEF Purses
  <2>3. SumOver(Amounts(p.allocs, Bill), Bill) \in Int
    BY <1>1, <1>5, <1>9, <2>1, PartsAddUp, ChargesAreFinite, SumType
  <2>4. Total(e, r) = Total(d, r) + in.amount - p.payment
    BY <1>8, <1>9, <1>10, <2>1, <2>2, <2>3
  <2>5. in.amount \in Nat /\ in.threshold \in Nat
    BY DEF UsesSnapshot
  <2>6. CASE result.exceptionType = "OVERPAYMENT"
    <3>1. p.payment > in.threshold /\ result.creditAdded = 0
      BY <1>4, <1>14, <2>6 DEF Settles, NotAnException
    <3>2. \A s \in Ref : e.credited[s] = d.credited[s]
      BY <1>7, <1>11, <1>12, <3>1 DEF Positive
    <3>3. e.credited = d.credited
      BY <1>7, <3>2
    <3>4. Total(e, r) < Total(d, r) + in.amount - in.threshold
      BY <1>10, <2>2, <2>4, <2>5, <3>1
    <3> QED
      BY <1>5, <1>6, <1>12, <1>14, <2>6, <3>3, <3>4 DEF MoneyGoes, e, result
  <2>7. CASE result.exceptionType # "OVERPAYMENT"
    <3>1. result.creditAdded = p.payment
      BY <1>4, <1>14, <2>7 DEF Settles
    <3>2. e.credited[r] = d.credited[r] + p.payment
      BY <1>11, <2>2, <3>1 DEF Positive
    <3>3. Total(e, r) + e.credited[r] = Total(d, r) + d.credited[r] + in.amount
      BY <1>7, <1>10, <2>2, <2>4, <2>5, <3>2
    <3> QED
      BY <1>5, <1>6, <1>12, <1>14, <2>7, <3>3 DEF MoneyGoes, e, result
  <2> QED
    BY <2>6, <2>7
<1> QED
  BY <1>13, <1>14

(* The sums of a unit are those of other tables when these agree.          *)
SameSums(e, f) == e.outstanding = f.outstanding /\ e.added = f.added /\ e.used = f.used

LEMMA SumsAgree ==
  ASSUME NEW e, NEW f, SameSums(e, f) PROVE \A u : Sums(e, u) = Sums(f, u)
BY DEF SameSums, Sums, ChargesOf

(* What applyReconEffects writes elsewhere does not depend on the sums.    *)
LEMMA EffectsIgnoreSums ==
  ASSUME NEW D \in SUBSET Charge, NEW d \in Tables(D), NEW e \in Tables(D), NEW f \in Tables(D),
         NEW r, NEW u, NEW result, NEW snapshot, NEW sums1, NEW sums2,
         Effects(d, r, u, result, snapshot, sums1, e), Effects(d, r, u, result, snapshot, sums2, f)
  PROVE  SameSums(e, f)
<1>1. /\ d.outstanding \in [D -> Int] /\ e.outstanding \in [D -> Int] /\ f.outstanding \in [D -> Int]
      /\ e.added \in [Unit -> Nat] /\ f.added \in [Unit -> Nat]
      /\ e.used \in [Unit -> Int] /\ f.used \in [Unit -> Int]
  BY DEF Tables
<1>2. \A c \in D : e.outstanding[c] = f.outstanding[c]
  BY <1>1 DEF Effects
<1>3. \A v \in Unit : e.added[v] = f.added[v] /\ e.used[v] = f.used[v]
  BY DEF Effects
<1> QED
  BY <1>1, <1>2, <1>3 DEF SameSums

(* The open charges of a unit are charges of the unit that owe something.  *)
LEMMA OpenChargesFacts ==
  ASSUME NEW D \in SUBSET Charge, NEW d \in Tables(D), NEW u \in Unit
  PROVE  /\ DOMAIN OpenCharges(d, u) \subseteq ChargesOf(d, u)
         /\ ChargesOf(d, u) \subseteq D /\ \A c \in ChargesOf(d, u) : c[2] = u
         /\ OpenCharges(d, u) \in [DOMAIN OpenCharges(d, u) -> Int]
         /\ \A c \in DOMAIN OpenCharges(d, u) :
              OpenCharges(d, u)[c] = d.outstanding[c] /\ d.outstanding[c] > 0
<1>1. d.outstanding \in [D -> Int]
  BY DEF Tables
<1> QED
  BY <1>1 DEF OpenCharges, ChargesOf

(* Credit moves to charges of the unit that owe at least that much.        *)
Takes(d, u, take) ==
  \A c \in Charge : /\ take[c] >= 0
                    /\ take[c] > 0 => c[2] = u /\ c \in DOMAIN d.outstanding
                                      /\ take[c] <= d.outstanding[c]

OthersStayBalanced(d, u, e) == \A v \in Unit \ {u} : Balanced(d, v) => Balanced(e, v)

KeepsPayments(d, e) ==
  /\ e.bills = d.bills /\ e.payment = d.payment /\ e.exception = d.exception
  /\ e.paid = d.paid /\ e.added = d.added /\ e.credited = d.credited

MovesCredit(d, u, take, e) ==
  /\ \A c \in DOMAIN d.outstanding : e.outstanding[c] = d.outstanding[c] - take[c]
  /\ \A c \in Charge : e.covered[c] = d.covered[c] + take[c]
  /\ \A v \in Unit : e.used[v] = IF v = u THEN d.used[v] + SumOver(take, Charge) ELSE d.used[v]

(* What consumeCreditForUnit does to each table: take is what it spends on *)
(* each charge, credit and sums what it has read.                          *)
Spends(d, u, credit, sums, take, e) ==
  /\ KeepsPayments(d, e)
  /\ MovesCredit(d, u, take, e)
  /\ Takes(d, u, take)
  /\ SumOver(take, Charge) <= Positive(credit)
  /\ sums = Sums(e, u) => Balanced(e, u)
  /\ OthersStayBalanced(d, u, e)

(* consumeCreditForUnit keeps the rows of all payments, and what it writes *)
(* to the charges does not depend on the sums.  When the charges it has    *)
(* read are still those of the tables it moves credit to charges of the    *)
(* unit, never more than they owe.                                         *)
LEMMA ConsumeCreditFacts ==
  ASSUME NEW D \in SUBSET Charge, NEW d \in Tables(D), NEW u \in Unit, NEW read \in Int,
         NEW S, S \subseteq ChargesOf(d, u), NEW open \in [S -> Int], NEW sums \in UnitRow
  PROVE  LET e == ConsumeCreditForUnit(d, u, read, open, sums)
         IN  /\ e \in Tables(D) /\ KeepsPayments(d, e)
             /\ \A other \in UnitRow : SameSums(e, ConsumeCreditForUnit(d, u, read, open, other))
             /\ open = OpenCharges(d, u) =>
                  \E take \in [Charge -> Int] : Spends(d, u, read, sums, take, e)
<1> DEFINE credit == Positive(read)
           in == [credit |-> credit, amount |-> 0, charges |-> EngineCharges(open),
                  rule |-> "OLDEST_FIRST"]
           spent == Allocate(in)
           touched == {c \in S : c[1] \in DOMAIN spent.allocs}
           Take(c) == IF c \in touched THEN spent.allocs[c[1]].fromCredit ELSE 0
           take == [c \in Charge |-> Take(c)]
           outstanding == [c \in D |-> IF c \in touched THEN open[c] - Take(c) ELSE d.outstanding[c]]
           covered == [c \in Charge |-> IF c \in touched THEN d.covered[c] + Take(c) ELSE d.covered[c]]
           used == d.used[u] + credit - spent.credit
           w == [d EXCEPT !.outstanding = outstanding, !.covered = covered, !.used[u] = used]
           e == ConsumeCreditForUnit(d, u, read, open, sums)
<1>1. /\ d.outstanding \in [D -> Int] /\ d.covered \in [Charge -> Int] /\ d.used \in [Unit -> Int]
  BY DEF Tables
<1>2. S \in SUBSET Charge /\ S \subseteq D /\ \A c \in S : c[2] = u
  BY <1>1 DEF ChargesOf
<1>3. credit \in Nat
  BY DEF Positive
<1> HIDE DEF credit
<1>4. /\ Distinct(EngineCharges(open)) /\ IdsOf(EngineCharges(open)) = {c[1] : c \in S}
      /\ {c[1] : c \in S} \subseteq Bill
      /\ \A c \in S : \E x \in EngineCharges(open) : x.id = c[1] /\ x.outstanding = open[c]
  BY <1>2, EngineChargesAreValid
<1>5. /\ in.charges = EngineCharges(open) /\ in.amount = 0 /\ in.credit = credit
  OBVIOUS
<1> HIDE DEF in
<1>6. Allocated({c \in in.charges : c.outstanding > 0}, Bill, 0, credit, spent)
  <2>1. in.amount \in Nat /\ in.credit \in Int /\ IsFiniteSet(Bill)
    BY <1>3, <1>5, LedgerAssumption
  <2> QED
    BY <1>4, <1>5, <2>1, AllocateAllocates
<1> HIDE DEF spent
<1>7. /\ spent \in Purses /\ DOMAIN spent.allocs \subseteq {c[1] : c \in S}
      /\ SumOver(Credits(spent.allocs, Bill), Bill) + spent.credit = credit
      /\ spent.credit >= 0
      /\ \A x \in EngineCharges(open) : x.outstanding > 0 /\ x.id \in DOMAIN spent.allocs =>
           /\ spent.allocs[x.id].fromCredit >= 0
           /\ spent.allocs[x.id].amount + spent.allocs[x.id].fromCredit <= x.outstanding
  <2>1. credit >= 0
    BY <1>3
  <2>2. IdsOf({c \in in.charges : c.outstanding > 0}) \subseteq IdsOf(in.charges)
    BY DEF IdsOf
  <2> QED
    BY <1>4, <1>5, <1>6, <2>1, <2>2 DEF Allocated
<1>8. spent.credit \in Int /\ spent.allocs \in UNION {[I -> Shares] : I \in SUBSET Int}
  BY <1>7 DEF Purses
<1>9. ASSUME NEW c \in touched
      PROVE  spent.allocs[c[1]].fromCredit \in Int /\ spent.allocs[c[1]].amount \in Nat
  <2>1. PICK I \in SUBSET Int : spent.allocs \in [I -> Shares]
    BY <1>8
  <2>2. spent.allocs[c[1]] \in Shares
    BY <1>9, <2>1
  <2> QED
    BY <2>2 DEF Shares
<1>10. \A c \in Charge : Take(c) \in Int
  <2> HIDE DEF touched
  <2> QED
    BY <1>9
<1>11. touched \subseteq S
  OBVIOUS
<1> HIDE DEF touched
<1>12. outstanding \in [D -> Int] /\ covered \in [Charge -> Int] /\ take \in [Charge -> Int]
  <2>1. \A c \in touched : open[c] \in Int /\ c \in Charge
    BY <1>2, <1>11
  <2> HIDE DEF Take
  <2> QED
    BY <1>1, <1>10, <2>1
<1>13. used \in Int
  BY <1>1, <1>3, <1>8
<1>14. \A row : ConsumeCreditForUnit(d, u, read, open, row) = RecomputeUnitRollups(w, u, row)
  <2>1. DOMAIN d.outstanding = D /\ DOMAIN open = S
    BY <1>1
  <2>2. Spending(read, open) = spent
    BY DEF Spending, spent, in, credit
  <2>3. Touched(spent, open) = touched
    BY <2>1 DEF Touched, touched
  <2>4. outstanding = [c \in D |-> IF c \in touched THEN open[c] - spent.allocs[c[1]].fromCredit
                                                    ELSE d.outstanding[c]]
    OBVIOUS
  <2>5. covered = [c \in Charge |-> IF c \in touched THEN d.covered[c] + spent.allocs[c[1]].fromCredit
                                                    ELSE d.covered[c]]
    OBVIOUS
  <2> HIDE DEF outstanding, covered
  <2> QED
    BY <2>1, <2>2, <2>3, <2>4, <2>5 DEF ConsumeCreditForUnit, credit
<1>15. \A c \in Charge : take[c] = Take(c)
  OBVIOUS
<1>16. /\ \A c \in D : outstanding[c] = IF c \in touched THEN open[c] - take[c] ELSE d.outstanding[c]
       /\ \A c \in Charge : covered[c] = IF c \in touched THEN d.covered[c] + take[c] ELSE d.covered[c]
       /\ \A c \in Charge : c \notin touched => take[c] = 0
       /\ \A c \in touched : take[c] = spent.allocs[c[1]].fromCredit
  BY <1>2, <1>11, <1>15
<1> HIDE DEF outstanding, covered, used, take, Take
<1>17. /\ w \in Tables(D)
       /\ w.bills = d.bills /\ w.payment = d.payment /\ w.exception = d.exception
       /\ w.rollup = d.rollup /\ w.added = d.added /\ w.credited = d.credited
       /\ w.paid = d.paid /\ w.outstanding = outstanding /\ w.covered = covered
       /\ w.used = [d.used EXCEPT ![u] = used]
  <2>1. w = [d EXCEPT !.outstanding = outstanding, !.covered = covered,
                      !.used = [d.used EXCEPT ![u] = used]]
    OBVIOUS
  <2>2. [d.used EXCEPT ![u] = used] \in [Unit -> Int]
    BY <1>1, <1>13
  <2> HIDE DEF w
  <2> QED
    BY <1>12, <2>1, <2>2 DEF Tables
<1> HIDE DEF w
<1>18. ASSUME NEW row \in UnitRow
       PROVE  LET f == ConsumeCreditForUnit(d, u, read, open, row)
              IN  /\ f \in Tables(D)
                  /\ f.bills = d.bills /\ f.payment = d.payment /\ f.exception = d.exception
                  /\ f.added = d.added /\ f.credited = d.credited
                  /\ f.paid = d.paid /\ f.outstanding = outstanding /\ f.covered = covered
                  /\ f.used = [d.used EXCEPT ![u] = used]
                  /\ f.rollup[u] = row /\ \A v \in Unit \ {u} : f.rollup[v] = d.rollup[v]
  <2>1. ConsumeCreditForUnit(d, u, read, open, row) = RecomputeUnitRollups(w, u, row)
    BY <1>14
  <2> QED
    BY <1>17, <2>1, RecomputeUnitRollupsFacts
<1>19. /\ e \in Tables(D)
       /\ e.bills = d.bills /\ e.payment = d.payment /\ e.exception = d.exception
       /\ e.added = d.added /\ e.credited = d.credited
       /\ e.paid = d.paid /\ e.outstanding = outstanding /\ e.covered = covered
       /\ e.used = [d.used EXCEPT ![u] = used]
       /\ e.rollup[u] = sums /\ \A v \in Unit \ {u} : e.rollup[v] = d.rollup[v]
  BY <1>18
<1>20. \A other \in UnitRow : SameSums(e, ConsumeCreditForUnit(d, u, read, open, other))
  BY <1>18, <1>19 DEF SameSums
<1> HIDE DEF e
<1>21. ASSUME open = OpenCharges(d, u) PROVE Spends(d, u, read, sums, take, e)
  <2>1. \A c \in S : open[c] = d.outstanding[c] /\ d.outstanding[c] > 0 /\ d.outstanding[c] \in Int
    BY <1>1, <1>2, <1>21, OpenChargesFacts
  <2>2. ASSUME NEW c \in touched PROVE take[c] >= 0 /\ take[c] <= d.outstanding[c]
    <3>1. spent.allocs[c[1]].fromCredit \in Int /\ spent.allocs[c[1]].amount \in Nat
      BY <1>9
    <3>2. PICK x \in EngineCharges(open) : x.id = c[1] /\ x.outstanding = open[c]
      BY <1>4, <1>11
    <3>3. c[1] \in DOMAIN spent.allocs /\ c \in S
      BY <1>11 DEF touched
    <3>4. /\ spent.allocs[c[1]].fromCredit >= 0
          /\ spent.allocs[c[1]].amount + spent.allocs[c[1]].fromCredit <= d.outstanding[c]
      BY <1>7, <2>1, <3>2, <3>3
    <3> QED
      BY <1>16, <2>1, <3>1, <3>3, <3>4
  <2>3. \A c \in Charge : take[c] \in Int /\ take[c] >= 0
                          /\ (take[c] > 0 => c \in S /\ take[c] <= d.outstanding[c])
    BY <1>11, <1>12, <1>16, <2>2
  <2>4. /\ \A c \in D : outstanding[c] = d.outstanding[c] - take[c]
        /\ \A c \in Charge : covered[c] = d.covered[c] + take[c]
    BY <1>1, <1>11, <1>16, <2>1
  <2>5. \A b \in Bill : Credits(spent.allocs, Bill)[b] = take[<<b, u>>]
    <3> SUFFICES ASSUME NEW b \in Bill PROVE Credits(spent.allocs, Bill)[b] = take[<<b, u>>]
      OBVIOUS
    <3>1. <<b, u>> \in Charge /\ <<b, u>>[1] = b
      BY DEF Charge
    <3>2. \A c \in S : c = <<c[1], u>>
      BY <1>2 DEF Charge
    <3>3. b \in DOMAIN spent.allocs => <<b, u>> \in S
      BY <1>7, <3>2
    <3>4. <<b, u>> \in touched <=> b \in DOMAIN spent.allocs
      BY <3>1, <3>3 DEF touched
    <3> QED
      BY <1>16, <3>1, <3>4 DEF Credits
  <2>6. SumOver(take, Charge) = SumOver(Credits(spent.allocs, Bill), Bill)
    <3>1. \A c \in Charge : c[2] # u => take[c] = 0
      BY <1>2, <1>11, <1>16
    <3>2. Numbers(take, Charge)
      BY <1>12 DEF Numbers
    <3> QED
      BY <2>5, <3>1, <3>2, SumOfUnit
  <2>7. SumOver(take, Charge) \in Int /\ used = d.used[u] + SumOver(take, Charge)
        /\ SumOver(take, Charge) <= credit
    <3>1. Numbers(take, Charge)
      BY <1>12 DEF Numbers
    <3>2. SumOver(take, Charge) \in Int
      BY <3>1, ChargesAreFinite, SumType
    <3>3. d.used[u] \in Int
      BY <1>1
    <3> QED
      BY <1>3, <1>7, <1>8, <2>6, <3>2, <3>3 DEF used
  <2>8. ASSUME NEW v \in Unit \ {u}, Balanced(d, v) PROVE Balanced(e, v)
    <3>1. SameCharges(d, e, v)
      <4>1. \A c \in D : c[2] = v => outstanding[c] = d.outstanding[c]
        BY <1>2, <1>11, <1>16
      <4>2. DOMAIN e.outstanding = D /\ DOMAIN d.outstanding = D
        BY <1>1, <1>12, <1>19
      <4> QED
        BY <1>19, <4>1, <4>2 DEF SameCharges, ChargesOf
    <3>2. e.used[v] = d.used[v] /\ e.added[v] = d.added[v] /\ e.rollup[v] = d.rollup[v]
      BY <1>1, <1>19
    <3> QED
      BY <2>8, <3>1, <3>2, BalancedStays
  <2>9. \A v \in Unit : e.used[v] = IF v = u THEN d.used[v] + SumOver(take, Charge) ELSE d.used[v]
    BY <1>1, <1>19, <2>7
  <2>10. Takes(d, u, take)
    BY <1>1, <1>2, <2>3 DEF Takes
  <2>11. DOMAIN d.outstanding = D
    BY <1>1
  <2>12. MovesCredit(d, u, take, e)
    BY <1>19, <2>4, <2>9, <2>11 DEF MovesCredit
  <2>13. sums = Sums(e, u) => Balanced(e, u)
    BY <1>19 DEF Balanced
  <2>14. OthersStayBalanced(d, u, e)
    BY <2>8 DEF OthersStayBalanced
  <2>15. KeepsPayments(d, e)
    BY <1>19 DEF KeepsPayments
  <2>16. SumOver(take, Charge) <= Positive(read)
    BY <2>7 DEF credit
  <2> QED
    BY <2>10, <2>12, <2>13, <2>14, <2>15, <2>16 DEF Spends
<1>22. KeepsPayments(d, e)
  BY <1>19 DEF KeepsPayments
<1> QED
  BY <1>12, <1>19, <1>20, <1>21, <1>22 DEF e

(* The rows of payment s are left alone.                                   *)
SameRows(d, e, s) ==
  /\ e.payment[s] = d.payment[s] /\ e.exception[s] = d.exception[s]
  /\ e.paid[s] = d.paid[s] /\ e.credited[s] = d.credited[s]

OthersStay(d, e, r) == \A s \in Ref \ {r} : SameRows(d, e, s)

PaidGrows(d, e) == \A s \in Ref, c \in Charge : e.paid[s][c] >= d.paid[s][c]

RowsBalance(d) == \A u \in Unit : Balanced(d, u)

(* The rows of the units stay right when the sums that were written to the *)
(* row of u are those of the tables that the writing has left.             *)
KeepsRows(d, e, u, sums) == RowsBalance(d) /\ sums = Sums(e, u) => RowsBalance(e)

AppliedIn(d, r) == Total(d, r) + d.credited[r]

AppliesInFull(d, e, r) == AppliedIn(e, r) = AppliedIn(d, r) + Gross(r)

(* What a payment has paid in all only grows when each part of it does.    *)
LEMMA TotalGrows ==
  ASSUME NEW D \in SUBSET Charge, NEW d \in Tables(D), NEW E \in SUBSET Charge,
         NEW e \in Tables(E), PaidGrows(d, e), NEW r \in Ref
  PROVE  Total(d, r) \in Nat /\ Total(e, r) \in Nat /\ Total(e, r) >= Total(d, r)
<1> DEFINE more == [c \in Charge |-> e.paid[r][c] - d.paid[r][c]]
<1>1. d.paid[r] \in [Charge -> Nat] /\ e.paid[r] \in [Charge -> Nat]
  BY DEF Tables
<1>2. \A c \in Charge : more[c] \in Nat /\ e.paid[r][c] = d.paid[r][c] + more[c]
  <2> SUFFICES ASSUME NEW c \in Charge
               PROVE  e.paid[r][c] - d.paid[r][c] \in Nat
                      /\ e.paid[r][c] = d.paid[r][c] + (e.paid[r][c] - d.paid[r][c])
    OBVIOUS
  <2>1. d.paid[r][c] \in Nat /\ e.paid[r][c] \in Nat /\ e.paid[r][c] >= d.paid[r][c]
    BY <1>1 DEF PaidGrows
  <2> QED
    BY <2>1
<1> HIDE DEF more
<1>3. Numbers(d.paid[r], Charge) /\ Numbers(more, Charge)
  BY <1>1, <1>2 DEF Numbers
<1>4. Total(e, r) = Total(d, r) + SumOver(more, Charge)
  BY <1>2, <1>3, ChargesAreFinite, SumAdd DEF Total
<1>5. SumOver(more, Charge) \in Nat
  BY <1>2, ChargesAreFinite, SumNat
<1>6. Total(d, r) \in Nat /\ Total(e, r) \in Nat
  BY TotalsType DEF Total
<1> QED
  BY <1>4, <1>5, <1>6

(* What holds of the effects of any result.                                *)
LEMMA EffectsFacts ==
  ASSUME NEW D \in SUBSET Charge, NEW d \in Tables(D), NEW e \in Tables(D), NEW r \in Ref,
         NEW u \in Unit, NEW S, NEW snapshot \in [S -> Int], S \subseteq Charge,
         NEW result, IsResult(result, S), NEW sums, Effects(d, r, u, result, snapshot, sums, e)
  PROVE  /\ PaidGrows(d, e)
         /\ KeepsRows(d, e, u, sums)
         /\ OthersStay(d, e, r)
<1>1. /\ d.paid \in [Ref -> [Charge -> Nat]] /\ e.paid \in [Ref -> [Charge -> Nat]]
  BY DEF Tables
<1>2. \A c \in Touched(result, snapshot) : result.allocs[c[1]].amount \in Nat
  <2> SUFFICES ASSUME NEW c \in Touched(result, snapshot) PROVE result.allocs[c[1]].amount \in Nat
    OBVIOUS
  <2>1. PICK I \in SUBSET Int : result.allocs \in [I -> Shares]
    BY DEF IsResult, ResultOK
  <2>2. c[1] \in DOMAIN result.allocs
    BY DEF Touched
  <2>3. result.allocs[c[1]] \in Shares
    BY <2>1, <2>2
  <2> QED
    BY <2>3 DEF Shares
<1>3. \A s \in Ref, c \in Charge :
        e.paid[s][c] = IF s = r /\ c \in Touched(result, snapshot)
                       THEN d.paid[s][c] + result.allocs[c[1]].amount ELSE d.paid[s][c]
  BY DEF Effects
<1>4. PaidGrows(d, e)
  <2> SUFFICES ASSUME NEW s \in Ref, NEW c \in Charge PROVE e.paid[s][c] >= d.paid[s][c]
    BY DEF PaidGrows
  <2>1. d.paid[s][c] \in Nat
    BY <1>1
  <2>2. e.paid[s][c] = IF s = r /\ c \in Touched(result, snapshot)
                       THEN d.paid[s][c] + result.allocs[c[1]].amount ELSE d.paid[s][c]
    BY <1>3
  <2>3. CASE c \in Touched(result, snapshot)
    <3>1. result.allocs[c[1]].amount \in Nat
      BY <1>2, <2>3
    <3> QED
      BY <2>1, <2>2, <3>1
  <2>4. CASE c \notin Touched(result, snapshot)
    BY <2>1, <2>2, <2>4
  <2> QED
    BY <2>3, <2>4
<1>5. KeepsRows(d, e, u, sums)
  BY DEF Effects, RowsBalance, KeepsRows
<1>6. ASSUME NEW s \in Ref \ {r} PROVE SameRows(d, e, s)
  <2>1. \A c \in Charge : e.paid[s][c] = d.paid[s][c]
    BY <1>3
  <2>2. e.paid[s] \in [Charge -> Nat] /\ d.paid[s] \in [Charge -> Nat]
    BY <1>1
  <2>3. e.paid[s] = d.paid[s]
    BY <2>1, <2>2
  <2>4. e.credited[s] = d.credited[s] /\ e.payment = d.payment /\ e.exception = d.exception
    BY DEF Effects
  <2> QED
    BY <2>3, <2>4 DEF SameRows
<1> QED
  BY <1>4, <1>5, <1>6 DEF OthersStay
-----------------------------------------------------------------------------
AttributionInput(r, t) ==
  [amount |-> Gross(r), at |-> wire[r].at, source |-> wire[r].source,
   occupant |-> Occupant[t.unit], charges |-> EngineCharges(t.snapshot),
   credit |-> t.credit, rule |-> Rule,
   threshold |-> AttributionThreshold(r), window |-> Window,
   priors |-> {}, unitMatched |-> TRUE, forceApply |-> TRUE]

(* What a transaction that applies a payment has read.                     *)
MayApply(d, t) ==
  /\ t.unit \in Unit /\ t.credit \in Int /\ t.sums \in UnitRow
  /\ \E S \in SUBSET ChargesOf(d, t.unit) : t.snapshot \in [S -> Int]

(* applyPaymentToUnit books the whole payment and never raises an          *)
(* exception.                                                              *)
Attributes(d, r, t, e) ==
  /\ e.bills = d.bills /\ e.exception = d.exception
  /\ e.payment[r].unit = d.payment[r].unit
  /\ e.payment[r].status \in {"OVERPAYMENT", "PARTIAL", "MATCHED"}
  /\ OthersStay(d, e, r) /\ PaidGrows(d, e) /\ AppliesInFull(d, e, r)
  /\ KeepsRows(d, e, t.unit, t.sums)

(* applyPaymentToUnit does to each table what Attributes says.             *)
LEMMA ApplyPaymentToUnitFacts ==
  ASSUME NEW D \in SUBSET Charge, NEW d \in Tables(D), NEW r \in Ref, NEW t, MayApply(d, t),
         wire \in [Ref -> Transfers]
  PROVE  /\ ApplyPaymentToUnit(d, r, t) \in Tables(D)
         /\ Attributes(d, r, t, ApplyPaymentToUnit(d, r, t))
<1> DEFINE in == AttributionInput(r, t)
           u == t.unit
           open == t.snapshot
           sums == t.sums
           result == Reconcile(in)
           f == ApplyReconEffects(d, r, u, result, open, sums)
           e == ApplyPaymentToUnit(d, r, t)
<1>1. wire[r].amount \in Nat
  BY LedgerAssumption DEF TransferType
<1>2. u \in Unit /\ t.credit \in Int /\ sums \in UnitRow
  BY DEF MayApply
<1>3. UsesSnapshot(in, open)
  BY <1>1, <1>2 DEF UsesSnapshot, AttributionInput, Gross, AttributionThreshold
<1>19. PICK S \in SUBSET ChargesOf(d, u) : open \in [S -> Int]
  BY DEF MayApply
<1>4. /\ S \subseteq ChargesOf(d, u) /\ open \in [S -> Int] /\ S \in SUBSET Charge
      /\ \A c \in S : c[2] = u
  <2>1. d.outstanding \in [D -> Int]
    BY DEF Tables
  <2> QED
    BY <1>19, <2>1 DEF ChargesOf
<1>5. in.amount = Gross(r) /\ in.threshold = Gross(r) /\ ~MustHold(in)
  BY DEF AttributionInput, AttributionThreshold, MustHold
<1>6. e = [f EXCEPT !.payment[r].status = result.status]
  BY DEF ApplyPaymentToUnit, Attribution, AttributionInput
<1> HIDE DEF in, open, e, u, sums
<1>7. /\ IsResult(result, S) /\ f \in Tables(D) /\ Effects(d, r, u, result, open, sums, f)
      /\ MoneyGoes(d, r, in, result, f)
  BY <1>2, <1>3, <1>4, MoneyGoesSomewhere
<1>8. ValidInput(in, Bill)
  <2>2. /\ Distinct(EngineCharges(open)) /\ IdsOf(EngineCharges(open)) \subseteq Bill
    <3>2. /\ Distinct(EngineCharges(open)) /\ IdsOf(EngineCharges(open)) = {c[1] : c \in S}
          /\ {c[1] : c \in S} \subseteq Bill
      BY <1>2, <1>4, EngineChargesAreValid
    <3> QED
      BY <3>2
  <2> QED
    BY <1>3, <2>2, LedgerAssumption DEF ValidInput, UsesSnapshot
<1>9. result.exceptionType # "OVERPAYMENT" => result.status \in {"OVERPAYMENT", "PARTIAL", "MATCHED"}
  BY <1>5, <1>8, ReconcileResult DEF Settles
<1> HIDE DEF result, f
<1>10. PaidGrows(d, f) /\ OthersStay(d, f, r) /\ KeepsRows(d, f, u, sums)
  BY <1>2, <1>4, <1>7, EffectsFacts
<1>11. Total(d, r) \in Nat /\ Total(f, r) \in Nat /\ Total(f, r) >= Total(d, r)
  BY <1>7, <1>10, TotalGrows
<1>12. result.exceptionType # "OVERPAYMENT" /\ AppliesInFull(d, f, r)
  <2>1. result.exceptionType = "OVERPAYMENT" => Total(f, r) < Total(d, r) + Gross(r) - Gross(r)
    BY <1>5, <1>7 DEF MoneyGoes
  <2>2. result.exceptionType # "OVERPAYMENT"
    BY <1>1, <1>11, <2>1 DEF Gross
  <2> QED
    BY <1>5, <1>7, <2>2 DEF MoneyGoes, AppliesInFull, AppliedIn
<1>13. f.payment \in [Ref -> [status : PaymentStatus, unit : Unit \cup {NoUnit}]]
  BY <1>7 DEF Tables
<1>14. [f.payment EXCEPT ![r].status = result.status]
          \in [Ref -> [status : PaymentStatus, unit : Unit \cup {NoUnit}]]
  BY <1>9, <1>12, <1>13 DEF PaymentStatus
<1>15. /\ e \in Tables(D) /\ e.payment = [f.payment EXCEPT ![r].status = result.status]
       /\ e.bills = f.bills /\ e.exception = f.exception /\ e.paid = f.paid
       /\ e.credited = f.credited /\ e.outstanding = f.outstanding /\ e.rollup = f.rollup
       /\ e.added = f.added /\ e.used = f.used
  <2>1. e = [f EXCEPT !.payment = [f.payment EXCEPT ![r].status = result.status]]
    BY <1>6
  <2> QED
    BY <1>7, <1>14, <2>1 DEF Tables
<1>16. /\ e.payment[r].unit = d.payment[r].unit
       /\ e.payment[r].status \in {"OVERPAYMENT", "PARTIAL", "MATCHED"}
       /\ \A s \in Ref \ {r} : e.payment[s] = f.payment[s]
       /\ e.bills = d.bills /\ e.exception = d.exception
  <2>1. f.payment = d.payment /\ f.bills = d.bills /\ f.exception = d.exception
    BY <1>7 DEF Effects
  <2> QED
    BY <1>9, <1>12, <1>13, <1>15, <2>1
<1>17. OthersStay(d, e, r) /\ PaidGrows(d, e) /\ AppliesInFull(d, e, r)
  BY <1>10, <1>12, <1>15, <1>16 DEF OthersStay, SameRows, PaidGrows, AppliesInFull, AppliedIn, Total
<1>18. KeepsRows(d, e, u, sums)
  BY <1>10, <1>15 DEF KeepsRows, RowsBalance, Balanced, Sums, ChargesOf
<1> QED
  BY <1>15, <1>16, <1>17, <1>18 DEF Attributes, e, u, sums

(* What applyPaymentToUnit writes elsewhere does not depend on the sums.   *)
SameReads(t, s) == s.unit = t.unit /\ s.credit = t.credit /\ s.snapshot = t.snapshot

LEMMA AttributionIgnoresSums ==
  ASSUME NEW D \in SUBSET Charge, NEW d \in Tables(D), NEW r \in Ref, NEW t, MayApply(d, t),
         NEW s, MayApply(d, s), SameReads(t, s), wire \in [Ref -> Transfers]
  PROVE  SameSums(ApplyPaymentToUnit(d, r, t), ApplyPaymentToUnit(d, r, s))
<1> DEFINE in == AttributionInput(r, t)
           u == t.unit
           open == t.snapshot
           result == Reconcile(in)
           F(sums) == ApplyReconEffects(d, r, u, result, open, sums)
<1>1. u \in Unit /\ t.credit \in Int /\ t.sums \in UnitRow /\ s.sums \in UnitRow
  BY DEF MayApply
<1>2. PICK S \in SUBSET ChargesOf(d, u) : open \in [S -> Int]
  BY DEF MayApply
<1>3. wire[r].amount \in Nat
  BY LedgerAssumption DEF TransferType
<1>4. UsesSnapshot(in, open)
  BY <1>1, <1>3 DEF UsesSnapshot, AttributionInput, Gross, AttributionThreshold
<1>5. /\ ApplyPaymentToUnit(d, r, t) = [F(t.sums) EXCEPT !.payment[r].status = result.status]
      /\ ApplyPaymentToUnit(d, r, s) = [F(s.sums) EXCEPT !.payment[r].status = result.status]
  BY DEF ApplyPaymentToUnit, Attribution, AttributionInput, SameReads
<1> HIDE DEF in, open, u, result
<1>6. \A sums \in UnitRow : F(sums) \in Tables(D) /\ Effects(d, r, u, result, open, sums, F(sums))
  BY <1>1, <1>2, <1>4, MoneyGoesSomewhere DEF result
<1> HIDE DEF F
<1>7. SameSums(F(t.sums), F(s.sums))
  BY <1>1, <1>6, EffectsIgnoreSums
<1>8. \A f \in Tables(D) : LET e == [f EXCEPT !.payment[r].status = result.status]
                           IN  SameSums(e, f)
  BY DEF Tables, SameSums
<1> QED
  BY <1>1, <1>5, <1>6, <1>7, <1>8 DEF SameSums

IngestInput(l) ==
  LET w == wire[l.ref]
  IN  [amount |-> w.amount, at |-> w.at, source |-> w.source,
       occupant |-> Occupant[w.account], charges |-> EngineCharges(l.snapshot),
       credit |-> l.credit, rule |-> Rule, threshold |-> Threshold,
       window |-> Window, priors |-> l.priors,
       unitMatched |-> TRUE, forceApply |-> FALSE]

Booked(d, l) ==
  [d EXCEPT !.payment[l.ref] = [status |-> MapStatus(l.ref, IngestResult(l)),
                                unit |-> wire[l.ref].account]]

BookedWithEffects(d, l, sums) ==
  ApplyReconEffects(Booked(d, l), l.ref, wire[l.ref].account, IngestResult(l), l.snapshot, sums)

(* What the handler that persists a payment remembers.                     *)
MayPersist(d, l) ==
  /\ l.ref \in Ref /\ wire[l.ref].account \in Unit /\ l.credit \in Int
  /\ \E S \in SUBSET ChargesOf(d, wire[l.ref].account) : l.snapshot \in [S -> Int]

(* A new payment is held for review, with an overpayment partly applied,   *)
(* or it is applied in full.                                               *)
HeldForReview(d, l, e) ==
  /\ e.payment[l.ref].status = "EXCEPTION"
  /\ e.exception[l.ref].open
  /\ e.exception[l.ref].type \in {"OVERPAYMENT", "DUPLICATE", "THIRD_PARTY"}
  /\ e.credited[l.ref] = d.credited[l.ref]
  /\ IF e.exception[l.ref].type = "OVERPAYMENT"
     THEN Total(e, l.ref) < Total(d, l.ref) + Gross(l.ref)
     ELSE e.paid[l.ref] = d.paid[l.ref]

SettledAtOnce(d, l, e) ==
  /\ e.payment[l.ref].status \in {"OVERPAYMENT", "PARTIAL", "MATCHED", "MANUAL"}
  /\ e.exception[l.ref] = d.exception[l.ref]
  /\ AppliesInFull(d, e, l.ref)

Persists(d, l, sums, e) ==
  /\ e.bills = d.bills /\ DOMAIN e.outstanding = DOMAIN d.outstanding
  /\ e.payment[l.ref].unit = wire[l.ref].account
  /\ OthersStay(d, e, l.ref) /\ PaidGrows(d, e)
  /\ KeepsRows(d, e, wire[l.ref].account, sums)
  /\ HeldForReview(d, l, e) \/ SettledAtOnce(d, l, e)
  /\ IsDuplicate(IngestInput(l)) => e.exception[l.ref].type = "DUPLICATE"

(* Writing the row of a payment writes no other table.                     *)
LEMMA BookedFacts ==
  ASSUME NEW D \in SUBSET Charge, NEW d \in Tables(D), NEW r \in Ref,
         NEW row \in [status : PaymentStatus, unit : Unit \cup {NoUnit}]
  PROVE  LET b == [d EXCEPT !.payment[r] = row]
         IN  /\ b \in Tables(D)
             /\ b.payment = [d.payment EXCEPT ![r] = row] /\ b.payment[r] = row
             /\ b.bills = d.bills /\ b.outstanding = d.outstanding /\ b.added = d.added
             /\ b.used = d.used /\ b.rollup = d.rollup /\ b.paid = d.paid
             /\ b.exception = d.exception /\ b.covered = d.covered /\ b.credited = d.credited
<1> DEFINE b == [d EXCEPT !.payment = [d.payment EXCEPT ![r] = row]]
<1>1. d.payment \in [Ref -> [status : PaymentStatus, unit : Unit \cup {NoUnit}]]
  BY DEF Tables
<1>2. /\ [d.payment EXCEPT ![r] = row] \in [Ref -> [status : PaymentStatus, unit : Unit \cup {NoUnit}]]
      /\ [d.payment EXCEPT ![r] = row][r] = row
  BY <1>1
<1>3. [d EXCEPT !.payment[r] = row] = b
  OBVIOUS
<1>4. b \in Tables(D) /\ b.payment = [d.payment EXCEPT ![r] = row]
  BY <1>2 DEF Tables
<1>5. /\ b.bills = d.bills /\ b.outstanding = d.outstanding /\ b.added = d.added
      /\ b.used = d.used /\ b.rollup = d.rollup /\ b.paid = d.paid
      /\ b.exception = d.exception /\ b.covered = d.covered /\ b.credited = d.credited
  BY DEF Tables
<1> QED
  BY <1>2, <1>3, <1>4, <1>5

(* Writing the row of an exception writes no other table.                  *)
LEMMA ExceptionRowFacts ==
  ASSUME NEW D \in SUBSET Charge, NEW d \in Tables(D), NEW r \in Ref,
         NEW row \in [type : ExceptionType, open : BOOLEAN]
  PROVE  LET b == [d EXCEPT !.exception[r] = row]
         IN  /\ b \in Tables(D)
             /\ b.exception = [d.exception EXCEPT ![r] = row] /\ b.exception[r] = row
             /\ b.bills = d.bills /\ b.outstanding = d.outstanding /\ b.added = d.added
             /\ b.used = d.used /\ b.rollup = d.rollup /\ b.paid = d.paid
             /\ b.payment = d.payment /\ b.covered = d.covered /\ b.credited = d.credited
<1> DEFINE b == [d EXCEPT !.exception = [d.exception EXCEPT ![r] = row]]
<1>1. d.exception \in [Ref -> [type : ExceptionType, open : BOOLEAN]]
  BY DEF Tables
<1>2. /\ [d.exception EXCEPT ![r] = row] \in [Ref -> [type : ExceptionType, open : BOOLEAN]]
      /\ [d.exception EXCEPT ![r] = row][r] = row
  BY <1>1
<1>3. [d EXCEPT !.exception[r] = row] = b
  OBVIOUS
<1>4. b \in Tables(D) /\ b.exception = [d.exception EXCEPT ![r] = row]
  BY <1>2 DEF Tables
<1>5. /\ b.bills = d.bills /\ b.outstanding = d.outstanding /\ b.added = d.added
      /\ b.used = d.used /\ b.rollup = d.rollup /\ b.paid = d.paid
      /\ b.payment = d.payment /\ b.covered = d.covered /\ b.credited = d.credited
  BY DEF Tables
<1> QED
  BY <1>2, <1>3, <1>4, <1>5

(* Rows stay right when charges and credit do.                             *)
LEMMA SameMoneyBalances ==
  ASSUME NEW d, NEW e, e.outstanding = d.outstanding, e.added = d.added, e.used = d.used,
         e.rollup = d.rollup, RowsBalance(d)
  PROVE  RowsBalance(e)
BY DEF RowsBalance, Balanced, Sums, ChargesOf

(* The engine is called at ingest with a valid input: the charges of the   *)
(* unit as they were read and the amount of the transfer.                  *)
LEMMA IngestResultFacts ==
  ASSUME NEW D \in SUBSET Charge, NEW d \in Tables(D), NEW l, MayPersist(d, l),
         wire \in [Ref -> Transfers]
  PROVE  LET S == DOMAIN l.snapshot
             in == IngestInput(l)
             result == IngestResult(l)
         IN  /\ S \subseteq ChargesOf(d, wire[l.ref].account) /\ S \subseteq Charge
             /\ S \subseteq D
             /\ l.snapshot \in [S -> Int] /\ UsesSnapshot(in, l.snapshot)
             /\ ValidInput(in, Bill) /\ result = Reconcile(in) /\ IsResult(result, S)
             /\ in.amount = Gross(l.ref) /\ Gross(l.ref) \in Nat \ {0} /\ in.threshold = Threshold
             /\ in.unitMatched
<1> DEFINE u == wire[l.ref].account
           in == IngestInput(l)
<1>1. l.ref \in Ref /\ u \in Unit /\ l.credit \in Int
  BY DEF MayPersist
<1>2. PICK S \in SUBSET ChargesOf(d, u) : l.snapshot \in [S -> Int]
  BY DEF MayPersist
<1>3. d.outstanding \in [D -> Int]
  BY DEF Tables
<1>4. S = DOMAIN l.snapshot /\ S \subseteq ChargesOf(d, u) /\ S \in SUBSET Charge
      /\ S \subseteq D /\ \A c \in S : c[2] = u
  BY <1>2, <1>3 DEF ChargesOf
<1>5. Gross(l.ref) \in Nat \ {0}
  BY <1>1, LedgerAssumption DEF TransferType, Gross
<1>6. UsesSnapshot(in, l.snapshot) /\ in.amount = Gross(l.ref) /\ in.threshold = Threshold /\ in.unitMatched
  BY <1>1, <1>5, LedgerAssumption DEF UsesSnapshot, IngestInput, Gross
<1>7. IngestResult(l) = Reconcile(in)
  BY DEF IngestResult, IngestInput
<1> HIDE DEF in, u
<1>8. /\ Distinct(EngineCharges(l.snapshot)) /\ IdsOf(EngineCharges(l.snapshot)) = {c[1] : c \in S}
      /\ {c[1] : c \in S} \subseteq Bill
  BY <1>1, <1>2, <1>4, EngineChargesAreValid
<1>9. ValidInput(in, Bill)
  BY <1>6, <1>8, LedgerAssumption DEF ValidInput, UsesSnapshot
<1>10. /\ ResultOK(Reconcile(in))
       /\ DOMAIN Reconcile(in).allocs \subseteq IdsOf(OpenOf(in))
  BY <1>9, ReconcileResult
<1>11. IsResult(Reconcile(in), S)
  <2>1. IdsOf(OpenOf(in)) \subseteq IdsOf(EngineCharges(l.snapshot))
    BY <1>6 DEF IdsOf, OpenOf, UsesSnapshot
  <2> QED
    BY <1>8, <1>10, <2>1 DEF IsResult
<1> QED
  BY <1>2, <1>4, <1>5, <1>6, <1>7, <1>9, <1>11 DEF in, u

(* Persisting a payment at ingest does to each table what Persists says.   *)
LEMMA PersistedFacts ==
  ASSUME NEW D \in SUBSET Charge, NEW d \in Tables(D), NEW l, MayPersist(d, l),
         wire \in [Ref -> Transfers], NEW sums \in UnitRow
  PROVE  /\ Persisted(d, l, sums) \in Tables(D)
         /\ Persists(d, l, sums, Persisted(d, l, sums))
<1> DEFINE r == l.ref
           u == wire[r].account
           S == DOMAIN l.snapshot
           in == IngestInput(l)
           result == IngestResult(l)
           row == [status |-> MapStatus(r, result), unit |-> u]
           b == Booked(d, l)
           f == BookedWithEffects(d, l, sums)
           e == Persisted(d, l, sums)
<1>1. r \in Ref /\ u \in Unit
  BY DEF MayPersist
<1>2. /\ S \subseteq ChargesOf(d, u) /\ S \subseteq Charge
      /\ l.snapshot \in [S -> Int] /\ UsesSnapshot(in, l.snapshot)
      /\ ValidInput(in, Bill) /\ result = Reconcile(in) /\ IsResult(result, S)
      /\ in.amount = Gross(r) /\ Gross(r) \in Nat \ {0} /\ in.threshold = Threshold /\ in.unitMatched
  BY IngestResultFacts
<1>3. f = ApplyReconEffects(b, r, u, result, l.snapshot, sums)
  BY DEF BookedWithEffects
<1>18. ~in.forceApply
  BY DEF IngestInput
<1>4. b = [d EXCEPT !.payment[r] = row]
  BY DEF Booked
<1>5. /\ e = IF IsException(result)
             THEN [f EXCEPT !.exception[r] = [type |-> result.exceptionType, open |-> TRUE]] ELSE f
  BY DEF Persisted, BookedWithEffects, Booked
<1> HIDE DEF in, f, e, result, b, r, u, S
<1>6. row \in [status : PaymentStatus, unit : Unit \cup {NoUnit}]
  BY <1>1, <1>2 DEF MapStatus, IsResult, ResultOK, PaymentStatus
<1>7. /\ b \in Tables(D) /\ b.payment = [d.payment EXCEPT ![r] = row] /\ b.payment[r] = row
      /\ b.bills = d.bills /\ b.outstanding = d.outstanding /\ b.added = d.added
      /\ b.used = d.used /\ b.rollup = d.rollup /\ b.paid = d.paid
      /\ b.exception = d.exception /\ b.covered = d.covered /\ b.credited = d.credited
  BY <1>1, <1>4, <1>6, BookedFacts
<1> HIDE DEF row
<1>8. S \subseteq ChargesOf(b, u)
  BY <1>2, <1>7 DEF ChargesOf
<1>9. /\ f \in Tables(D) /\ Effects(b, r, u, result, l.snapshot, sums, f) /\ MoneyGoes(b, r, in, result, f)
  BY <1>1, <1>2, <1>3, <1>7, <1>8, MoneyGoesSomewhere
<1>10. PaidGrows(b, f) /\ OthersStay(b, f, r) /\ KeepsRows(b, f, u, sums)
  BY <1>1, <1>2, <1>7, <1>9, EffectsFacts
<1>11. /\ f.bills = d.bills /\ f.payment = b.payment /\ f.exception = d.exception
       /\ f.outstanding \in [D -> Int] /\ d.outstanding \in [D -> Int]
  BY <1>7, <1>9 DEF Effects, Tables
<1>12. PaidGrows(d, f) /\ OthersStay(d, f, r) /\ KeepsRows(d, f, u, sums)
  <2>1. PaidGrows(d, f)
    BY <1>7, <1>10 DEF PaidGrows
  <2>2. OthersStay(d, f, r)
    <3>1. \A s \in Ref \ {r} : b.payment[s] = d.payment[s]
      <4>1. d.payment \in [Ref -> [status : PaymentStatus, unit : Unit \cup {NoUnit}]]
        BY DEF Tables
      <4> QED
        BY <1>7, <4>1
    <3> QED
      BY <1>7, <1>10, <3>1 DEF OthersStay, SameRows
  <2>3. RowsBalance(d) => RowsBalance(b)
    BY <1>7, SameMoneyBalances
  <2> QED
    BY <1>10, <2>1, <2>2, <2>3 DEF KeepsRows
<1>13. /\ MustHold(in) => HoldsAll(in, result)
       /\ ~MustHold(in) => Settles(in, Allocate(in), result)
  BY <1>2, ReconcileResult
<1>14. Total(b, r) = Total(d, r) /\ AppliedIn(b, r) = AppliedIn(d, r)
  BY <1>7 DEF Total, AppliedIn
<1>15. Threshold \in Nat /\ Gross(r) \in Nat /\ Total(d, r) \in Nat /\ Total(f, r) \in Nat
  BY <1>1, <1>2, <1>9, LedgerAssumption, TotalsType DEF Total
<1>16. CASE IsException(result)
  <2>1. /\ result.exceptionType \in {"OVERPAYMENT", "DUPLICATE", "THIRD_PARTY"}
        /\ result.status = "EXCEPTION"
        /\ result.exceptionType = "OVERPAYMENT" => ~MustHold(in)
        /\ result.exceptionType # "OVERPAYMENT" => MustHold(in)
    BY <1>2, <1>13, <1>16 DEF HoldsAll, Settles, IsException, NotAnException
  <2> DEFINE ex == [type |-> result.exceptionType, open |-> TRUE]
  <2>2. ex \in [type : ExceptionType, open : BOOLEAN]
    BY <2>1 DEF ExceptionType
  <2>3. /\ e \in Tables(D)
        /\ e.exception = [f.exception EXCEPT ![r] = ex] /\ e.exception[r] = ex
        /\ e.bills = f.bills /\ e.outstanding = f.outstanding /\ e.added = f.added
        /\ e.used = f.used /\ e.rollup = f.rollup /\ e.paid = f.paid
        /\ e.payment = f.payment /\ e.covered = f.covered /\ e.credited = f.credited
    <3>1. e = [f EXCEPT !.exception[r] = ex]
      BY <1>5, <1>16
    <3> HIDE DEF ex
    <3> QED
      BY <1>1, <1>9, <2>2, <3>1, ExceptionRowFacts
  <2> HIDE DEF ex
  <2>4. OthersStay(d, e, r)
    <3>1. f.exception \in [Ref -> [type : ExceptionType, open : BOOLEAN]]
      BY <1>9 DEF Tables
    <3>2. \A s \in Ref \ {r} : e.exception[s] = f.exception[s]
      BY <2>3, <3>1
    <3> QED
      BY <1>12, <2>3, <3>2 DEF OthersStay, SameRows
  <2>5. PaidGrows(d, e)
    BY <1>12, <2>3 DEF PaidGrows
  <2>6. KeepsRows(d, e, u, sums)
    <3>1. Sums(e, u) = Sums(f, u)
      BY <2>3 DEF Sums, ChargesOf
    <3> QED
      BY <1>12, <2>3, <3>1, SameMoneyBalances DEF KeepsRows
  <2>7. e.payment[r].status = "EXCEPTION" /\ e.payment[r].unit = u
    BY <1>7, <1>11, <1>16, <2>1, <2>3 DEF row, MapStatus
  <2>8. e.exception[r].open /\ e.exception[r].type = result.exceptionType
    BY <2>3 DEF ex
  <2>9. e.credited[r] = d.credited[r]
    BY <1>7, <1>9, <2>1, <2>3 DEF MoneyGoes
  <2>10. result.exceptionType = "OVERPAYMENT" => Total(e, r) < Total(d, r) + Gross(r)
    <3>1. Total(e, r) = Total(f, r)
      BY <2>3 DEF Total
    <3>2. result.exceptionType = "OVERPAYMENT" => Total(f, r) < Total(d, r) + Gross(r) - Threshold
      BY <1>2, <1>9, <1>14, <2>1 DEF MoneyGoes
    <3> QED
      BY <1>15, <3>1, <3>2
  <2>11. result.exceptionType # "OVERPAYMENT" => e.paid[r] = d.paid[r]
    BY <1>7, <1>9, <2>1, <2>3 DEF MoneyGoes
  <2>12. HeldForReview(d, l, e)
    BY <2>1, <2>7, <2>8, <2>9, <2>10, <2>11 DEF HeldForReview, r
  <2>13. IsDuplicate(in) => e.exception[r].type = "DUPLICATE"
    BY <1>2, <1>13, <1>18, <2>8 DEF MustHold, HoldsAll
  <2> QED
    BY <1>11, <2>3, <2>4, <2>5, <2>6, <2>7, <2>12, <2>13 DEF Persists, r, u, e, in
<1>17. CASE ~IsException(result)
  <2>1. e = f
    BY <1>5, <1>17
  <2>2. /\ ~MustHold(in) /\ result.exceptionType # "OVERPAYMENT"
        /\ result.status \in {"OVERPAYMENT", "PARTIAL", "MATCHED"}
    BY <1>2, <1>13, <1>17 DEF HoldsAll, Settles, IsException, NotAnException
  <2>3. AppliesInFull(d, e, r)
    BY <1>2, <1>9, <1>14, <2>1, <2>2 DEF MoneyGoes, AppliesInFull, AppliedIn
  <2>4. /\ e.payment[r].status \in {"OVERPAYMENT", "PARTIAL", "MATCHED", "MANUAL"}
        /\ e.payment[r].unit = u /\ e.exception[r] = d.exception[r]
    <3>1. e.payment[r] = row /\ e.exception[r] = d.exception[r]
      BY <1>7, <1>11, <2>1
    <3>2. row.status = MapStatus(r, result) /\ row.unit = u
      BY DEF row
    <3> QED
      BY <2>2, <3>1, <3>2 DEF MapStatus
  <2>5. SettledAtOnce(d, l, e)
    BY <2>3, <2>4 DEF SettledAtOnce, r
  <2>6. ~IsDuplicate(in)
    BY <1>18, <2>2 DEF MustHold
  <2> QED
    BY <1>9, <1>11, <1>12, <2>1, <2>4, <2>5, <2>6 DEF Persists, r, u, e, in
<1> QED
  BY <1>16, <1>17

(* What it writes elsewhere does not depend on the sums.                   *)
LEMMA PersistedIgnoresSums ==
  ASSUME NEW D \in SUBSET Charge, NEW d \in Tables(D), NEW l, MayPersist(d, l),
         wire \in [Ref -> Transfers], NEW sums \in UnitRow, NEW other \in UnitRow
  PROVE  SameSums(Persisted(d, l, sums), Persisted(d, l, other))
<1> DEFINE r == l.ref
           u == wire[r].account
           S == DOMAIN l.snapshot
           in == IngestInput(l)
           result == IngestResult(l)
           row == [status |-> MapStatus(r, result), unit |-> u]
           b == Booked(d, l)
           F(x) == BookedWithEffects(d, l, x)
<1>1. r \in Ref /\ u \in Unit
  BY DEF MayPersist
<1>2. /\ S \subseteq ChargesOf(d, u) /\ l.snapshot \in [S -> Int] /\ UsesSnapshot(in, l.snapshot)
      /\ result = Reconcile(in) /\ IsResult(result, S)
  BY IngestResultFacts
<1>3. \A x : F(x) = ApplyReconEffects(b, r, u, result, l.snapshot, x)
  BY DEF BookedWithEffects
<1>4. b = [d EXCEPT !.payment[r] = row]
  BY DEF Booked
<1>5. \A x : Persisted(d, l, x)
               = IF IsException(result)
                 THEN [F(x) EXCEPT !.exception[r] = [type |-> result.exceptionType, open |-> TRUE]]
                 ELSE F(x)
  BY DEF Persisted, BookedWithEffects, Booked
<1> HIDE DEF in, F, result, b, r, u, S
<1>6. row \in [status : PaymentStatus, unit : Unit \cup {NoUnit}]
  BY <1>1, <1>2 DEF MapStatus, IsResult, ResultOK, PaymentStatus
<1> HIDE DEF row
<1>7. b \in Tables(D) /\ b.outstanding = d.outstanding
  BY <1>1, <1>4, <1>6, BookedFacts
<1>8. S \subseteq ChargesOf(b, u)
  BY <1>2, <1>7 DEF ChargesOf
<1>9. \A x \in UnitRow : F(x) \in Tables(D) /\ Effects(b, r, u, result, l.snapshot, x, F(x))
  BY <1>1, <1>2, <1>3, <1>7, <1>8, MoneyGoesSomewhere
<1>10. SameSums(F(sums), F(other))
  BY <1>7, <1>9, EffectsIgnoreSums
<1>11. \A f \in Tables(D) : \A ex : SameSums([f EXCEPT !.exception[r] = ex], f)
  BY DEF Tables, SameSums
<1>12. CASE IsException(result)
  <2> DEFINE ex == [type |-> result.exceptionType, open |-> TRUE]
             G(x) == [F(x) EXCEPT !.exception[r] = ex]
  <2>1. Persisted(d, l, sums) = G(sums) /\ Persisted(d, l, other) = G(other)
    BY <1>5, <1>12
  <2>2. SameSums(G(sums), F(sums)) /\ SameSums(G(other), F(other))
    BY <1>9, <1>11
  <2> HIDE DEF G
  <2> QED
    BY <1>10, <2>1, <2>2 DEF SameSums
<1>13. CASE ~IsException(result)
  BY <1>5, <1>10, <1>13
<1> QED
  BY <1>12, <1>13

(* What a manager's decision does with the money of the payment.           *)
Reviewed(d, l, e) ==
  CASE l.type = "OVERPAYMENT" ->
         /\ e.payment[l.ref] = [status |-> "OVERPAYMENT", unit |-> d.payment[l.ref].unit]
         /\ e.paid[l.ref] = d.paid[l.ref]
         /\ e.credited[l.ref] = d.credited[l.ref]
              + IF l.action = "credit" /\ Surplus(d, l.ref) > 0 THEN Surplus(d, l.ref) ELSE 0
    [] l.type = "DUPLICATE" /\ l.action # "duplicate-keep" -> SameRows(d, e, l.ref)
    [] l.type = "THIRD_PARTY" /\ l.action = "refund" ->
         /\ e.payment[l.ref] = [status |-> "REVERSED", unit |-> d.payment[l.ref].unit]
         /\ e.paid[l.ref] = d.paid[l.ref] /\ e.credited[l.ref] = d.credited[l.ref]
    [] l.type = "REVERSAL" -> SameRows(d, e, l.ref)
    [] OTHER ->
         /\ e.payment[l.ref].unit = IF l.type = "MISDIRECTED" THEN l.unit ELSE d.payment[l.ref].unit
         /\ e.payment[l.ref].status \in {"OVERPAYMENT", "PARTIAL", "MATCHED"}
         /\ AppliesInFull(d, e, l.ref)

(* What a resolution recomputes the row of the unit for.                   *)
Recomputes(d, l) == Applies(l) \/ MakesCredit(d, l)

Decides(d, l, t, e) ==
  /\ e.bills = d.bills /\ e.exception = d.exception
  /\ OthersStay(d, e, l.ref) /\ PaidGrows(d, e)
  /\ RowsBalance(d) /\ (Recomputes(d, l) => t.sums = Sums(e, l.unit)) => RowsBalance(e)
  /\ Reviewed(d, l, e)

(* What the handler that resolves an exception remembers, and what its     *)
(* transaction has read.                                                   *)
MayDecide(d, l, t) ==
  /\ l.ref \in Ref
  /\ l.type \in ExceptionType \ {NotAnException}
  /\ l.type # "REVERSAL" => l.unit \in Unit
  /\ t.sums \in UnitRow
  /\ Applies(l) => t.unit = l.unit /\ MayApply(d, t)

(* Where no payment pays more, payments have grown.                        *)
LEMMA NothingMoves ==
  ASSUME NEW D \in SUBSET Charge, NEW d \in Tables(D), NEW e, e.paid = d.paid
  PROVE  PaidGrows(d, e)
<1> SUFFICES ASSUME NEW s \in Ref, NEW c \in Charge PROVE e.paid[s][c] >= d.paid[s][c]
  BY DEF PaidGrows
<1>1. d.paid[s][c] \in Nat
  BY DEF Tables
<1> QED
  BY <1>1

(* A decision of a manager does to each table what Decides says.           *)
LEMMA DecideFacts ==
  ASSUME NEW D \in SUBSET Charge, NEW d \in Tables(D), NEW l, NEW t, MayDecide(d, l, t),
         wire \in [Ref -> Transfers]
  PROVE  Decide(d, l, t) \in Tables(D) /\ Decides(d, l, t, Decide(d, l, t))
<1> DEFINE r == l.ref
           u == l.unit
           e == Decide(d, l, t)
           unit == d.payment[r].unit
<1>1. r \in Ref /\ l.type \in ExceptionType \ {NotAnException} /\ (l.type # "REVERSAL" => u \in Unit)
      /\ t.sums \in UnitRow /\ (Applies(l) => t.unit = u /\ MayApply(d, t))
  BY DEF MayDecide
<1>2. /\ d.payment \in [Ref -> [status : PaymentStatus, unit : Unit \cup {NoUnit}]]
      /\ d.credited \in [Ref -> Nat] /\ d.added \in [Unit -> Nat]
  BY DEF Tables
<1>3. d.payment[r].unit \in Unit \cup {NoUnit} /\ d.payment[r].status \in PaymentStatus
  BY <1>1, <1>2
<1>4. \A status \in PaymentStatus, v \in Unit \cup {NoUnit} :
        [status |-> status, unit |-> v] \in [status : PaymentStatus, unit : Unit \cup {NoUnit}]
  OBVIOUS
<1>5. SameRows(d, d, r) /\ OthersStay(d, d, r) /\ PaidGrows(d, d)
  BY NothingMoves DEF SameRows, OthersStay
<1>6. ASSUME NEW row \in [status : PaymentStatus, unit : Unit \cup {NoUnit}], NEW b,
             b = [d EXCEPT !.payment[r] = row]
      PROVE  /\ b \in Tables(D) /\ b.payment[r] = row
             /\ OthersStay(d, b, r) /\ PaidGrows(d, b) /\ (RowsBalance(d) => RowsBalance(b))
             /\ b.bills = d.bills /\ b.outstanding = d.outstanding /\ b.added = d.added
             /\ b.used = d.used /\ b.rollup = d.rollup /\ b.paid = d.paid
             /\ b.exception = d.exception /\ b.covered = d.covered /\ b.credited = d.credited
  <2>1. /\ b \in Tables(D)
        /\ b.payment = [d.payment EXCEPT ![r] = row] /\ b.payment[r] = row
        /\ b.bills = d.bills /\ b.outstanding = d.outstanding /\ b.added = d.added
        /\ b.used = d.used /\ b.rollup = d.rollup /\ b.paid = d.paid
        /\ b.exception = d.exception /\ b.covered = d.covered /\ b.credited = d.credited
    BY <1>1, <1>6, BookedFacts
  <2>2. \A s \in Ref \ {r} : b.payment[s] = d.payment[s]
    BY <1>2, <2>1
  <2>3. OthersStay(d, b, r)
    BY <2>1, <2>2 DEF OthersStay, SameRows
  <2>4. RowsBalance(d) => RowsBalance(b)
    BY <2>1, SameMoneyBalances
  <2> QED
    BY <2>1, <2>3, <2>4, NothingMoves
<1>7. CASE l.type = "OVERPAYMENT"
  <2> DEFINE row == [status |-> "OVERPAYMENT", unit |-> unit]
             b == [d EXCEPT !.payment[r] = row]
             n == Surplus(d, r)
             f == AddCredit(b, r, u, n)
             g == RecomputeUnitRollups(f, u, t.sums)
  <2>1. row \in [status : PaymentStatus, unit : Unit \cup {NoUnit}]
    BY <1>3, <1>4 DEF PaymentStatus
  <2>2. b = [d EXCEPT !.payment[r].status = "OVERPAYMENT"]
    <3>1. [d.payment EXCEPT ![r].status = "OVERPAYMENT"] = [d.payment EXCEPT ![r] = row]
      BY <1>1, <1>2
    <3> QED
      BY <3>1
  <2>3. /\ b \in Tables(D) /\ b.payment[r] = row
        /\ OthersStay(d, b, r) /\ PaidGrows(d, b) /\ (RowsBalance(d) => RowsBalance(b))
        /\ b.bills = d.bills /\ b.outstanding = d.outstanding /\ b.added = d.added
        /\ b.used = d.used /\ b.rollup = d.rollup /\ b.paid = d.paid
        /\ b.exception = d.exception /\ b.covered = d.covered /\ b.credited = d.credited
    BY <1>6, <2>1
  <2>4. e = IF l.action = "credit" /\ n > 0 THEN g ELSE b
    BY <1>7, <2>2 DEF Decide, MakesCredit
  <2> HIDE DEF b, n
  <2>5. CASE ~(l.action = "credit" /\ n > 0)
    <3>1. e = b
      BY <2>4, <2>5
    <3>2. Reviewed(d, l, e)
      <4>1. b.credited[r] = d.credited[r] + 0
        BY <1>1, <1>2, <2>3
      <4> QED
        BY <1>7, <2>3, <2>5, <3>1, <4>1 DEF Reviewed, row, n, r
    <3> QED
      BY <2>3, <3>1, <3>2 DEF Decides, e, r
  <2>6. CASE l.action = "credit" /\ n > 0
    <3>1. n \in Nat
      <4>1. Total(d, r) \in Nat /\ Gross(r) \in Nat
        BY <1>1, TotalsType, LedgerAssumption DEF Total, Gross, TransferType
      <4>2. n = Gross(r) - Total(d, r)
        BY DEF n, Surplus, Total
      <4> QED
        BY <2>6, <4>1, <4>2
    <3>2. u \in Unit
      BY <1>1, <1>7
    <3>3. /\ f \in Tables(D)
          /\ f.bills = b.bills /\ f.outstanding = b.outstanding /\ f.rollup = b.rollup
          /\ f.used = b.used /\ f.payment = b.payment /\ f.paid = b.paid
          /\ f.exception = b.exception /\ f.covered = b.covered
          /\ f.added = [b.added EXCEPT ![u] = b.added[u] + n]
          /\ f.credited = [b.credited EXCEPT ![r] = b.credited[r] + n]
      BY <1>1, <2>3, <3>1, <3>2, AddCreditFacts
    <3> HIDE DEF f
    <3>4. /\ g \in Tables(D)
          /\ g.bills = f.bills /\ g.outstanding = f.outstanding /\ g.added = f.added
          /\ g.used = f.used /\ g.payment = f.payment /\ g.paid = f.paid
          /\ g.exception = f.exception /\ g.covered = f.covered /\ g.credited = f.credited
          /\ g.rollup[u] = t.sums
          /\ \A v \in Unit \ {u} : g.rollup[v] = f.rollup[v]
      BY <1>1, <3>2, <3>3, RecomputeUnitRollupsFacts
    <3> HIDE DEF g
    <3>5. e = g
      BY <2>4, <2>6
    <3>6. OthersStay(d, g, r)
      <4>1. \A s \in Ref \ {r} : g.credited[s] = b.credited[s]
        BY <1>2, <2>3, <3>3, <3>4
      <4> QED
        BY <2>3, <3>3, <3>4, <4>1 DEF OthersStay, SameRows
    <3>7. PaidGrows(d, g)
      BY <2>3, <3>3, <3>4, NothingMoves
    <3>8. RowsBalance(d) /\ t.sums = Sums(g, u) => RowsBalance(g)
      <4> SUFFICES ASSUME RowsBalance(d), NEW v \in Unit \ {u} PROVE Balanced(g, v)
        BY <3>4 DEF RowsBalance, Balanced
      <4>1. Balanced(d, v)
        BY DEF RowsBalance
      <4>2. g.outstanding = d.outstanding /\ g.used = d.used /\ g.rollup[v] = d.rollup[v]
        BY <2>3, <3>3, <3>4
      <4>3. g.added[v] = d.added[v]
        BY <1>2, <2>3, <3>3, <3>4
      <4> QED
        BY <4>1, <4>2, <4>3 DEF Balanced, Sums, ChargesOf
    <3>9. Reviewed(d, l, g)
      <4>1. g.payment[r] = row /\ g.paid[r] = d.paid[r]
        BY <2>3, <3>3, <3>4
      <4>2. g.credited[r] = d.credited[r] + n
        BY <1>1, <1>2, <2>3, <3>3, <3>4
      <4> QED
        BY <1>7, <2>6, <4>1, <4>2 DEF Reviewed, n, r
    <3>10. Recomputes(d, l)
      BY <1>7, <2>6 DEF Recomputes, MakesCredit, n, r
    <3> QED
      BY <2>3, <3>3, <3>4, <3>5, <3>6, <3>7, <3>8, <3>9, <3>10 DEF Decides, r, e
  <2> QED
    BY <2>5, <2>6
<1>8. CASE l.type = "REVERSAL" \/ (l.type = "DUPLICATE" /\ l.action # "duplicate-keep")
  <2>1. e = d
    BY <1>8 DEF Decide
  <2>2. Reviewed(d, l, d)
    BY <1>5, <1>8 DEF Reviewed
  <2> QED
    BY <1>5, <2>1, <2>2 DEF Decides
<1>9. CASE l.type = "THIRD_PARTY" /\ l.action = "refund"
  <2> DEFINE row == [status |-> "REVERSED", unit |-> unit]
             b == [d EXCEPT !.payment[r] = row]
  <2>1. row \in [status : PaymentStatus, unit : Unit \cup {NoUnit}]
    BY <1>3, <1>4 DEF PaymentStatus
  <2>2. b = [d EXCEPT !.payment[r].status = "REVERSED"]
    <3>1. [d.payment EXCEPT ![r].status = "REVERSED"] = [d.payment EXCEPT ![r] = row]
      BY <1>1, <1>2
    <3> QED
      BY <3>1
  <2>3. /\ b \in Tables(D) /\ b.payment[r] = row
        /\ OthersStay(d, b, r) /\ PaidGrows(d, b) /\ (RowsBalance(d) => RowsBalance(b))
        /\ b.bills = d.bills /\ b.paid = d.paid
        /\ b.exception = d.exception /\ b.credited = d.credited
    <3> HIDE DEF row
    <3> QED
      BY <1>6, <2>1
  <2>4. e = b
    BY <1>9, <2>2 DEF Decide
  <2> HIDE DEF b
  <2>5. Reviewed(d, l, b)
    BY <1>9, <2>3 DEF Reviewed, row
  <2> QED
    BY <2>3, <2>4, <2>5 DEF Decides
<1>10. CASE \/ l.type = "DUPLICATE" /\ l.action = "duplicate-keep"
            \/ l.type = "THIRD_PARTY" /\ l.action # "refund"
  <2>1. e = ApplyPaymentToUnit(d, r, t)
    BY <1>10 DEF Decide
  <2>5. Applies(l)
    BY <1>10 DEF Applies
  <2>3. e \in Tables(D) /\ Attributes(d, r, t, e) /\ t.unit = u
    BY <1>1, <2>1, <2>5, ApplyPaymentToUnitFacts
  <2>4. Reviewed(d, l, e)
    BY <1>10, <2>3 DEF Attributes, Reviewed
  <2> QED
    BY <2>3, <2>4, <2>5 DEF Attributes, Decides, Recomputes, KeepsRows
<1>11. CASE l.type = "MISDIRECTED"
  <2> DEFINE row == [status |-> d.payment[r].status, unit |-> u]
             b == [d EXCEPT !.payment[r] = row]
  <2>1. u \in Unit
    BY <1>1, <1>11
  <2>2. row \in [status : PaymentStatus, unit : Unit \cup {NoUnit}]
    BY <1>3, <2>1
  <2>10. Applies(l) /\ t.unit = u /\ MayApply(d, t)
    BY <1>1, <1>11 DEF Applies
  <2>3. b = [d EXCEPT !.payment[r].unit = t.unit]
    <3>1. [d.payment EXCEPT ![r].unit = u] = [d.payment EXCEPT ![r] = row]
      BY <1>1, <1>2
    <3> QED
      BY <2>10, <3>1
  <2>4. /\ b \in Tables(D) /\ b.payment[r] = row
        /\ OthersStay(d, b, r) /\ PaidGrows(d, b) /\ (RowsBalance(d) => RowsBalance(b))
        /\ b.bills = d.bills /\ b.paid = d.paid /\ b.outstanding = d.outstanding
        /\ b.exception = d.exception /\ b.credited = d.credited
    BY <1>6, <2>2
  <2>5. e = ApplyPaymentToUnit(b, r, t)
    BY <1>11, <2>3 DEF Decide
  <2> HIDE DEF b
  <2>11. MayApply(b, t)
    BY <2>4, <2>10 DEF MayApply, ChargesOf
  <2>6. e \in Tables(D) /\ Attributes(b, r, t, e)
    BY <1>1, <2>4, <2>5, <2>11, ApplyPaymentToUnitFacts
  <2>7. OthersStay(d, e, r) /\ PaidGrows(d, e) /\ KeepsRows(d, e, u, t.sums)
    BY <2>4, <2>6, <2>10 DEF Attributes, OthersStay, SameRows, PaidGrows, KeepsRows
  <2>8. AppliesInFull(d, e, r)
    BY <2>4, <2>6 DEF Attributes, AppliesInFull, AppliedIn, Total
  <2>9. Reviewed(d, l, e)
    BY <1>11, <2>4, <2>6, <2>8 DEF Attributes, Reviewed, row
  <2> QED
    BY <2>4, <2>6, <2>7, <2>9, <2>10 DEF Attributes, Decides, Recomputes, KeepsRows
<1> QED
  BY <1>1, <1>7, <1>8, <1>9, <1>10, <1>11 DEF ExceptionType, NotAnException

(* What a decision writes elsewhere does not depend on the sums.           *)
LEMMA DecisionIgnoresSums ==
  ASSUME NEW D \in SUBSET Charge, NEW d \in Tables(D), NEW l, NEW t, MayDecide(d, l, t),
         NEW s, MayDecide(d, l, s), Applies(l) => SameReads(t, s), wire \in [Ref -> Transfers]
  PROVE  SameSums(Decide(d, l, t), Decide(d, l, s))
<1> DEFINE r == l.ref
<1>1. /\ r \in Ref /\ (l.type # "REVERSAL" => l.unit \in Unit) /\ l.type \in ExceptionType \ {NotAnException}
      /\ t.sums \in UnitRow /\ s.sums \in UnitRow
      /\ Applies(l) => t.unit = l.unit /\ s.unit = l.unit /\ MayApply(d, t) /\ MayApply(d, s)
  BY DEF MayDecide
<1>2. \A f : SameSums(f, f)
  BY DEF SameSums
<1>3. CASE l.type = "OVERPAYMENT"
  <2> DEFINE b == [d EXCEPT !.payment[r].status = "OVERPAYMENT"]
             f == AddCredit(b, r, l.unit, Surplus(d, r))
             G(sums) == RecomputeUnitRollups(f, l.unit, sums)
  <2>1. /\ Decide(d, l, t) = IF MakesCredit(d, l) THEN G(t.sums) ELSE b
        /\ Decide(d, l, s) = IF MakesCredit(d, l) THEN G(s.sums) ELSE b
    BY <1>3 DEF Decide
  <2>2. \A sums : /\ G(sums).outstanding = f.outstanding /\ G(sums).added = f.added
                  /\ G(sums).used = f.used
    <3>1. b = [d EXCEPT !.payment = [d.payment EXCEPT ![r].status = "OVERPAYMENT"]]
      OBVIOUS
    <3>2. f = [b EXCEPT !.added = [b.added EXCEPT ![l.unit] = @ + Surplus(d, r)],
                        !.credited = [b.credited EXCEPT ![r] = @ + Surplus(d, r)]]
      BY DEF AddCredit
    <3> DEFINE payment == [d.payment EXCEPT ![r].status = "OVERPAYMENT"]
               added == [b.added EXCEPT ![l.unit] = @ + Surplus(d, r)]
               credited == [b.credited EXCEPT ![r] = @ + Surplus(d, r)]
    <3>3. f = [[d EXCEPT !.payment = payment] EXCEPT !.added = added, !.credited = credited]
      BY <3>1, <3>2
    <3> HIDE DEF b, f, payment, added, credited
    <3> SUFFICES ASSUME NEW sums PROVE G(sums).outstanding = f.outstanding
                                       /\ G(sums).added = f.added /\ G(sums).used = f.used
      OBVIOUS
    <3> DEFINE rollup == [f.rollup EXCEPT ![l.unit] = sums]
    <3>4. G(sums) = [f EXCEPT !.rollup = rollup]
      BY DEF RecomputeUnitRollups
    <3> HIDE DEF G, rollup
    <3>5. DOMAIN f = DOMAIN d /\ {"outstanding", "added", "used"} \subseteq DOMAIN d
      BY <3>3 DEF Tables
    <3> QED
      BY <3>4, <3>5
  <2> HIDE DEF G, f, b
  <2> QED
    BY <1>2, <2>1, <2>2 DEF SameSums
<1>4. CASE \/ l.type = "REVERSAL" \/ (l.type = "DUPLICATE" /\ l.action # "duplicate-keep")
           \/ l.type = "THIRD_PARTY" /\ l.action = "refund"
  <2>1. Decide(d, l, t) = Decide(d, l, s)
    BY <1>4 DEF Decide
  <2> QED
    BY <1>2, <2>1
<1>5. CASE \/ l.type = "DUPLICATE" /\ l.action = "duplicate-keep"
           \/ l.type = "THIRD_PARTY" /\ l.action # "refund"
  <2>1. Applies(l)
    BY <1>5 DEF Applies
  <2>2. Decide(d, l, t) = ApplyPaymentToUnit(d, r, t) /\ Decide(d, l, s) = ApplyPaymentToUnit(d, r, s)
    BY <1>5 DEF Decide
  <2> QED
    BY <1>1, <2>1, <2>2, AttributionIgnoresSums
<1>6. CASE l.type = "MISDIRECTED"
  <2> DEFINE row == [status |-> d.payment[r].status, unit |-> l.unit]
             b == [d EXCEPT !.payment[r] = row]
  <2>1. Applies(l) /\ l.unit \in Unit
    BY <1>1, <1>6 DEF Applies
  <2>2. d.payment \in [Ref -> [status : PaymentStatus, unit : Unit \cup {NoUnit}]]
    BY DEF Tables
  <2>3. row \in [status : PaymentStatus, unit : Unit \cup {NoUnit}]
    BY <1>1, <2>1, <2>2
  <2>4. b = [d EXCEPT !.payment[r].unit = l.unit]
    <3>1. [d.payment EXCEPT ![r].unit = l.unit] = [d.payment EXCEPT ![r] = row]
      BY <1>1, <2>2
    <3> QED
      BY <3>1
  <2>5. Decide(d, l, t) = ApplyPaymentToUnit(b, r, t) /\ Decide(d, l, s) = ApplyPaymentToUnit(b, r, s)
    BY <1>1, <1>6, <2>1, <2>4 DEF Decide
  <2> HIDE DEF row
  <2>6. b \in Tables(D) /\ b.outstanding = d.outstanding
    BY <1>1, <2>3, BookedFacts
  <2> HIDE DEF b
  <2>7. MayApply(b, t) /\ MayApply(b, s)
    BY <1>1, <2>1, <2>6 DEF MayApply, ChargesOf
  <2> QED
    BY <1>1, <2>1, <2>5, <2>6, <2>7, AttributionIgnoresSums
<1> QED
  BY <1>1, <1>3, <1>4, <1>5, <1>6 DEF ExceptionType, NotAnException

(* Creating a charge adds a row that owes the amount of the bill; the rows *)
(* of the other units stay right.                                          *)
LEMMA ChargedFacts ==
  ASSUME NEW D \in SUBSET Charge, NEW d \in Tables(D), NEW b \in Bill, NEW u \in Unit
  PROVE  LET c == <<b, u>>
             e == Charged(d, <<b, u>>)
         IN  /\ D \cup {c} \in SUBSET Charge /\ e \in Tables(D \cup {c})
             /\ e.bills = d.bills /\ e.added = d.added /\ e.used = d.used /\ e.rollup = d.rollup
             /\ e.payment = d.payment /\ e.paid = d.paid /\ e.exception = d.exception
             /\ e.covered = d.covered /\ e.credited = d.credited
             /\ DOMAIN e.outstanding = D \cup {c}
             /\ \A x \in D \cup {c} :
                  e.outstanding[x] = IF x = c THEN BillAmount[b] ELSE d.outstanding[x]
             /\ \A v \in Unit \ {u} : Balanced(d, v) => Balanced(e, v)
<1> DEFINE c == <<b, u>>
           o == [x \in D \cup {c} |-> IF x = c THEN BillAmount[b] ELSE d.outstanding[x]]
           e == [d EXCEPT !.outstanding = o]
<1>1. d.outstanding \in [D -> Int] /\ BillAmount[b] \in Int
  BY LedgerAssumption DEF Tables
<1>2. c \in Charge /\ D \cup {c} \in SUBSET Charge
  BY DEF Charge
<1>3. Charged(d, <<b, u>>) = e
  BY <1>1 DEF Charged
<1>4. o \in [D \cup {c} -> Int]
  BY <1>1
<1>5. /\ e \in Tables(D \cup {c}) /\ e.outstanding = o
      /\ e.bills = d.bills /\ e.added = d.added /\ e.used = d.used /\ e.rollup = d.rollup
      /\ e.payment = d.payment /\ e.paid = d.paid /\ e.exception = d.exception
      /\ e.covered = d.covered /\ e.credited = d.credited
  <2> HIDE DEF o
  <2> QED
    BY <1>4 DEF Tables
<1> HIDE DEF e
<1>6. ASSUME NEW v \in Unit \ {u}, Balanced(d, v) PROVE Balanced(e, v)
  <2>1. SameCharges(d, e, v)
    <3>1. c[2] = u
      OBVIOUS
    <3> HIDE DEF c
    <3> QED
      BY <1>1, <1>4, <1>5, <3>1 DEF SameCharges, ChargesOf
  <2> QED
    BY <1>5, <1>6, <2>1, BalancedStays
<1> QED
  BY <1>2, <1>3, <1>4, <1>5, <1>6

(* With the charge there is one charge more.                               *)
LEMMA ChargedDomain ==
  ASSUME NEW D \in SUBSET Charge, NEW d \in Tables(D), NEW c
  PROVE  /\ DOMAIN Charged(d, c).outstanding = D \cup {c}
         /\ Charged(d, c).added = d.added /\ Charged(d, c).used = d.used
<1>1. d.outstanding \in [D -> Int]
  BY DEF Tables
<1>2. Charged(d, c).outstanding =
        [x \in D \cup {c} |-> IF x = c THEN BillAmount[c[1]] ELSE d.outstanding[x]]
  BY <1>1 DEF Charged, Tables
<1>3. Charged(d, c).added = d.added /\ Charged(d, c).used = d.used
  <2> DEFINE o == [x \in DOMAIN d.outstanding \cup {c} |->
                     IF x = c THEN BillAmount[c[1]] ELSE d.outstanding[x]]
  <2>1. Charged(d, c) = [d EXCEPT !.outstanding = o]
    BY DEF Charged
  <2> HIDE DEF o
  <2> QED
    BY <2>1 DEF Tables
<1> QED
  BY <1>2, <1>3

(* What a transaction that bills a unit has read.                          *)
MayBill(d, b, t) == MayApply(Charged(d, <<b, t.unit>>), t)

(* What it leaves does not depend on the sums.  When it has seen the open  *)
(* charges as they are, the credit is spent and the rows keep the sums.    *)
BillsCredit(d, b, t, e) ==
  LET w == Charged(d, <<b, t.unit>>)
  IN  /\ \A s : MayBill(d, b, s) /\ SameReads(t, s) => SameSums(e, UnitBilled(d, b, s))
      /\ t.snapshot = OpenCharges(w, t.unit) =>
           /\ \E take \in [Charge -> Int] : Spends(w, t.unit, t.credit, t.sums, take, e)
           /\ KeepsRows(d, e, t.unit, t.sums)

(* Billing one unit creates its charge and pays it from credit; it touches *)
(* no payment and no exception.                                            *)
Bills(D, d, b, t, e) ==
  LET E == D \cup {<<b, t.unit>>}
  IN  /\ t.unit \in Unit /\ E \in SUBSET Charge /\ e \in Tables(E)
      /\ e.bills = d.bills /\ e.payment = d.payment /\ e.exception = d.exception
      /\ e.paid = d.paid /\ e.credited = d.credited

LEMMA BillUnitFacts ==
  ASSUME NEW D \in SUBSET Charge, NEW d \in Tables(D), NEW b \in Bill, NEW t, MayBill(d, b, t)
  PROVE  LET e == UnitBilled(d, b, t) IN Bills(D, d, b, t, e) /\ BillsCredit(d, b, t, e)
<1> DEFINE u == t.unit
           w == Charged(d, <<b, u>>)
           E == D \cup {<<b, u>>}
           e == UnitBilled(d, b, t)
<1>1. u \in Unit /\ t.credit \in Int /\ t.sums \in UnitRow
  BY DEF MayBill, MayApply
<1>2. /\ E \in SUBSET Charge /\ w \in Tables(E)
      /\ w.bills = d.bills /\ w.payment = d.payment /\ w.exception = d.exception
      /\ w.paid = d.paid /\ w.credited = d.credited
      /\ \A v \in Unit \ {u} : Balanced(d, v) => Balanced(w, v)
  BY <1>1, ChargedFacts
<1>3. PICK S \in SUBSET ChargesOf(w, u) : t.snapshot \in [S -> Int]
  BY DEF MayBill, MayApply
<1>4. e = ConsumeCreditForUnit(w, u, t.credit, t.snapshot, t.sums)
  BY DEF UnitBilled
<1>5. \A s : SameReads(t, s) =>
        UnitBilled(d, b, s) = ConsumeCreditForUnit(w, u, t.credit, t.snapshot, s.sums)
  BY DEF UnitBilled, SameReads
<1>6. \A s : MayBill(d, b, s) => s.sums \in UnitRow
  BY DEF MayBill, MayApply
<1> HIDE DEF w, E, u, e
<1>7. /\ e \in Tables(E) /\ KeepsPayments(w, e)
      /\ \A other \in UnitRow :
           SameSums(e, ConsumeCreditForUnit(w, u, t.credit, t.snapshot, other))
      /\ t.snapshot = OpenCharges(w, u) =>
           \E take \in [Charge -> Int] : Spends(w, u, t.credit, t.sums, take, e)
  BY <1>1, <1>2, <1>3, <1>4, ConsumeCreditFacts
<1>8. ASSUME t.snapshot = OpenCharges(w, u) PROVE KeepsRows(d, e, u, t.sums)
  <2>1. (t.sums = Sums(e, u) => Balanced(e, u)) /\ OthersStayBalanced(w, u, e)
    BY <1>7, <1>8 DEF Spends
  <2> QED
    BY <1>2, <2>1 DEF KeepsRows, RowsBalance, OthersStayBalanced
<1>9. \A s : MayBill(d, b, s) /\ SameReads(t, s) => SameSums(e, UnitBilled(d, b, s))
  BY <1>5, <1>6, <1>7
<1>10. BillsCredit(d, b, t, e)
  BY <1>7, <1>8, <1>9 DEF BillsCredit, w, u
<1> QED
  BY <1>1, <1>2, <1>7, <1>10 DEF Bills, KeepsPayments, e, w, E, u
-----------------------------------------------------------------------------
TablesOK(d) ==
  DOMAIN d.outstanding \subseteq d.bills \X Unit /\ d \in Tables(DOMAIN d.outstanding)

(* The charges of well-formed tables are charges.                          *)
LEMMA TablesOKFacts ==
  \A d : TablesOK(d) => DOMAIN d.outstanding \in SUBSET Charge
BY DEF TablesOK, Tables, Charge

(* What is known of a payment by the type of its exception.                *)
Known(d, clawed, r) ==
  LET p  == d.payment[r]
      ex == d.exception[r]
  IN  /\ ~HasPayment(d, r) => /\ ex.type = NotAnException /\ d.credited[r] = 0
                              /\ \A c \in Charge : d.paid[r][c] = 0
      /\ ex.open => ex.type # NotAnException
      /\ ex.type = "REVERSAL" => p.status = "REVERSED"
      /\ p.status = "EXCEPTION" => ex.type # NotAnException
      /\ ex.type \in {"OVERPAYMENT", "DUPLICATE", "THIRD_PARTY"} => p.unit \in Unit
      /\ p.status = "EXCEPTION" /\ ~ex.open => ex.type = "DUPLICATE"
      /\ r \in clawed => HasPayment(d, r)
      /\ r \in clawed /\ p.status # "REVERSED" =>
           ~ex.open /\ ex.type \notin {NotAnException, "REVERSAL"}

(* What a handler knows of the tables.                                     *)
Serves(d, h, l) ==
  /\ l.pc \in {"charges", "priors", "persist"} => wire[l.ref].account \in Unit
  /\ l.pc \in {"priors", "persist"} => DOMAIN l.snapshot \subseteq ChargesOf(d, wire[l.ref].account)
  /\ l.pc = "reverse" => HasPayment(d, l.ref)
  /\ l.pc \in {"refund", "resolve"} =>
       /\ l.type = d.exception[l.ref].type /\ l.type # NotAnException
       /\ l.type # "REVERSAL" => l.unit \in Unit
       /\ h \in Manager
       /\ <<l.type, l.action>> \in Offered
       /\ l.pc = "refund" => l.type = "OVERPAYMENT" /\ l.action = "refund"
  /\ l.pc = "bill" => l.bill \in d.bills

Memory(l) == \E charges \in SUBSET Charge : l \in HandlerState(charges)

HandlersOK(d, hs) ==
  /\ hs = [h \in Handler |-> hs[h]]
  /\ \A h \in Handler : Memory(hs[h])
  /\ \A h \in Handler : Serves(d, h, hs[h])

(* What an open transaction has read: charges of its unit, the one of its  *)
(* own bill among them.                                                    *)
TxMemory(t) == \E charges \in SUBSET Charge : t \in TxState(charges)

TxServes(d, l, t) ==
  t.at # "none" =>
    /\ l.pc \in {"persist", "resolve", "bill"} /\ t.unit \in Unit
    /\ l.pc = "resolve" => t.unit = l.unit
    /\ \A c \in DOMAIN t.snapshot :
         /\ c[2] = t.unit
         /\ c \in DOMAIN d.outstanding \/ (l.pc = "bill" /\ c = <<l.bill, t.unit>>)

(* It has inserted a payment and has not committed it yet.                 *)
Pending(l, t) == l.pc = "persist" /\ t.at = "commit"

TransactionsOK(d, hs, ts) ==
  /\ ts = [h \in Handler |-> ts[h]]
  /\ \A h \in Handler :
       /\ TxMemory(ts[h]) /\ TxServes(d, hs[h], ts[h])
       /\ Pending(hs[h], ts[h]) =>
            /\ d.payment[hs[h].ref].status = "NONE"
            /\ \A g \in Handler \ {h} : Pending(hs[g], ts[g]) => hs[g].ref # hs[h].ref

BooksInv ==
  /\ wire \in [Ref -> Transfers] /\ refunded \in [Ref -> Nat]
  /\ clawedBack \subseteq Ref /\ stranded \subseteq Ref
  /\ TablesOK(db)
  /\ \A r \in Ref : Known(db, clawedBack, r)
  /\ HandlersOK(db, handler)
  /\ TransactionsOK(db, handler, tx)

(* No handler deletes a row or reopens an exception.                       *)
Later(d, e) ==
  /\ d.bills \subseteq e.bills /\ DOMAIN d.outstanding \subseteq DOMAIN e.outstanding
  /\ PaidGrows(d, e)
  /\ \A r \in Ref : HasPayment(d, r) => HasPayment(e, r)
  /\ \A r \in Ref : d.exception[r].type # NotAnException =>
       /\ e.exception[r].type = d.exception[r].type
       /\ ~d.exception[r].open => ~e.exception[r].open

(* What a handler remembers at each of its steps.                          *)
LEMMA MemoryFacts ==
  ASSUME NEW l, Memory(l)
  PROVE  /\ l.pc \in {"idle", "account", "reverse", "charges", "priors", "persist",
                      "refund", "resolve", "bill"}
         /\ l.pc = "idle" => l = Idle
         /\ l.pc \notin {"idle", "bill"} => l.ref \in Ref
         /\ l.pc \in {"charges", "priors", "persist"} => l.credit \in Int
         /\ l.pc \in {"priors", "persist"} =>
              /\ DOMAIN l.snapshot \subseteq Charge
              /\ l.snapshot \in [DOMAIN l.snapshot -> Int]
         /\ l.pc = "persist" => l.priors \in SUBSET Prior
         /\ l.pc \in {"refund", "resolve"} =>
              /\ l.type \in ExceptionType /\ l.action \in {p[2] : p \in Offered}
              /\ l.unit \in Unit \cup {NoUnit}
              /\ l = [pc |-> l.pc, ref |-> l.ref, type |-> l.type, action |-> l.action,
                      unit |-> l.unit]
         /\ l.pc = "bill" => /\ l.bill \in Bill /\ l.todo \in SUBSET Unit
                             /\ l = [pc |-> "bill", bill |-> l.bill, todo |-> l.todo]
<1>1. PICK charges \in SUBSET Charge : l \in HandlerState(charges)
  BY DEF Memory
<1>2. CASE l = Idle
  BY <1>2 DEF Idle
<1>3. CASE l \in [pc : {"account", "reverse"}, ref : Ref]
  BY <1>3
<1>4. CASE l \in [pc : {"charges"}, ref : Ref, credit : Int]
  BY <1>4
<1>5. CASE l \in [pc : {"priors"}, ref : Ref, credit : Int, snapshot : [charges -> Int]]
  BY <1>5
<1>6. CASE l \in [pc : {"persist"}, ref : Ref, credit : Int, snapshot : [charges -> Int],
                  priors : SUBSET Prior]
  BY <1>6
<1>7. CASE l \in [pc : {"refund", "resolve"}, ref : Ref, type : ExceptionType,
                  action : {p[2] : p \in Offered}, unit : Unit \cup {NoUnit}]
  <2> DEFINE A == {p[2] : p \in Offered}
  <2> HIDE DEF A
  <2>1. l \in [pc : {"refund", "resolve"}, ref : Ref, type : ExceptionType,
               action : A, unit : Unit \cup {NoUnit}]
    BY <1>7 DEF A
  <2>2. /\ l.pc \in {"refund", "resolve"} /\ l.ref \in Ref /\ l.type \in ExceptionType
        /\ l.action \in A /\ l.unit \in Unit \cup {NoUnit}
        /\ l = [pc |-> l.pc, ref |-> l.ref, type |-> l.type, action |-> l.action, unit |-> l.unit]
    BY <2>1
  <2> QED
    BY <2>2 DEF A
<1>8. CASE l \in [pc : {"bill"}, bill : Bill, todo : SUBSET Unit]
  BY <1>8
<1> QED
  BY <1>1, <1>2, <1>3, <1>4, <1>5, <1>6, <1>7, <1>8 DEF HandlerState

(* What a transaction remembers.                                           *)
LEMMA TxMemoryFacts ==
  ASSUME NEW t, TxMemory(t)
  PROVE  /\ t.at \in {"none", "charges", "write", "commit"} /\ t.unit \in Unit \cup {NoUnit}
         /\ t.credit \in Int /\ t.sums \in UnitRow /\ t.locks \in SUBSET Charge
         /\ DOMAIN t.snapshot \in SUBSET Charge /\ t.snapshot \in [DOMAIN t.snapshot -> Int]
         /\ t = [at |-> t.at, unit |-> t.unit, credit |-> t.credit, snapshot |-> t.snapshot,
                 locks |-> t.locks, sums |-> t.sums]
<1>1. PICK charges \in SUBSET Charge : t \in TxState(charges)
  BY DEF TxMemory
<1>2. t \in [at : {"none", "charges", "write", "commit"}, unit : Unit \cup {NoUnit}, credit : Int,
             snapshot : [charges -> Int], locks : SUBSET Charge, sums : UnitRow]
  BY <1>1 DEF TxState, UnitRow
<1> QED
  BY <1>2

(* Nothing is remembered outside a transaction.                            *)
LEMMA NoTxServes == TxMemory(NoTx) /\ NoTx.at = "none" /\ NoTx.sums \in UnitRow
                    /\ NoTx.snapshot = << >> /\ DOMAIN << >> = {}
<1>1. NoSums \in UnitRow
  BY DEF NoSums, UnitRow
<1>2. << >> \in [{} -> Int] /\ DOMAIN << >> = {}
  OBVIOUS
<1>3. NoTx \in TxState({})
  BY <1>1, <1>2 DEF NoTx, TxState, UnitRow
<1> QED
  BY <1>1, <1>2, <1>3 DEF TxMemory, NoTx

(* What a handler knows of the tables stays true while others write.       *)
LEMMA ServesStays ==
  ASSUME NEW d, NEW e, NEW h, NEW l, Memory(l), Serves(d, h, l), Later(d, e)
  PROVE  Serves(e, h, l)
<1>1. l.pc \notin {"idle", "bill"} => l.ref \in Ref
  BY MemoryFacts
<1>2. l.pc \in {"priors", "persist"} => DOMAIN l.snapshot \subseteq ChargesOf(e, wire[l.ref].account)
  BY DEF Serves, Later, ChargesOf
<1>3. l.pc = "reverse" => HasPayment(e, l.ref)
  BY <1>1 DEF Serves, Later
<1>4. l.pc \in {"refund", "resolve"} => l.type = e.exception[l.ref].type
  BY <1>1 DEF Serves, Later
<1>5. l.pc = "bill" => l.bill \in e.bills
  BY DEF Serves, Later
<1> QED
  BY <1>2, <1>3, <1>4, <1>5 DEF Serves

(* So it does for all handlers when one of them moves on.                  *)
LEMMA HandlersStay ==
  ASSUME NEW d, NEW e, NEW hs, HandlersOK(d, hs), Later(d, e), NEW h \in Handler,
         NEW next, Memory(next), Serves(e, h, next)
  PROVE  HandlersOK(e, [hs EXCEPT ![h] = next])
<1> DEFINE new == [hs EXCEPT ![h] = next]
<1>1. \A g \in Handler : new[g] = IF g = h THEN next ELSE hs[g]
  BY DEF HandlersOK
<1>2. new = [g \in Handler |-> new[g]]
  BY DEF HandlersOK
<1> HIDE DEF new
<1>3. \A g \in Handler : Memory(new[g])
  BY <1>1 DEF HandlersOK
<1>4. ASSUME NEW g \in Handler PROVE Serves(e, g, new[g])
  <2>1. CASE g = h
    BY <1>1, <2>1
  <2>2. CASE g # h
    <3>1. Memory(hs[g]) /\ Serves(d, g, hs[g])
      BY DEF HandlersOK
    <3> QED
      BY <1>1, <2>2, <3>1, ServesStays
  <2> QED
    BY <2>1, <2>2
<1> QED
  BY <1>2, <1>3, <1>4 DEF HandlersOK, new

Continues(h, next) ==
  /\ handler' = [handler EXCEPT ![h] = next]
  /\ Memory(next) /\ Serves(db', h, next)

(* What a step of a handler has to leave behind.                           *)
LeavesBooks ==
  /\ wire' = wire /\ refunded' \in [Ref -> Nat]
  /\ clawedBack' \subseteq Ref /\ stranded' \subseteq Ref
  /\ TablesOK(db') /\ Later(db, db')
  /\ \A r \in Ref : Known(db', clawedBack', r)

(* What transactions have read stays what they must know while one of the  *)
(* handlers takes a step.                                                  *)
LEMMA TransactionsStay ==
  ASSUME BooksInv, Later(db, db'), NEW h \in Handler, NEW next, NEW t,
         handler' = [handler EXCEPT ![h] = next], tx' = [tx EXCEPT ![h] = t],
         TxMemory(t), TxServes(db', next, t),
         \A g \in Handler \ {h} : Pending(handler[g], tx[g]) =>
           db'.payment[handler[g].ref].status = "NONE",
         Pending(next, t) =>
           /\ db'.payment[next.ref].status = "NONE"
           /\ \A g \in Handler \ {h} : Pending(handler[g], tx[g]) => handler[g].ref # next.ref
  PROVE  TransactionsOK(db', handler', tx')
<1>1. \A g \in Handler : /\ handler'[g] = IF g = h THEN next ELSE handler[g]
                         /\ tx'[g] = IF g = h THEN t ELSE tx[g]
  BY DEF BooksInv, HandlersOK, TransactionsOK
<1>2. tx' = [g \in Handler |-> tx'[g]]
  BY DEF BooksInv, TransactionsOK
<1>3. ASSUME NEW g \in Handler PROVE TxMemory(tx'[g]) /\ TxServes(db', handler'[g], tx'[g])
  <2>1. CASE g = h
    BY <1>1, <2>1
  <2>2. CASE g # h
    <3>1. TxMemory(tx[g]) /\ TxServes(db, handler[g], tx[g])
      BY DEF BooksInv, TransactionsOK
    <3>2. TxServes(db', handler[g], tx[g])
      BY <3>1 DEF TxServes, Later
    <3> QED
      BY <1>1, <2>2, <3>1, <3>2
  <2> QED
    BY <2>1, <2>2
<1>4. ASSUME NEW g \in Handler, Pending(handler'[g], tx'[g])
      PROVE  /\ db'.payment[handler'[g].ref].status = "NONE"
             /\ \A k \in Handler \ {g} : Pending(handler'[k], tx'[k]) => handler'[k].ref # handler'[g].ref
  <2>1. CASE g = h
    BY <1>1, <1>4, <2>1
  <2>2. CASE g # h
    BY <1>1, <1>4, <2>2 DEF BooksInv, TransactionsOK
  <2> QED
    BY <2>1, <2>2
<1> QED
  BY <1>2, <1>3, <1>4 DEF TransactionsOK

(* A step that leaves the books in order, and its handler with what it     *)
(* must know, keeps the invariant.                                         *)
LEMMA StepKeepsBooks ==
  ASSUME BooksInv, LeavesBooks, NEW h \in Handler, NEW next, Continues(h, next),
         TransactionsOK(db', handler', tx')
  PROVE  BooksInv'
<1>1. HandlersOK(db', handler')
  BY HandlersStay DEF BooksInv, LeavesBooks, Continues
<1>2. HandlersOK(db, handler)'
  BY <1>1 DEF LeavesBooks, HandlersOK, Serves
<1>3. wire' \in [Ref -> Transfers]
  BY DEF BooksInv, LeavesBooks
<1>4. TablesOK(db)' /\ (\A r \in Ref : Known(db, clawedBack, r))'
  BY DEF LeavesBooks
<1>5. TransactionsOK(db, handler, tx)'
  BY DEF TransactionsOK, TxServes, Pending
<1> QED
  BY <1>2, <1>3, <1>4, <1>5 DEF BooksInv, LeavesBooks

(* A handler without a request knows nothing.                              *)
LEMMA IdleServes == \A d, h : Memory(Idle) /\ Serves(d, h, Idle)
<1>1. Idle \in HandlerState({}) /\ {} \in SUBSET Charge
  BY DEF HandlerState
<1>2. Idle.pc = "idle"
  BY DEF Idle
<1> QED
  BY <1>1, <1>2 DEF Memory, Serves

(* Tables that have not changed are later tables.                          *)
LEMMA LaterItself ==
  ASSUME TablesOK(db) PROVE Later(db, db)
<1>1. PaidGrows(db, db)
  BY NothingMoves, TablesOKFacts DEF TablesOK
<1> QED
  BY <1>1 DEF Later

(* A step that reads leaves the books in order.                            *)
LEMMA ReadingLeavesBooks ==
  ASSUME BooksInv, db' = db, wire' = wire, refunded' \in [Ref -> Nat],
         clawedBack' = clawedBack, stranded' \subseteq Ref
  PROVE  LeavesBooks
BY LaterItself DEF BooksInv, LeavesBooks

(* A step on payment r: the payments it does not touch stay known.         *)
LEMMA OthersStayKnown ==
  ASSUME NEW d, NEW e, NEW r \in Ref, OthersStay(d, e, r), NEW clawed, NEW clawed2,
         clawed2 \subseteq clawed \cup {r},
         \A s \in Ref : Known(d, clawed, s), Known(e, clawed2, r)
  PROVE  \A s \in Ref : Known(e, clawed2, s)
<1> SUFFICES ASSUME NEW s \in Ref, s # r PROVE Known(e, clawed2, s)
  OBVIOUS
<1>1. SameRows(d, e, s) /\ Known(d, clawed, s)
  BY DEF OthersStay
<1>2. s \in clawed2 => s \in clawed
  OBVIOUS
<1> QED
  BY <1>1, <1>2 DEF SameRows, Known, HasPayment

(* Tables in which only the rows of one payment were rewritten, forwards,  *)
(* are later tables.                                                       *)
LEMMA OthersStayLater ==
  ASSUME NEW d, NEW e, NEW r \in Ref, OthersStay(d, e, r), PaidGrows(d, e),
         d.bills \subseteq e.bills, DOMAIN d.outstanding \subseteq DOMAIN e.outstanding,
         HasPayment(d, r) => HasPayment(e, r),
         d.exception[r].type # NotAnException =>
           e.exception[r].type = d.exception[r].type /\ (~d.exception[r].open => ~e.exception[r].open)
  PROVE  Later(d, e)
<1>1. ASSUME NEW s \in Ref
      PROVE  /\ HasPayment(d, s) => HasPayment(e, s)
             /\ d.exception[s].type # NotAnException =>
                  /\ e.exception[s].type = d.exception[s].type
                  /\ ~d.exception[s].open => ~e.exception[s].open
  <2>1. CASE s = r
    BY <2>1
  <2>2. CASE s # r
    BY <2>2 DEF OthersStay, SameRows, HasPayment
  <2> QED
    BY <2>1, <2>2
<1> QED
  BY <1>1 DEF Later

(* The part of the invariant about one handler.                            *)
LEMMA HandlerFacts ==
  ASSUME BooksInv, NEW h \in Handler
  PROVE  /\ Memory(handler[h]) /\ Serves(db, h, handler[h])
         /\ handler[h] = Idle \/ handler[h].pc # "idle"
BY MemoryFacts DEF BooksInv, HandlersOK

(* The part of the invariant about one transaction.                        *)
LEMMA TxFacts ==
  ASSUME BooksInv, NEW h \in Handler
  PROVE  /\ TxMemory(tx[h]) /\ TxServes(db, handler[h], tx[h])
         /\ Pending(handler[h], tx[h]) => ~HasPayment(db, handler[h].ref)
BY DEF BooksInv, TransactionsOK, HasPayment
-----------------------------------------------------------------------------

(* The check of the reference reads, and starts an ingest only for a       *)
(* reference without a payment.                                            *)
LEMMA IngestDedupeOK ==
  ASSUME BooksInv, NEW h \in Handler, NEW r \in Ref, IngestDedupe(h, r)
  PROVE  LeavesBooks /\ \E next : Continues(h, next)
<1> DEFINE next == [pc |-> "account", ref |-> r]
<1>1. LeavesBooks
  BY ReadingLeavesBooks DEF IngestDedupe, Quiet, BooksInv
<1>2. next \in HandlerState({}) /\ {} \in SUBSET Charge
  BY DEF HandlerState
<1>3. Continues(h, next)
  BY <1>2 DEF IngestDedupe, Goes, Continues, Memory, Serves
<1> QED
  BY <1>1, <1>3

(* Reading the unit and its credit keeps the invariant.                    *)
LEMMA ReadUnitOK ==
  ASSUME BooksInv, NEW h \in Handler, ReadUnit(h)
  PROVE  LeavesBooks /\ \E next : Continues(h, next)
<1> DEFINE r == handler[h].ref
           u == wire[r].account
           next == [pc |-> "charges", ref |-> r, credit |-> db.rollup[u].credit]
<1>1. LeavesBooks
  BY ReadingLeavesBooks DEF ReadUnit, Quiet, BooksInv
<1>2. r \in Ref
  BY HandlerFacts, MemoryFacts DEF ReadUnit
<1>3. u \in Unit
  BY <1>2, LedgerAssumption DEF ReadUnit, BooksInv, TransferType
<1>4. db.rollup[u].credit \in Int
  BY <1>3 DEF BooksInv, TablesOK, Tables
<1>5. next \in HandlerState({}) /\ {} \in SUBSET Charge
  BY <1>2, <1>4 DEF HandlerState
<1>6. Continues(h, next)
  BY <1>3, <1>5 DEF ReadUnit, Goes, Continues, Memory, Serves
<1> QED
  BY <1>1, <1>6

(* Reading the open charges keeps the invariant.                           *)
LEMMA ReadChargesOK ==
  ASSUME BooksInv, NEW h \in Handler, ReadCharges(h)
  PROVE  LeavesBooks /\ \E next : Continues(h, next)
<1> DEFINE l == handler[h]
           snapshot == OpenCharges(db, wire[l.ref].account)
           next == [pc |-> "priors", ref |-> l.ref, credit |-> l.credit, snapshot |-> snapshot]
<1>1. LeavesBooks
  BY ReadingLeavesBooks DEF ReadCharges, Quiet, BooksInv
<1>2. l.pc = "charges" /\ l.ref \in Ref /\ l.credit \in Int /\ wire[l.ref].account \in Unit
  BY HandlerFacts, MemoryFacts DEF ReadCharges, Serves
<1>3. /\ DOMAIN snapshot \subseteq ChargesOf(db, wire[l.ref].account)
      /\ DOMAIN snapshot \in SUBSET Charge
      /\ snapshot \in [DOMAIN snapshot -> Int]
  BY <1>2, OpenChargesFacts, TablesOKFacts DEF BooksInv, TablesOK
<1>4. handler' = [handler EXCEPT ![h] = next] /\ db' = db
  BY DEF ReadCharges, Goes
<1> HIDE DEF snapshot
<1>5. next \in HandlerState(DOMAIN snapshot)
  BY <1>2, <1>3 DEF HandlerState
<1>6. Continues(h, next)
  BY <1>2, <1>3, <1>4, <1>5 DEF Continues, Memory, Serves
<1> QED
  BY <1>1, <1>6

(* Reading the prior payments keeps the invariant.                         *)
LEMMA ReadPriorsOK ==
  ASSUME BooksInv, NEW h \in Handler, ReadPriors(h)
  PROVE  LeavesBooks /\ \E next : Continues(h, next)
<1> DEFINE l == handler[h]
           w == wire[l.ref]
           seen == {x \in Ref : /\ HasPayment(db, x) /\ db.payment[x].unit = w.account
                                /\ wire[x].at >= w.at - Window}
           priors == {[amount |-> Gross(s), source |-> wire[s].source, at |-> wire[s].at] :
                        s \in seen}
           next == [pc |-> "persist", ref |-> l.ref, credit |-> l.credit,
                    snapshot |-> l.snapshot, priors |-> priors]
<1>1. LeavesBooks
  BY ReadingLeavesBooks DEF ReadPriors, Quiet, BooksInv
<1>2. /\ l.pc = "priors" /\ l.ref \in Ref /\ l.credit \in Int /\ wire[l.ref].account \in Unit
      /\ DOMAIN l.snapshot \in SUBSET Charge /\ l.snapshot \in [DOMAIN l.snapshot -> Int]
      /\ DOMAIN l.snapshot \subseteq ChargesOf(db, wire[l.ref].account)
  BY HandlerFacts, MemoryFacts DEF ReadPriors, Serves
<1>3. priors \in SUBSET Prior
  <2>1. \A s \in Ref : [amount |-> Gross(s), source |-> wire[s].source, at |-> wire[s].at] \in Prior
    BY LedgerAssumption DEF BooksInv, TransferType, Prior, Gross
  <2> QED
    BY <2>1
<1>4. handler' = [handler EXCEPT ![h] = next] /\ db' = db
  BY DEF ReadPriors, Goes
<1> HIDE DEF priors
<1>5. next \in HandlerState(DOMAIN l.snapshot)
  BY <1>2, <1>3 DEF HandlerState
<1>6. Continues(h, next)
  BY <1>2, <1>4, <1>5 DEF Continues, Memory, Serves
<1> QED
  BY <1>1, <1>6

(* Looking up the payment of a reversal keeps the invariant.               *)
LEMMA ReverseFindOK ==
  ASSUME BooksInv, NEW h \in Handler, NEW r \in Ref, ReverseFind(h, r)
  PROVE  LeavesBooks /\ \E next : Continues(h, next)
<1> DEFINE next == [pc |-> "reverse", ref |-> r]
<1>1. LeavesBooks
  BY ReadingLeavesBooks DEF ReverseFind, Quiet, BooksInv
<1>2. next \in HandlerState({}) /\ {} \in SUBSET Charge
  BY DEF HandlerState
<1>3. Continues(h, next)
  BY <1>2 DEF ReverseFind, Goes, Continues, Memory, Serves
<1> QED
  BY <1>1, <1>3

(* Reading an open exception keeps the invariant.                          *)
LEMMA ResolveReadOK ==
  ASSUME BooksInv, NEW h \in Handler, NEW r \in Ref, NEW action \in {p[2] : p \in Offered},
         NEW target \in Unit \cup {NoUnit}, ResolveRead(h, r, action, target)
  PROVE  LeavesBooks /\ \E next : Continues(h, next)
<1> DEFINE type == db.exception[r].type
           pc == IF type = "OVERPAYMENT" /\ action = "refund" THEN "refund" ELSE "resolve"
           unit == IF type = "MISDIRECTED" THEN target ELSE db.payment[r].unit
           A == {p[2] : p \in Offered}
           next == [pc |-> pc, ref |-> r, type |-> type, action |-> action, unit |-> unit]
<1>1. LeavesBooks
  BY ReadingLeavesBooks DEF ResolveRead, Quiet, BooksInv
<1>2. Known(db, clawedBack, r) /\ db.exception[r].open
  BY DEF BooksInv, ResolveRead
<1>3. /\ db.exception \in [Ref -> [type : ExceptionType, open : BOOLEAN]]
      /\ db.payment \in [Ref -> [status : PaymentStatus, unit : Unit \cup {NoUnit}]]
  BY DEF BooksInv, TablesOK, Tables
<1>4. type \in ExceptionType /\ db.payment[r].unit \in Unit \cup {NoUnit}
  BY <1>3
<1>5. type # NotAnException /\ (type # "REVERSAL" => unit \in Unit)
  BY <1>2, <1>4 DEF Known, ResolveRead, ExceptionType
<1>6. /\ handler' = [handler EXCEPT ![h] = next] /\ db' = db
      /\ h \in Manager /\ <<type, action>> \in Offered
  BY DEF ResolveRead, Goes
<1>7. unit \in Unit \cup {NoUnit} /\ pc \in {"refund", "resolve"}
      /\ (pc = "refund" => type = "OVERPAYMENT" /\ action = "refund")
  BY <1>4
<1> HIDE DEF type, pc, unit, A
<1>8. action \in A
  BY DEF A
<1>9. next \in [pc : {"refund", "resolve"}, ref : Ref, type : ExceptionType,
                action : A, unit : Unit \cup {NoUnit}]
  BY <1>4, <1>7, <1>8 DEF type
<1>10. next \in HandlerState({}) /\ {} \in SUBSET Charge
  <2> HIDE DEF next
  <2> QED
    BY <1>9 DEF HandlerState, A
<1>11. next.type = db'.exception[next.ref].type
  BY <1>6 DEF type
<1>12. Continues(h, next)
  BY <1>5, <1>6, <1>7, <1>10, <1>11 DEF Continues, Memory, Serves
<1> QED
  BY <1>1, <1>12

(* Sending the transfer of a refund keeps the invariant.                   *)
LEMMA SendRefundOK ==
  ASSUME BooksInv, NEW h \in Handler, SendRefund(h)
  PROVE  LeavesBooks /\ \E next : Continues(h, next)
<1> DEFINE l == handler[h]
           next == [l EXCEPT !.pc = "resolve"]
<1>1. /\ l.pc = "refund" /\ l.ref \in Ref /\ Memory(l) /\ Serves(db, h, l)
      /\ l.type \in ExceptionType /\ l.action \in {p[2] : p \in Offered}
      /\ l.unit \in Unit \cup {NoUnit}
      /\ l = [pc |-> l.pc, ref |-> l.ref, type |-> l.type, action |-> l.action, unit |-> l.unit]
  BY HandlerFacts, MemoryFacts DEF SendRefund
<1>2. Surplus(db, l.ref) \in Nat
  <2>1. DOMAIN db.outstanding \in SUBSET Charge /\ db \in Tables(DOMAIN db.outstanding)
    BY TablesOKFacts DEF BooksInv, TablesOK
  <2>2. SumOver(db.paid[l.ref], Charge) \in Nat
    BY <1>1, <2>1, TotalsType
  <2>3. Gross(l.ref) \in Nat
    BY <1>1, LedgerAssumption DEF BooksInv, TransferType, Gross
  <2> QED
    BY <1>1, <2>2, <2>3 DEF SendRefund, Surplus
<1>3. refunded' \in [Ref -> Nat]
  BY <1>1, <1>2 DEF SendRefund, BooksInv
<1>4. LeavesBooks
  BY <1>1, <1>3, ReadingLeavesBooks DEF SendRefund, BooksInv
<1>5. next = [pc |-> "resolve", ref |-> l.ref, type |-> l.type, action |-> l.action,
              unit |-> l.unit]
  BY <1>1
<1>6. Memory(next)
  <2> DEFINE A == {p[2] : p \in Offered}
  <2>1. l.action \in A
    BY <1>1
  <2> HIDE DEF A
  <2>2. next \in [pc : {"refund", "resolve"}, ref : Ref, type : ExceptionType,
                  action : A, unit : Unit \cup {NoUnit}]
    BY <1>1, <1>5, <2>1
  <2>3. next \in HandlerState({}) /\ {} \in SUBSET Charge
    <3> HIDE DEF next
    <3> QED
      BY <2>2 DEF HandlerState, A
  <2> QED
    BY <2>3 DEF Memory
<1>7. Serves(db, h, next)
  BY <1>1, <1>5 DEF Serves
<1>8. db' = db /\ \/ handler' = [handler EXCEPT ![h] = next]
                  \/ handler' = [handler EXCEPT ![h] = Idle]
  BY DEF SendRefund, Goes
<1>9. Continues(h, next) \/ Continues(h, Idle)
  <2> HIDE DEF next
  <2> QED
    BY <1>6, <1>7, <1>8, IdleServes DEF Continues
<1> QED
  BY <1>4, <1>9

(* A handler that fails leaves the tables as they were.                    *)
LEMMA AbortOK ==
  ASSUME BooksInv, NEW h \in Handler, Abort(h)
  PROVE  LeavesBooks /\ \E next : Continues(h, next)
<1>1. handler[h].pc = "resolve" => handler[h].ref \in Ref
  BY HandlerFacts, MemoryFacts
<1>2. stranded' \subseteq Ref
  BY <1>1 DEF Abort, BooksInv
<1>3. LeavesBooks
  BY <1>2, ReadingLeavesBooks DEF Abort, BooksInv
<1>4. Continues(h, Idle)
  BY IdleServes DEF Abort, Goes, Continues
<1> QED
  BY <1>3, <1>4

(* No money moves.                                                         *)
SameBooks(d, e) ==
  /\ e.bills = d.bills /\ e.outstanding = d.outstanding /\ e.added = d.added
  /\ e.used = d.used /\ e.rollup = d.rollup /\ e.paid = d.paid
  /\ e.covered = d.covered /\ e.credited = d.credited

(* Booking a payment into an unknown account touches the rows of that      *)
(* payment only.                                                           *)
LEMMA BookMisdirectedFacts ==
  ASSUME BooksInv, NEW h \in Handler, BookMisdirected(h)
  PROVE  LET r == handler[h].ref
             D == DOMAIN db.outstanding
         IN  /\ r \in Ref /\ ~HasPayment(db, r)
             /\ D \in SUBSET Charge /\ db \in Tables(D) /\ db' \in Tables(D)
             /\ SameBooks(db, db') /\ OthersStay(db, db', r) /\ PaidGrows(db, db')
             /\ db'.payment[r] = [status |-> "EXCEPTION", unit |-> db.payment[r].unit]
             /\ db'.exception[r] = [type |-> "MISDIRECTED", open |-> TRUE]
<1> DEFINE r == handler[h].ref
           D == DOMAIN db.outstanding
           row == [status |-> "EXCEPTION", unit |-> db.payment[r].unit]
           ex == [type |-> "MISDIRECTED", open |-> TRUE]
           b == [db EXCEPT !.payment[r] = row]
           e == [b EXCEPT !.exception[r] = ex]
<1>1. r \in Ref /\ ~HasPayment(db, r) /\ Known(db, clawedBack, r)
  BY HandlerFacts, MemoryFacts DEF BookMisdirected, BooksInv
<1>2. D \in SUBSET Charge /\ db \in Tables(D) /\ TablesOK(db)
  BY TablesOKFacts DEF BooksInv, TablesOK
<1>3. /\ db.payment \in [Ref -> [status : PaymentStatus, unit : Unit \cup {NoUnit}]]
      /\ db.exception \in [Ref -> [type : ExceptionType, open : BOOLEAN]]
  BY <1>2 DEF Tables
<1>4. /\ row \in [status : PaymentStatus, unit : Unit \cup {NoUnit}]
      /\ ex \in [type : ExceptionType, open : BOOLEAN]
  BY <1>1, <1>3 DEF PaymentStatus, ExceptionType
<1>5. db' = e
  <2>1. [db.payment EXCEPT ![r].status = "EXCEPTION"] = [db.payment EXCEPT ![r] = row]
    BY <1>1, <1>3
  <2>2. db' = [db EXCEPT !.payment = [db.payment EXCEPT ![r].status = "EXCEPTION"],
                         !.exception = [db.exception EXCEPT ![r] = ex]]
    BY DEF BookMisdirected
  <2> HIDE DEF row, ex
  <2> QED
    BY <1>2, <2>1, <2>2 DEF Tables
<1> HIDE DEF row, ex
<1>6. /\ b \in Tables(D) /\ b.payment = [db.payment EXCEPT ![r] = row] /\ b.payment[r] = row
      /\ b.bills = db.bills /\ b.outstanding = db.outstanding /\ b.added = db.added
      /\ b.used = db.used /\ b.rollup = db.rollup /\ b.paid = db.paid
      /\ b.exception = db.exception /\ b.covered = db.covered /\ b.credited = db.credited
  BY <1>1, <1>2, <1>4, BookedFacts
<1> HIDE DEF b
<1>7. /\ e \in Tables(D) /\ e.exception = [b.exception EXCEPT ![r] = ex] /\ e.exception[r] = ex
      /\ e.bills = b.bills /\ e.outstanding = b.outstanding /\ e.added = b.added
      /\ e.used = b.used /\ e.rollup = b.rollup /\ e.paid = b.paid
      /\ e.payment = b.payment /\ e.covered = b.covered /\ e.credited = b.credited
  BY <1>1, <1>2, <1>4, <1>6, ExceptionRowFacts
<1> HIDE DEF e
<1>8. OthersStay(db, e, r) /\ PaidGrows(db, e)
  <2>1. \A s \in Ref \ {r} : e.payment[s] = db.payment[s] /\ e.exception[s] = db.exception[s]
    BY <1>3, <1>6, <1>7
  <2> QED
    BY <1>2, <1>6, <1>7, <2>1, NothingMoves DEF OthersStay, SameRows
<1>9. SameBooks(db, e)
  BY <1>6, <1>7 DEF SameBooks
<1> QED
  BY <1>1, <1>2, <1>5, <1>6, <1>7, <1>8, <1>9 DEF row, ex

(* Booking a misdirected payment keeps the invariant.                      *)
LEMMA BookMisdirectedOK ==
  ASSUME BooksInv, NEW h \in Handler, BookMisdirected(h)
  PROVE  LeavesBooks /\ \E next : Continues(h, next)
<1> DEFINE r == handler[h].ref
<1>1. /\ r \in Ref /\ ~HasPayment(db, r) /\ Known(db, clawedBack, r)
      /\ SameBooks(db, db') /\ OthersStay(db, db', r) /\ PaidGrows(db, db')
      /\ db' \in Tables(DOMAIN db.outstanding)
      /\ db'.payment[r] = [status |-> "EXCEPTION", unit |-> db.payment[r].unit]
      /\ db'.exception[r] = [type |-> "MISDIRECTED", open |-> TRUE]
  BY BookMisdirectedFacts DEF BooksInv
<1> HIDE DEF r
<1>2. Known(db', clawedBack, r)
  BY <1>1 DEF Known, HasPayment, NotAnException
<1>3. \A s \in Ref : Known(db', clawedBack, s)
  BY <1>1, <1>2, OthersStayKnown DEF BooksInv
<1>4. Later(db, db')
  <2>1. HasPayment(db', r) /\ db.exception[r].type = NotAnException
    BY <1>1 DEF HasPayment, Known
  <2> QED
    BY <1>1, <2>1, OthersStayLater DEF SameBooks
<1>5. TablesOK(db')
  BY <1>1 DEF BooksInv, TablesOK, SameBooks
<1>6. LeavesBooks
  BY <1>3, <1>4, <1>5 DEF BookMisdirected, Quiet, BooksInv, LeavesBooks
<1> QED
  BY <1>6, IdleServes DEF BookMisdirected, Goes, Continues

(* Persisting books a reference that has no payment, for the unit of its   *)
(* account.                                                                *)
LEMMA PersistFacts ==
  ASSUME BooksInv, NEW h \in Handler, Persist(h)
  PROVE  LET l == handler[h]
             D == DOMAIN db.outstanding
         IN  /\ l.ref \in Ref /\ ~HasPayment(db, l.ref) /\ Known(db, clawedBack, l.ref)
             /\ wire[l.ref].account \in Unit
             /\ D \in SUBSET Charge /\ db \in Tables(D) /\ db' \in Tables(D)
             /\ MayPersist(db, l) /\ tx[h].sums \in UnitRow
             /\ db' = Persisted(db, l, tx[h].sums) /\ Persists(db, l, tx[h].sums, db')
<1> DEFINE l == handler[h]
           r == l.ref
           D == DOMAIN db.outstanding
           sums == tx[h].sums
           e == Persisted(db, l, sums)
<1>1. /\ l.pc = "persist" /\ r \in Ref /\ l.credit \in Int /\ wire[r].account \in Unit
      /\ DOMAIN l.snapshot \subseteq ChargesOf(db, wire[r].account)
      /\ l.snapshot \in [DOMAIN l.snapshot -> Int]
  BY HandlerFacts, MemoryFacts DEF Persist, Serves
<1>2. D \in SUBSET Charge /\ db \in Tables(D) /\ TablesOK(db)
  BY TablesOKFacts DEF BooksInv, TablesOK
<1>3. MayPersist(db, l)
  BY <1>1 DEF MayPersist
<1>4. ~HasPayment(db, r) /\ Known(db, clawedBack, r)
  BY <1>1, TxFacts DEF Persist, BooksInv, Pending
<1>5. db' = e
  BY DEF Persist
<1>6. sums \in UnitRow
  BY TxFacts, TxMemoryFacts
<1>7. e \in Tables(D) /\ Persists(db, l, sums, e)
  BY <1>2, <1>3, <1>6, PersistedFacts DEF BooksInv
<1> HIDE DEF e
<1> QED
  BY <1>1, <1>2, <1>3, <1>4, <1>5, <1>6, <1>7 DEF e

(* Persisting a payment keeps the invariant.                               *)
LEMMA PersistOK ==
  ASSUME BooksInv, NEW h \in Handler, Persist(h)
  PROVE  LeavesBooks /\ \E next : Continues(h, next)
<1> DEFINE l == handler[h]
           r == l.ref
<1>1. /\ r \in Ref /\ ~HasPayment(db, r) /\ Known(db, clawedBack, r)
      /\ wire[r].account \in Unit
      /\ db' \in Tables(DOMAIN db.outstanding) /\ Persists(db, l, tx[h].sums, db')
  BY PersistFacts
<1>2. Known(db', clawedBack, r) /\ HasPayment(db', r)
  <2>1. db'.payment[r].unit \in Unit
    BY <1>1 DEF Persists
  <2>2. r \notin clawedBack /\ db.exception[r].type = NotAnException /\ ~db.exception[r].open
    BY <1>1 DEF Known
  <2>3. CASE HeldForReview(db, l, db')
    BY <2>1, <2>2, <2>3 DEF HeldForReview, Known, HasPayment, NotAnException
  <2>4. CASE SettledAtOnce(db, l, db')
    BY <2>1, <2>2, <2>4 DEF SettledAtOnce, Known, HasPayment, NotAnException
  <2> QED
    BY <1>1, <2>3, <2>4 DEF Persists
<1>3. \A s \in Ref : Known(db', clawedBack, s)
  BY <1>1, <1>2, OthersStayKnown DEF BooksInv, Persists
<1>4. Later(db, db')
  BY <1>1, <1>2, OthersStayLater DEF Persists, Known
<1>5. TablesOK(db')
  BY <1>1 DEF BooksInv, TablesOK, Persists
<1>6. LeavesBooks
  BY <1>1, <1>3, <1>4, <1>5 DEF Persist, Quiet, BooksInv, LeavesBooks, Persists
<1> QED
  BY <1>6, IdleServes DEF Persist, Goes, Continues

(* A reversal rewrites the rows of its payment and moves no money.         *)
LEMMA MarkReversedFacts ==
  ASSUME BooksInv, NEW h \in Handler, MarkReversed(h)
  PROVE  LET r == handler[h].ref
             D == DOMAIN db.outstanding
         IN  /\ r \in Ref /\ HasPayment(db, r) /\ Known(db, clawedBack, r)
             /\ D \in SUBSET Charge /\ db \in Tables(D) /\ db' \in Tables(D)
             /\ SameBooks(db, db') /\ OthersStay(db, db', r) /\ PaidGrows(db, db')
             /\ db'.payment[r] = [status |-> "REVERSED", unit |-> db.payment[r].unit]
             /\ db.exception[r].type # NotAnException => db'.exception[r] = db.exception[r]
             /\ db.exception[r].type = NotAnException =>
                  db'.exception[r].type = "REVERSAL"
             /\ db'.exception[r].open => db'.exception[r].type # NotAnException
<1> DEFINE r == handler[h].ref
           D == DOMAIN db.outstanding
           row == [status |-> "REVERSED", unit |-> db.payment[r].unit]
           ex == IF db.exception[r].type = NotAnException
                 THEN [type |-> "REVERSAL", open |-> TRUE] ELSE db.exception[r]
           b == [db EXCEPT !.payment[r] = row]
           e == [b EXCEPT !.exception[r] = ex]
<1>1. r \in Ref /\ HasPayment(db, r) /\ Known(db, clawedBack, r)
  BY HandlerFacts, MemoryFacts DEF MarkReversed, BooksInv, Serves
<1>2. D \in SUBSET Charge /\ db \in Tables(D) /\ TablesOK(db)
  BY TablesOKFacts DEF BooksInv, TablesOK
<1>3. /\ db.payment \in [Ref -> [status : PaymentStatus, unit : Unit \cup {NoUnit}]]
      /\ db.exception \in [Ref -> [type : ExceptionType, open : BOOLEAN]]
  BY <1>2 DEF Tables
<1>4. /\ row \in [status : PaymentStatus, unit : Unit \cup {NoUnit}]
      /\ ex \in [type : ExceptionType, open : BOOLEAN]
  BY <1>1, <1>3 DEF PaymentStatus, ExceptionType
<1>5. db' = e
  <2> DEFINE m == [db EXCEPT !.payment[r].status = "REVERSED"]
  <2>1. [db.payment EXCEPT ![r].status = "REVERSED"] = [db.payment EXCEPT ![r] = row]
    BY <1>1, <1>3
  <2>2. m = b
    BY <2>1
  <2>3. m.exception = db.exception
    BY <1>2 DEF Tables
  <2>4. m = [m EXCEPT !.exception = db.exception]
    BY <1>2 DEF Tables
  <2>5. db.exception = [db.exception EXCEPT ![r] = db.exception[r]]
    BY <1>1, <1>3
  <2>6. [m EXCEPT !.exception[r] = ex] = [m EXCEPT !.exception = [db.exception EXCEPT ![r] = ex]]
    BY <2>3
  <2>7. CASE db.exception[r].type = NotAnException
    BY <2>2, <2>7 DEF MarkReversed
  <2>8. CASE db.exception[r].type # NotAnException
    <3>1. ex = db.exception[r]
      BY <2>8
    <3>2. db' = m
      BY <2>8 DEF MarkReversed
    <3> HIDE DEF m, ex, b
    <3>3. [m EXCEPT !.exception[r] = ex] = [m EXCEPT !.exception = db.exception]
      BY <2>5, <2>6, <3>1
    <3> QED
      BY <2>2, <2>4, <3>2, <3>3
  <2> QED
    BY <2>7, <2>8
<1>6. ex.open => ex.type # NotAnException
  BY <1>1 DEF Known, NotAnException
<1>7. /\ db.exception[r].type # NotAnException => ex = db.exception[r]
      /\ db.exception[r].type = NotAnException => ex.type = "REVERSAL"
  OBVIOUS
<1> HIDE DEF row, ex
<1>8. /\ b \in Tables(D) /\ b.payment = [db.payment EXCEPT ![r] = row] /\ b.payment[r] = row
      /\ b.bills = db.bills /\ b.outstanding = db.outstanding /\ b.added = db.added
      /\ b.used = db.used /\ b.rollup = db.rollup /\ b.paid = db.paid
      /\ b.exception = db.exception /\ b.covered = db.covered /\ b.credited = db.credited
  BY <1>1, <1>2, <1>4, BookedFacts
<1> HIDE DEF b
<1>9. /\ e \in Tables(D) /\ e.exception = [b.exception EXCEPT ![r] = ex] /\ e.exception[r] = ex
      /\ e.bills = b.bills /\ e.outstanding = b.outstanding /\ e.added = b.added
      /\ e.used = b.used /\ e.rollup = b.rollup /\ e.paid = b.paid
      /\ e.payment = b.payment /\ e.covered = b.covered /\ e.credited = b.credited
  BY <1>1, <1>2, <1>4, <1>8, ExceptionRowFacts
<1> HIDE DEF e
<1>10. OthersStay(db, e, r) /\ PaidGrows(db, e)
  <2>1. \A s \in Ref \ {r} : e.payment[s] = db.payment[s] /\ e.exception[s] = db.exception[s]
    BY <1>3, <1>8, <1>9
  <2> QED
    BY <1>2, <1>8, <1>9, <2>1, NothingMoves DEF OthersStay, SameRows
<1>11. SameBooks(db, e)
  BY <1>8, <1>9 DEF SameBooks
<1> QED
  BY <1>1, <1>2, <1>5, <1>6, <1>7, <1>8, <1>9, <1>10, <1>11 DEF row

(* A reversal keeps the invariant.                                         *)
LEMMA MarkReversedOK ==
  ASSUME BooksInv, NEW h \in Handler, MarkReversed(h)
  PROVE  LeavesBooks /\ \E next : Continues(h, next)
<1> DEFINE r == handler[h].ref
<1>1. /\ r \in Ref /\ HasPayment(db, r) /\ Known(db, clawedBack, r)
      /\ SameBooks(db, db') /\ OthersStay(db, db', r) /\ PaidGrows(db, db')
      /\ db' \in Tables(DOMAIN db.outstanding)
      /\ db'.payment[r] = [status |-> "REVERSED", unit |-> db.payment[r].unit]
      /\ db.exception[r].type # NotAnException => db'.exception[r] = db.exception[r]
      /\ db.exception[r].type = NotAnException => db'.exception[r].type = "REVERSAL"
      /\ db'.exception[r].open => db'.exception[r].type # NotAnException
  BY MarkReversedFacts
<1>2. clawedBack' = clawedBack \cup {r}
  BY DEF MarkReversed
<1> HIDE DEF r
<1>3. HasPayment(db', r)
  BY <1>1 DEF HasPayment
<1>4. Known(db', clawedBack', r)
  BY <1>1, <1>3 DEF Known, NotAnException
<1>5. \A s \in Ref : Known(db', clawedBack', s)
  BY <1>1, <1>2, <1>4, OthersStayKnown DEF BooksInv
<1>6. Later(db, db')
  BY <1>1, <1>3, OthersStayLater DEF SameBooks
<1>7. TablesOK(db')
  BY <1>1 DEF BooksInv, TablesOK, SameBooks
<1>8. LeavesBooks
  BY <1>1, <1>2, <1>5, <1>6, <1>7 DEF MarkReversed, BooksInv, LeavesBooks
<1> QED
  BY <1>8, IdleServes DEF MarkReversed, Goes, Continues

(* What is left after a resolution.                                        *)
Resolved(d, l, t) == [Decide(d, l, t) EXCEPT !.exception[l.ref].open = FALSE]

Resolves(d, l, t, e) ==
  /\ e.bills = d.bills /\ DOMAIN e.outstanding = DOMAIN d.outstanding
  /\ OthersStay(d, e, l.ref) /\ PaidGrows(d, e)
  /\ e.exception[l.ref] = [type |-> d.exception[l.ref].type, open |-> FALSE]
  /\ RowsBalance(d) /\ (Recomputes(d, l) => t.sums = Sums(e, l.unit)) => RowsBalance(e)
  /\ \E f : Reviewed(d, l, f) /\ e.payment = f.payment /\ e.paid = f.paid /\ e.credited = f.credited

(* Writing one field of a two-field row keeps the other.                   *)
LEMMA ExceptField ==
  \A T, B, y : \A x \in [type : T, open : B] :
    [x EXCEPT !.open = y] = [type |-> x.type, open |-> y]
OBVIOUS

(* Closing the exception after a decision does to each table what Resolves *)
(* says.                                                                   *)
LEMMA ResolvedFacts ==
  ASSUME NEW D \in SUBSET Charge, NEW d \in Tables(D), NEW l, NEW t, MayDecide(d, l, t),
         wire \in [Ref -> Transfers]
  PROVE  /\ Resolved(d, l, t) \in Tables(D) /\ Resolves(d, l, t, Resolved(d, l, t))
         /\ SameSums(Resolved(d, l, t), Decide(d, l, t))
<1> DEFINE r == l.ref
           f == Decide(d, l, t)
           ex == [type |-> d.exception[r].type, open |-> FALSE]
           e == [f EXCEPT !.exception[r] = ex]
<1>1. r \in Ref
  BY DEF MayDecide
<1>2. f \in Tables(D) /\ Decides(d, l, t, f)
  BY DecideFacts
<1>3. Resolved(d, l, t) = [f EXCEPT !.exception[r].open = FALSE]
  BY DEF Resolved
<1> HIDE DEF f
<1>4. /\ d.exception \in [Ref -> [type : ExceptionType, open : BOOLEAN]]
      /\ f.exception = d.exception /\ f.bills = d.bills
      /\ d.outstanding \in [D -> Int] /\ f.outstanding \in [D -> Int]
  BY <1>2 DEF Decides, Tables
<1>5. Resolved(d, l, t) = e
  <2>1. [f.exception EXCEPT ![r].open = FALSE] = [f.exception EXCEPT ![r] = ex]
    <3>1. f.exception[r] \in [type : ExceptionType, open : BOOLEAN]
      BY <1>1, <1>4
    <3> DEFINE B == BOOLEAN
               no == FALSE
    <3>2. f.exception[r] \in [type : ExceptionType, open : B]
      BY <3>1
    <3> HIDE DEF B, no
    <3>3. [f.exception[r] EXCEPT !.open = no] = [type |-> f.exception[r].type, open |-> no]
      BY <3>2, ExceptField
    <3>4. [f.exception[r] EXCEPT !.open = FALSE] = ex
      BY <1>4, <3>3, Zenon DEF no
    <3> HIDE DEF ex
    <3> QED
      BY <3>4
  <2> HIDE DEF ex
  <2> QED
    BY <1>3, <2>1
<1>6. ex \in [type : ExceptionType, open : BOOLEAN]
  BY <1>1, <1>4
<1> HIDE DEF ex
<1>7. /\ e \in Tables(D)
      /\ e.exception = [f.exception EXCEPT ![r] = ex] /\ e.exception[r] = ex
      /\ e.bills = f.bills /\ e.outstanding = f.outstanding /\ e.added = f.added
      /\ e.used = f.used /\ e.rollup = f.rollup /\ e.paid = f.paid
      /\ e.payment = f.payment /\ e.covered = f.covered /\ e.credited = f.credited
  BY <1>1, <1>2, <1>6, ExceptionRowFacts
<1> HIDE DEF e
<1>8. OthersStay(d, e, r)
  <2>1. \A s \in Ref \ {r} : e.exception[s] = d.exception[s]
    BY <1>4, <1>7
  <2> QED
    BY <1>2, <1>7, <2>1 DEF Decides, OthersStay, SameRows
<1>9. PaidGrows(d, e)
  BY <1>2, <1>7 DEF Decides, PaidGrows
<1>13. SameSums(e, f)
  BY <1>7 DEF SameSums
<1>10. RowsBalance(d) /\ (Recomputes(d, l) => t.sums = Sums(e, l.unit)) => RowsBalance(e)
  <2>1. Sums(e, l.unit) = Sums(f, l.unit)
    BY <1>13, SumsAgree
  <2> QED
    BY <1>2, <1>7, <2>1, SameMoneyBalances DEF Decides
<1>11. Reviewed(d, l, f) /\ e.payment = f.payment /\ e.paid = f.paid /\ e.credited = f.credited
  BY <1>2, <1>7 DEF Decides
<1>12. e.bills = d.bills /\ DOMAIN e.outstanding = DOMAIN d.outstanding
  BY <1>4, <1>7
<1> QED
  BY <1>5, <1>7, <1>8, <1>9, <1>10, <1>11, <1>12, <1>13 DEF Resolves, ex, f

(* A resolution acts on a booked payment whose exception has the type the  *)
(* request read.                                                           *)
LEMMA ResolveFacts ==
  ASSUME BooksInv, NEW h \in Handler, Resolve(h)
  PROVE  LET l == handler[h]
             D == DOMAIN db.outstanding
         IN  /\ l.ref \in Ref /\ HasPayment(db, l.ref) /\ Known(db, clawedBack, l.ref)
             /\ l.type = db.exception[l.ref].type /\ l.type \in ExceptionType \ {NotAnException}
             /\ l.type # "REVERSAL" => l.unit \in Unit
             /\ h \in Manager /\ <<l.type, l.action>> \in Offered /\ MayDecide(db, l, tx[h])
             /\ D \in SUBSET Charge /\ db \in Tables(D) /\ db' \in Tables(D)
             /\ db' = Resolved(db, l, tx[h]) /\ Resolves(db, l, tx[h], db')
             /\ SameSums(db', Decide(db, l, tx[h]))
<1> DEFINE l == handler[h]
           r == l.ref
           D == DOMAIN db.outstanding
           t == tx[h]
           e == Resolved(db, l, t)
<1>1. /\ r \in Ref /\ l.type = db.exception[r].type /\ l.type # NotAnException
      /\ l.type \in ExceptionType /\ (l.type # "REVERSAL" => l.unit \in Unit)
  BY HandlerFacts, MemoryFacts DEF Resolve, Serves
<1>2. D \in SUBSET Charge /\ db \in Tables(D) /\ TablesOK(db)
  BY TablesOKFacts DEF BooksInv, TablesOK
<1>3. MayDecide(db, l, t)
  <2>1. TxMemory(t) /\ TxServes(db, l, t) /\ t.sums \in UnitRow /\ t.credit \in Int
        /\ t.snapshot \in [DOMAIN t.snapshot -> Int]
    BY TxFacts, TxMemoryFacts
  <2>2. Applies(l) => t.at = "commit"
    BY DEF Resolve
  <2>3. l.pc = "resolve"
    BY DEF Resolve
  <2>4. Applies(l) => t.unit = l.unit /\ MayApply(db, t)
    BY <2>1, <2>2, <2>3 DEF TxServes, MayApply, ChargesOf
  <2> QED
    BY <1>1, <2>1, <2>4 DEF MayDecide
<1>4. Known(db, clawedBack, r) /\ HasPayment(db, r)
  BY <1>1 DEF Known, BooksInv
<1>5. db' = e
  BY DEF Resolve, Resolved
<1>6. e \in Tables(D) /\ Resolves(db, l, t, e) /\ SameSums(e, Decide(db, l, t))
  BY <1>2, <1>3, ResolvedFacts DEF BooksInv
<1>7. h \in Manager /\ <<l.type, l.action>> \in Offered
  BY HandlerFacts DEF Resolve, Serves
<1> QED
  BY <1>1, <1>2, <1>3, <1>4, <1>5, <1>6, <1>7 DEF e

(* Resolving an exception keeps the invariant.                             *)
LEMMA ResolveOK ==
  ASSUME BooksInv, NEW h \in Handler, Resolve(h)
  PROVE  LeavesBooks /\ \E next : Continues(h, next)
<1> DEFINE l == handler[h]
           r == l.ref
           e == db'
<1>1. /\ r \in Ref /\ l.type = db.exception[r].type /\ l.type # NotAnException
      /\ l.type \in ExceptionType /\ (l.type # "REVERSAL" => l.unit \in Unit)
  BY ResolveFacts
<1>4. Known(db, clawedBack, r) /\ HasPayment(db, r)
  BY ResolveFacts
<1>6. e \in Tables(DOMAIN db.outstanding) /\ Resolves(db, l, tx[h], e)
  BY ResolveFacts
<1> HIDE DEF e
<1>7. PICK f : Reviewed(db, l, f) /\ e.payment = f.payment /\ e.paid = f.paid
               /\ e.credited = f.credited
  BY <1>6 DEF Resolves
<1>8. e.exception[r].type = l.type /\ ~e.exception[r].open
  BY <1>1, <1>6 DEF Resolves
<1>9. Known(e, clawedBack, r) /\ HasPayment(e, r)
  <2>1. CASE l.type = "OVERPAYMENT"
    <3>1. e.payment[r].status = "OVERPAYMENT" /\ e.payment[r].unit = db.payment[r].unit
      BY <1>7, <2>1 DEF Reviewed
    <3> QED
      BY <1>1, <1>4, <1>8, <2>1, <3>1 DEF Known, HasPayment, NotAnException
  <2>2. CASE l.type = "DUPLICATE" /\ l.action # "duplicate-keep"
    <3>1. e.payment[r] = db.payment[r]
      BY <1>7, <2>2 DEF Reviewed, SameRows
    <3> QED
      BY <1>1, <1>4, <1>8, <2>2, <3>1 DEF Known, HasPayment, NotAnException
  <2>3. CASE l.type = "THIRD_PARTY" /\ l.action = "refund"
    <3>1. e.payment[r].status = "REVERSED" /\ e.payment[r].unit = db.payment[r].unit
      BY <1>7, <2>3 DEF Reviewed
    <3> QED
      BY <1>1, <1>4, <1>8, <2>3, <3>1 DEF Known, HasPayment, NotAnException
  <2>4. CASE l.type = "REVERSAL"
    <3>1. e.payment[r] = db.payment[r]
      BY <1>7, <2>4 DEF Reviewed, SameRows
    <3> QED
      BY <1>1, <1>4, <1>8, <2>4, <3>1 DEF Known, HasPayment, NotAnException
  <2>5. CASE \/ l.type = "DUPLICATE" /\ l.action = "duplicate-keep"
             \/ l.type = "THIRD_PARTY" /\ l.action # "refund"
             \/ l.type = "MISDIRECTED"
    <3>1. /\ e.payment[r].unit = IF l.type = "MISDIRECTED" THEN l.unit ELSE db.payment[r].unit
          /\ e.payment[r].status \in {"OVERPAYMENT", "PARTIAL", "MATCHED"}
      BY <1>7, <2>5 DEF Reviewed
    <3> QED
      BY <1>1, <1>4, <1>8, <2>5, <3>1 DEF Known, HasPayment, NotAnException
  <2> QED
    BY <1>1, <2>1, <2>2, <2>3, <2>4, <2>5 DEF ExceptionType, NotAnException
<1>10. \A s \in Ref : Known(e, clawedBack, s)
  BY <1>1, <1>6, <1>9, OthersStayKnown DEF BooksInv, Resolves
<1>11. Later(db, e)
  BY <1>1, <1>6, <1>8, <1>9, OthersStayLater DEF Resolves
<1>12. TablesOK(e)
  BY <1>6 DEF BooksInv, TablesOK, Resolves
<1>13. LeavesBooks
  BY <1>6, <1>10, <1>11, <1>12 DEF e, Resolve, Quiet, BooksInv, LeavesBooks, Resolves
<1> QED
  BY <1>13, IdleServes DEF Resolve, Goes, Continues

(* Tables with the same payments.                                          *)
LEMMA SamePayments ==
  ASSUME NEW D \in SUBSET Charge, NEW d \in Tables(D), NEW e,
         e.payment = d.payment, e.exception = d.exception, e.paid = d.paid,
         e.credited = d.credited, d.bills \subseteq e.bills,
         DOMAIN d.outstanding \subseteq DOMAIN e.outstanding
  PROVE  /\ Later(d, e)
         /\ \A clawed : \A r \in Ref : Known(d, clawed, r) => Known(e, clawed, r)
<1>1. PaidGrows(d, e)
  BY NothingMoves
<1> QED
  BY <1>1 DEF Later, Known, HasPayment

(* Starting a bill keeps the invariant.                                    *)
LEMMA BillStartOK ==
  ASSUME BooksInv, NEW h \in Handler, NEW b \in Bill, NEW scope \in Scopes, BillStart(h, b, scope)
  PROVE  LeavesBooks /\ \E next : Continues(h, next)
<1> DEFINE D == DOMAIN db.outstanding
           e == [db EXCEPT !.bills = db.bills \cup {b}]
           next == [pc |-> "bill", bill |-> b, todo |-> scope]
<1>1. D \in SUBSET Charge /\ db \in Tables(D) /\ TablesOK(db)
  BY TablesOKFacts DEF BooksInv, TablesOK
<1>2. db' = e
  BY DEF BillStart
<1>3. db.bills \cup {b} \in SUBSET Bill
  BY <1>1 DEF Tables
<1>4. /\ e \in Tables(D) /\ e.bills = db.bills \cup {b}
      /\ e.outstanding = db.outstanding /\ e.added = db.added
      /\ e.used = db.used /\ e.rollup = db.rollup /\ e.paid = db.paid /\ e.payment = db.payment
      /\ e.exception = db.exception /\ e.covered = db.covered /\ e.credited = db.credited
  BY <1>1, <1>3 DEF Tables
<1> HIDE DEF e
<1>5. TablesOK(e)
  BY <1>1, <1>4 DEF TablesOK
<1>7. Later(db, e) /\ \A r \in Ref : Known(e, clawedBack, r)
  BY <1>1, <1>4, SamePayments DEF BooksInv
<1>8. LeavesBooks
  BY <1>2, <1>5, <1>7 DEF BillStart, Quiet, BooksInv, LeavesBooks
<1>9. scope \in SUBSET Unit
  BY LedgerAssumption
<1>10. next \in HandlerState({}) /\ {} \in SUBSET Charge
  BY <1>9 DEF HandlerState
<1>11. Continues(h, next)
  BY <1>2, <1>4, <1>10 DEF BillStart, Goes, Continues, Memory, Serves
<1> QED
  BY <1>8, <1>11

(* Billing a unit adds the charge of the unit that the transaction works   *)
(* on.                                                                     *)
LEMMA BillFacts ==
  ASSUME BooksInv, NEW h \in Handler, handler[h].pc = "bill", tx[h].at # "none"
  PROVE  LET l == handler[h]
             D == DOMAIN db.outstanding
         IN  /\ l.bill \in Bill /\ l.todo \in SUBSET Unit /\ l.bill \in db.bills
             /\ l = [pc |-> "bill", bill |-> l.bill, todo |-> l.todo]
             /\ D \in SUBSET Charge /\ db \in Tables(D) /\ TablesOK(db)
             /\ tx[h].unit \in Unit /\ MayBill(db, l.bill, tx[h])
<1> DEFINE l == handler[h]
           D == DOMAIN db.outstanding
           t == tx[h]
           w == Charged(db, <<l.bill, t.unit>>)
<1>1. D \in SUBSET Charge /\ db \in Tables(D) /\ TablesOK(db)
  BY TablesOKFacts DEF BooksInv, TablesOK
<1>2. /\ l.bill \in Bill /\ l.todo \in SUBSET Unit /\ l.bill \in db.bills
      /\ l = [pc |-> "bill", bill |-> l.bill, todo |-> l.todo]
  BY HandlerFacts, MemoryFacts DEF Serves
<1>3. /\ TxServes(db, l, t) /\ t.sums \in UnitRow /\ t.credit \in Int
      /\ t.snapshot \in [DOMAIN t.snapshot -> Int]
  BY TxFacts, TxMemoryFacts
<1>4. /\ t.unit \in Unit
      /\ \A c \in DOMAIN t.snapshot : c[2] = t.unit /\ c \in D \cup {<<l.bill, t.unit>>}
  BY <1>3 DEF TxServes
<1>5. DOMAIN w.outstanding = D \cup {<<l.bill, t.unit>>}
  <2> HIDE DEF D, t, l
  <2> QED
    BY <1>1, ChargedDomain
<1>6. DOMAIN t.snapshot \in SUBSET ChargesOf(w, t.unit)
  <2> HIDE DEF w, D
  <2> QED
    BY <1>4, <1>5 DEF ChargesOf
<1>7. MayBill(db, l.bill, t)
  BY <1>3, <1>4, <1>6 DEF MayBill, MayApply
<1> QED
  BY <1>1, <1>2, <1>4, <1>7

(* Billing a unit keeps the invariant.                                     *)
LEMMA BillUnitOK ==
  ASSUME BooksInv, NEW h \in Handler, BillUnit(h)
  PROVE  LeavesBooks /\ \E next : Continues(h, next)
<1> DEFINE l == handler[h]
           D == DOMAIN db.outstanding
           u == tx[h].unit
           E == D \cup {<<l.bill, u>>}
           e == UnitBilled(db, l.bill, tx[h])
           next == [pc |-> "bill", bill |-> l.bill, todo |-> l.todo \ {u}]
<1>0. l.pc = "bill" /\ tx[h].at # "none"
  BY DEF BillUnit
<1>1. D \in SUBSET Charge /\ db \in Tables(D) /\ TablesOK(db)
  BY <1>0, BillFacts
<1>2. /\ l.pc = "bill" /\ l.bill \in Bill /\ l.todo \in SUBSET Unit /\ l.bill \in db.bills
      /\ l = [pc |-> "bill", bill |-> l.bill, todo |-> l.todo] /\ u \in Unit
      /\ MayBill(db, l.bill, tx[h])
  BY <1>0, BillFacts
<1>3. db' = e
  BY DEF BillUnit
<1>4. /\ E \in SUBSET Charge /\ e \in Tables(E)
      /\ e.bills = db.bills /\ e.payment = db.payment /\ e.exception = db.exception
      /\ e.paid = db.paid /\ e.credited = db.credited
  <2>1. Bills(D, db, l.bill, tx[h], e)
    BY <1>1, <1>2, BillUnitFacts
  <2> QED
    BY <2>1 DEF Bills
<1> HIDE DEF e
<1>5. DOMAIN e.outstanding = E
  <2>1. e.outstanding \in [E -> Int]
    BY <1>4 DEF Tables
  <2> QED
    BY <2>1
<1>6. TablesOK(e)
  BY <1>1, <1>2, <1>4, <1>5 DEF TablesOK
<1>7. Later(db, e) /\ \A r \in Ref : Known(e, clawedBack, r)
  BY <1>1, <1>4, <1>5, SamePayments DEF BooksInv
<1>8. LeavesBooks
  BY <1>3, <1>6, <1>7 DEF BillUnit, Quiet, BooksInv, LeavesBooks
<1>9. next \in HandlerState({}) /\ {} \in SUBSET Charge
  BY <1>2 DEF HandlerState
<1>10. handler' = [handler EXCEPT ![h] = next] \/ handler' = [handler EXCEPT ![h] = Idle]
  <2>1. [l EXCEPT !.todo = l.todo \ {u}] = next
    BY <1>2
  <2> HIDE DEF next
  <2> QED
    BY <2>1 DEF BillUnit, Goes
<1>11. Serves(db', h, next)
  BY <1>2, <1>3, <1>4 DEF Serves
<1>12. Continues(h, next) \/ Continues(h, Idle)
  <2> HIDE DEF next
  <2> QED
    BY <1>9, <1>10, <1>11, IdleServes DEF Continues, Memory
<1> QED
  BY <1>8, <1>12
-----------------------------------------------------------------------------
(* The statements of the transactions before their commit.                 *)
InTransaction(h) ==
  \/ PersistWrite(h)
  \/ ResolveReadUnit(h) \/ ResolveReadCharges(h) \/ ResolveWrite(h)
  \/ (\E u \in Unit : BillReadUnit(h, u)) \/ BillReadCharges(h) \/ BillWrite(h)

(* They change nothing but what the transaction has read and locked.       *)
LEMMA InTransactionIsQuiet ==
  ASSUME NEW h, InTransaction(h) PROVE InTx
BY DEF InTransaction, PersistWrite, ResolveReadUnit, ResolveReadCharges, ResolveWrite,
       BillReadUnit, BillReadCharges, BillWrite, TxReadUnit, TxReadCharges, TxWrite

(* A transaction with one of its fields written.                           *)
LEMMA TxField ==
  ASSUME NEW at, NEW unit, NEW credit, NEW snapshot, NEW locks, NEW sums, NEW t,
         t = [at |-> at, unit |-> unit, credit |-> credit, snapshot |-> snapshot,
              locks |-> locks, sums |-> sums]
  PROVE  /\ \A x : [t EXCEPT !.at = x] =
              [at |-> x, unit |-> unit, credit |-> credit, snapshot |-> snapshot,
               locks |-> locks, sums |-> sums]
         /\ \A x : [t EXCEPT !.unit = x] =
              [at |-> at, unit |-> x, credit |-> credit, snapshot |-> snapshot,
               locks |-> locks, sums |-> sums]
         /\ \A x : [t EXCEPT !.credit = x] =
              [at |-> at, unit |-> unit, credit |-> x, snapshot |-> snapshot,
               locks |-> locks, sums |-> sums]
         /\ \A x : [t EXCEPT !.snapshot = x] =
              [at |-> at, unit |-> unit, credit |-> credit, snapshot |-> x,
               locks |-> locks, sums |-> sums]
         /\ \A x : [t EXCEPT !.locks = x] =
              [at |-> at, unit |-> unit, credit |-> credit, snapshot |-> snapshot,
               locks |-> x, sums |-> sums]
         /\ \A x : [t EXCEPT !.sums = x] =
              [at |-> at, unit |-> unit, credit |-> credit, snapshot |-> snapshot,
               locks |-> locks, sums |-> x]
OBVIOUS

(* What the transaction has read after it has read the unit row, after it  *)
(* has read the charges, and after it has written.                         *)
LEMMA UnitRead ==
  ASSUME BooksInv, NEW h \in Handler, NEW u \in Unit, TxReadUnit(h, u),
         handler[h].pc \in {"resolve", "bill"}, handler[h].pc = "resolve" => u = handler[h].unit
  PROVE  \E t : /\ SetTx(h, t) /\ TxMemory(t) /\ TxServes(db, handler[h], t)
                /\ t.at = "charges" /\ t.unit = u /\ t.credit = db.rollup[u].credit
<1> DEFINE t == [at |-> "charges", unit |-> u, credit |-> db.rollup[u].credit,
                 snapshot |-> << >>, locks |-> {}, sums |-> NoSums]
<1>1. db.rollup[u].credit \in Int
  BY DEF BooksInv, TablesOK, Tables
<1>2. [NoTx EXCEPT !.at = "charges", !.unit = u, !.credit = db.rollup[u].credit] = t
  <2> DEFINE a == [NoTx EXCEPT !.at = "charges"]
             b == [a EXCEPT !.unit = u]
             k == db.rollup[u].credit
  <2> HIDE DEF k
  <2>1. [NoTx EXCEPT !.at = "charges", !.unit = u, !.credit = k] = [b EXCEPT !.credit = k]
    BY Zenon
  <2>2. NoTx = [at |-> NoTx.at, unit |-> NoTx.unit, credit |-> NoTx.credit,
                snapshot |-> NoTx.snapshot, locks |-> NoTx.locks, sums |-> NoTx.sums]
    BY DEF NoTx
  <2>3. a = [at |-> "charges", unit |-> NoTx.unit, credit |-> NoTx.credit,
             snapshot |-> NoTx.snapshot, locks |-> NoTx.locks, sums |-> NoTx.sums]
    BY <2>2, TxField
  <2> HIDE DEF a
  <2>4. b = [at |-> "charges", unit |-> u, credit |-> NoTx.credit,
             snapshot |-> NoTx.snapshot, locks |-> NoTx.locks, sums |-> NoTx.sums]
    BY <2>3, TxField
  <2> HIDE DEF b
  <2>5. [b EXCEPT !.credit = k] =
        [at |-> "charges", unit |-> u, credit |-> k,
         snapshot |-> NoTx.snapshot, locks |-> NoTx.locks, sums |-> NoTx.sums]
    BY <2>4, TxField
  <2>6. NoTx.snapshot = << >> /\ NoTx.locks = {} /\ NoTx.sums = NoSums
    BY DEF NoTx
  <2> QED
    BY <2>1, <2>5, <2>6 DEF k
<1>3. << >> \in [{} -> Int] /\ DOMAIN << >> = {} /\ NoSums \in [balance : Int, credit : Int]
  BY DEF NoSums
<1>4. t \in TxState({})
  BY <1>1, <1>3 DEF TxState
<1>5. SetTx(h, t)
  BY <1>2 DEF TxReadUnit
<1>6. TxServes(db, handler[h], t)
  BY <1>3 DEF TxServes
<1> QED
  BY <1>4, <1>5, <1>6 DEF TxMemory

LEMMA ChargesRead ==
  ASSUME BooksInv, NEW h \in Handler, NEW open, TxReadCharges(h, open),
         open \in [DOMAIN open -> Int], DOMAIN open \in SUBSET Charge,
         \A c \in DOMAIN open :
           /\ c[2] = tx[h].unit
           /\ \/ c \in DOMAIN db.outstanding
              \/ handler[h].pc = "bill" /\ c = <<handler[h].bill, tx[h].unit>>
  PROVE  \E t : /\ SetTx(h, t) /\ TxMemory(t) /\ TxServes(db, handler[h], t)
                /\ t.at = "write" /\ t.unit = tx[h].unit /\ t.credit = tx[h].credit
                /\ t.snapshot = open
<1> DEFINE s == tx[h]
           t == [at |-> "write", unit |-> s.unit, credit |-> s.credit, snapshot |-> open,
                 locks |-> s.locks, sums |-> s.sums]
<1>1. /\ s.unit \in Unit \cup {NoUnit} /\ s.credit \in Int /\ s.sums \in UnitRow
      /\ s.locks \in SUBSET Charge
      /\ s = [at |-> s.at, unit |-> s.unit, credit |-> s.credit, snapshot |-> s.snapshot,
              locks |-> s.locks, sums |-> s.sums]
  BY TxFacts, TxMemoryFacts
<1>2. s.at = "charges" /\ TxServes(db, handler[h], s)
  BY TxFacts DEF TxReadCharges
<1>3. [s EXCEPT !.at = "write", !.snapshot = open] = t
  <2> DEFINE a == [s EXCEPT !.at = "write"]
  <2>1. [s EXCEPT !.at = "write", !.snapshot = open] = [a EXCEPT !.snapshot = open]
    BY Zenon
  <2>2. a = [at |-> "write", unit |-> s.unit, credit |-> s.credit, snapshot |-> s.snapshot,
             locks |-> s.locks, sums |-> s.sums]
    BY <1>1, TxField
  <2> HIDE DEF a, s
  <2> QED
    BY <2>1, <2>2, TxField
<1>4. t \in TxState(DOMAIN open)
  BY <1>1 DEF TxState, UnitRow
<1>5. SetTx(h, t)
  BY <1>3 DEF TxReadCharges
<1>6. TxServes(db, handler[h], t)
  BY <1>2 DEF TxServes
<1> QED
  BY <1>4, <1>5, <1>6 DEF TxMemory

LEMMA Written ==
  ASSUME BooksInv, NEW h \in Handler, NEW u \in Unit, NEW rows \in SUBSET Charge, NEW outcome,
         TxWrite(h, u, rows, outcome), Sums(outcome, u) \in UnitRow,
         handler[h].pc \in {"persist", "resolve", "bill"},
         handler[h].pc = "resolve" => u = handler[h].unit,
         tx[h] = NoTx \/ (tx[h].at # "none" /\ tx[h].unit = u)
  PROVE  \E t : /\ SetTx(h, t) /\ TxMemory(t) /\ TxServes(db, handler[h], t)
                /\ t.at = "commit" /\ t.unit = u /\ t.credit = tx[h].credit
                /\ t.snapshot = tx[h].snapshot /\ t.sums = Sums(outcome, u)
<1> DEFINE s == tx[h]
           sums == Sums(outcome, u)
           t == [at |-> "commit", unit |-> u, credit |-> s.credit, snapshot |-> s.snapshot,
                 locks |-> rows, sums |-> sums]
<1>1. /\ s.credit \in Int
      /\ DOMAIN s.snapshot \in SUBSET Charge /\ s.snapshot \in [DOMAIN s.snapshot -> Int]
      /\ s = [at |-> s.at, unit |-> s.unit, credit |-> s.credit, snapshot |-> s.snapshot,
              locks |-> s.locks, sums |-> s.sums]
      /\ TxServes(db, handler[h], s)
  BY TxFacts, TxMemoryFacts
<1> HIDE DEF sums
<1>2. [s EXCEPT !.at = "commit", !.unit = u, !.locks = rows, !.sums = sums] = t
  <2> DEFINE a == [s EXCEPT !.at = "commit"]
             b == [a EXCEPT !.unit = u]
             c == [b EXCEPT !.locks = rows]
  <2>1. [s EXCEPT !.at = "commit", !.unit = u, !.locks = rows, !.sums = sums] =
        [c EXCEPT !.sums = sums]
    BY Zenon
  <2>2. a = [at |-> "commit", unit |-> s.unit, credit |-> s.credit, snapshot |-> s.snapshot,
             locks |-> s.locks, sums |-> s.sums]
    BY <1>1, TxField
  <2> HIDE DEF a, s
  <2>3. b = [at |-> "commit", unit |-> u, credit |-> s.credit, snapshot |-> s.snapshot,
             locks |-> s.locks, sums |-> s.sums]
    BY <2>2, TxField
  <2> HIDE DEF b
  <2>4. c = [at |-> "commit", unit |-> u, credit |-> s.credit, snapshot |-> s.snapshot,
             locks |-> rows, sums |-> s.sums]
    BY <2>3, TxField
  <2> HIDE DEF c
  <2> QED
    BY <2>1, <2>4, TxField
<1>3. t \in TxState(DOMAIN s.snapshot)
  BY <1>1 DEF TxState, UnitRow, sums
<1>4. SetTx(h, t)
  BY <1>2 DEF TxWrite, sums
<1>5. TxServes(db, handler[h], t)
  BY <1>1, NoTxServes DEF TxServes
<1> QED
  BY <1>1, <1>3, <1>4, <1>5 DEF TxMemory, sums

(* The sums of well-formed tables are numbers.                             *)
LEMMA SumsType ==
  ASSUME NEW D \in SUBSET Charge, NEW d \in Tables(D), NEW u \in Unit
  PROVE  Sums(d, u) \in UnitRow
<1>1. d.added[u] \in Nat /\ d.used[u] \in Int
  BY DEF Tables
<1>2. SumOver(d.outstanding, ChargesOf(d, u)) \in Int
  BY TotalsType
<1> QED
  BY <1>1, <1>2 DEF Sums, UnitRow

(* What a transaction has read is what the tables hold, and the sums it    *)
(* has taken are those of the tables it will leave.                        *)
ReadsHold(d, l, t) ==
  t.at # "none" =>
    /\ l.pc = "bill" =>
         /\ t.unit \in l.todo /\ t.credit = d.rollup[t.unit].credit
         /\ t.at # "charges" => t.snapshot = OpenCharges(Charged(d, <<l.bill, t.unit>>), t.unit)
    /\ l.pc = "resolve" /\ Applies(l) =>
         /\ t.credit = d.rollup[t.unit].credit
         /\ t.at # "charges" => t.snapshot = OpenCharges(d, t.unit)

SumsHold(d, l, t) ==
  t.at = "commit" =>
    /\ l.pc = "persist" => t.sums = Sums(Persisted(d, l, t.sums), wire[l.ref].account)
    /\ l.pc = "resolve" => t.sums = Sums(Decide(d, l, t), l.unit)
    /\ l.pc = "bill" => t.sums = Sums(UnitBilled(d, l.bill, t), t.unit)

FreshTx(d, l, t) == ReadsHold(d, l, t) /\ SumsHold(d, l, t)

(* Each statement leaves its transaction with what it must know, as true   *)
(* as what the transaction knew before.                                    *)
StatementServes(h) ==
  \E t : /\ SetTx(h, t) /\ TxMemory(t) /\ TxServes(db, handler[h], t)
         /\ FreshTx(db, handler[h], tx[h]) => FreshTx(db, handler[h], t)
         /\ Pending(handler[h], t) =>
              (CanInsert(h, handler[h].ref) /\ handler[h].ref \in Ref)

LEMMA PersistWriteServes ==
  ASSUME BooksInv, NEW h \in Handler, PersistWrite(h)
  PROVE  StatementServes(h)
<1> DEFINE l == handler[h]
           u == wire[l.ref].account
           D == DOMAIN db.outstanding
           e == Persisted(db, l, NoSums)
           rows == Touched(IngestResult(l), l.snapshot)
<1>1. /\ l.pc = "persist" /\ l.ref \in Ref /\ l.credit \in Int /\ u \in Unit
      /\ DOMAIN l.snapshot \subseteq ChargesOf(db, u)
      /\ l.snapshot \in [DOMAIN l.snapshot -> Int]
  BY HandlerFacts, MemoryFacts DEF PersistWrite, Serves
<1>2. D \in SUBSET Charge /\ db \in Tables(D)
  BY TablesOKFacts DEF BooksInv, TablesOK
<1>3. MayPersist(db, l)
  BY <1>1 DEF MayPersist
<1>4. e \in Tables(D)
  BY <1>2, <1>3, NoTxServes, PersistedFacts DEF BooksInv, NoTx
<1>5. Sums(e, u) \in UnitRow
  <2> HIDE DEF e
  <2> QED
    BY <1>1, <1>2, <1>4, SumsType
<1>6. rows \in SUBSET Charge
  BY <1>1, <1>2 DEF Touched, ChargesOf
<1>7. TxWrite(h, u, rows, e) /\ tx[h] = NoTx /\ CanInsert(h, l.ref)
  BY DEF PersistWrite
<1> HIDE DEF rows, e
<1>8. PICK t : SetTx(h, t) /\ TxMemory(t) /\ TxServes(db, l, t) /\ t.sums = Sums(e, u)
  BY <1>1, <1>5, <1>6, <1>7, Written
<1>9. SameSums(e, Persisted(db, l, t.sums))
  BY <1>2, <1>3, <1>5, <1>8, NoTxServes, PersistedIgnoresSums DEF BooksInv, NoTx, e
<1>10. FreshTx(db, l, t)
  BY <1>1, <1>8, <1>9, SumsAgree DEF FreshTx, ReadsHold, SumsHold
<1> QED
  BY <1>1, <1>7, <1>8, <1>10 DEF StatementServes

LEMMA ResolutionServes ==
  ASSUME BooksInv, NEW h \in Handler,
         ResolveReadUnit(h) \/ ResolveReadCharges(h) \/ ResolveWrite(h)
  PROVE  StatementServes(h)
<1> DEFINE l == handler[h]
           t == tx[h]
           D == DOMAIN db.outstanding
<1>1. /\ l.pc = "resolve" /\ l.ref \in Ref /\ l.type \in ExceptionType
      /\ l.type # NotAnException /\ (l.type # "REVERSAL" => l.unit \in Unit)
  BY HandlerFacts, MemoryFacts DEF ResolveReadUnit, ResolveReadCharges, ResolveWrite, Serves
<1>2. D \in SUBSET Charge /\ db \in Tables(D)
  BY TablesOKFacts DEF BooksInv, TablesOK
<1>3. \A s : ~Pending(l, s)
  BY <1>1 DEF Pending
<1>4. /\ TxServes(db, l, t) /\ t.sums \in UnitRow /\ t.credit \in Int
      /\ t.snapshot \in [DOMAIN t.snapshot -> Int] /\ DOMAIN t.snapshot \in SUBSET Charge
  BY TxFacts, TxMemoryFacts
<1>5. Applies(l) \/ MakesCredit(db, l) => l.unit \in Unit
  BY <1>1 DEF Applies, MakesCredit
<1>6. CASE ResolveReadUnit(h)
  <2>1. TxReadUnit(h, l.unit) /\ l.unit \in Unit
    BY <1>5, <1>6 DEF ResolveReadUnit
  <2>2. PICK s : /\ SetTx(h, s) /\ TxMemory(s) /\ TxServes(db, l, s)
                 /\ s.at = "charges" /\ s.unit = l.unit /\ s.credit = db.rollup[l.unit].credit
    BY <1>1, <2>1, UnitRead
  <2>3. FreshTx(db, l, s)
    BY <1>1, <2>2 DEF FreshTx, ReadsHold, SumsHold
  <2> QED
    BY <1>3, <2>2, <2>3 DEF StatementServes
<1>7. CASE ResolveReadCharges(h)
  <2> DEFINE open == OpenCharges(db, t.unit)
  <2>1. TxReadCharges(h, open)
    BY <1>7 DEF ResolveReadCharges
  <2>2. t.unit \in Unit
    BY <1>4, <2>1 DEF TxReadCharges, TxServes
  <2>3. /\ open \in [DOMAIN open -> Int] /\ DOMAIN open \in SUBSET Charge
        /\ \A c \in DOMAIN open : c[2] = t.unit /\ c \in DOMAIN db.outstanding
    BY <1>2, <2>2, OpenChargesFacts
  <2> HIDE DEF open
  <2>4. PICK s : /\ SetTx(h, s) /\ TxMemory(s) /\ TxServes(db, l, s)
                 /\ s.at = "write" /\ s.unit = t.unit /\ s.credit = t.credit /\ s.snapshot = open
    BY <2>1, <2>3, ChargesRead
  <2>5. FreshTx(db, l, t) => FreshTx(db, l, s)
    BY <1>1, <2>1, <2>4 DEF FreshTx, ReadsHold, SumsHold, TxReadCharges, open
  <2> QED
    BY <1>3, <2>4, <2>5 DEF StatementServes
<1>8. CASE ResolveWrite(h)
  <2> DEFINE e == Decide(db, l, t)
             rows == Touched(Attribution(l.ref, t), t.snapshot)
  <2>1. PICK u \in {t.unit, l.unit}, some \in SUBSET Charge :
          TxWrite(h, u, some, e) /\ u = l.unit /\ u \in Unit
          /\ (t = NoTx \/ (t.at # "none" /\ t.unit = u))
          /\ (Applies(l) => t.at = "write")
    <3>1. CASE t.at = "write" /\ TxWrite(h, t.unit, rows, e)
      <4>1. rows \in SUBSET Charge
        BY <1>4 DEF Touched
      <4>2. t.unit = l.unit /\ t.unit \in Unit
        BY <1>1, <1>4, <3>1 DEF TxServes
      <4> HIDE DEF rows, e
      <4> QED
        BY <3>1, <4>1, <4>2
    <3>2. CASE t = NoTx /\ MakesCredit(db, l) /\ TxWrite(h, l.unit, {}, e)
      <4>1. ~Applies(l)
        BY <3>2 DEF MakesCredit, Applies
      <4> HIDE DEF e
      <4> QED
        BY <1>5, <3>2, <4>1
    <3> QED
      BY <1>8, <3>1, <3>2 DEF ResolveWrite
  <2>2. Applies(l) => t.unit = l.unit /\ MayApply(db, t)
    BY <1>1, <1>4, <2>1 DEF TxServes, MayApply, ChargesOf
  <2>3. MayDecide(db, l, t)
    BY <1>1, <1>4, <2>2 DEF MayDecide
  <2>4. e \in Tables(D)
    BY <1>2, <2>3, DecideFacts DEF BooksInv
  <2> HIDE DEF e
  <2>5. Sums(e, u) \in UnitRow
    BY <1>2, <2>1, <2>4, SumsType
  <2>6. PICK s : /\ SetTx(h, s) /\ TxMemory(s) /\ TxServes(db, l, s)
                 /\ s.at = "commit" /\ s.unit = u /\ s.credit = t.credit
                 /\ s.snapshot = t.snapshot /\ s.sums = Sums(e, u)
    BY <1>1, <2>1, <2>5, Written
  <2>7. Applies(l) => SameReads(t, s) /\ MayApply(db, s)
    BY <2>1, <2>2, <2>5, <2>6 DEF SameReads, MayApply
  <2>8. MayDecide(db, l, s)
    BY <2>1, <2>3, <2>5, <2>6, <2>7 DEF MayDecide
  <2>9. SameSums(e, Decide(db, l, s))
    BY <1>2, <2>3, <2>7, <2>8, DecisionIgnoresSums DEF BooksInv, e
  <2>10. SumsHold(db, l, s)
    BY <1>1, <2>1, <2>6, <2>9, SumsAgree DEF SumsHold
  <2>11. ReadsHold(db, l, t) => ReadsHold(db, l, s)
    BY <1>1, <2>1, <2>2, <2>6 DEF ReadsHold
  <2> QED
    BY <1>3, <2>6, <2>10, <2>11 DEF StatementServes, FreshTx
<1> QED
  BY <1>6, <1>7, <1>8

LEMMA BillingServes ==
  ASSUME BooksInv, NEW h \in Handler,
         (\E u \in Unit : BillReadUnit(h, u)) \/ BillReadCharges(h) \/ BillWrite(h)
  PROVE  StatementServes(h)
<1> DEFINE l == handler[h]
           t == tx[h]
           u == t.unit
           D == DOMAIN db.outstanding
<1>1. l.pc = "bill"
  BY DEF BillReadUnit, BillReadCharges, BillWrite
<1>2. \A s : ~Pending(l, s)
  BY <1>1 DEF Pending
<1>3. CASE \E v \in Unit : BillReadUnit(h, v)
  <2>1. PICK v \in Unit : TxReadUnit(h, v) /\ v \in l.todo
    BY <1>3 DEF BillReadUnit
  <2>2. PICK s : /\ SetTx(h, s) /\ TxMemory(s) /\ TxServes(db, l, s)
                 /\ s.at = "charges" /\ s.unit = v /\ s.credit = db.rollup[v].credit
    BY <1>1, <2>1, UnitRead
  <2>3. FreshTx(db, l, s)
    BY <1>1, <2>1, <2>2 DEF FreshTx, ReadsHold, SumsHold
  <2> QED
    BY <1>2, <2>2, <2>3 DEF StatementServes
<1>4. CASE BillReadCharges(h)
  <2> DEFINE w == Charged(db, <<l.bill, u>>)
             E == D \cup {<<l.bill, u>>}
             open == OpenCharges(w, u)
  <2>1. TxReadCharges(h, open)
    BY <1>4 DEF BillReadCharges
  <2>2. t.at # "none"
    BY <2>1 DEF TxReadCharges
  <2>3. D \in SUBSET Charge /\ db \in Tables(D) /\ l.bill \in Bill /\ u \in Unit
    BY <1>1, <2>2, BillFacts
  <2>4. E \in SUBSET Charge /\ w \in Tables(E)
    <3> HIDE DEF D, l, u
    <3> QED
      BY <2>3, ChargedFacts
  <2> HIDE DEF w, E
  <2>5. /\ open \in [DOMAIN open -> Int] /\ DOMAIN open \in SUBSET Charge
        /\ \A c \in DOMAIN open : c[2] = u /\ (c \in D \/ c = <<l.bill, u>>)
    <3> HIDE DEF D, l, u
    <3> QED
      BY <2>3, <2>4, OpenChargesFacts DEF E
  <2> HIDE DEF open
  <2>6. PICK s : /\ SetTx(h, s) /\ TxMemory(s) /\ TxServes(db, l, s)
                 /\ s.at = "write" /\ s.unit = u /\ s.credit = t.credit /\ s.snapshot = open
    BY <1>1, <2>1, <2>5, ChargesRead
  <2>7. open = OpenCharges(Charged(db, <<l.bill, s.unit>>), s.unit)
    BY <2>6 DEF open, w
  <2>8. FreshTx(db, l, t) => FreshTx(db, l, s)
    BY <1>1, <2>2, <2>6, <2>7 DEF FreshTx, ReadsHold, SumsHold
  <2> QED
    BY <1>2, <2>6, <2>8 DEF StatementServes
<1>5. CASE BillWrite(h)
  <2> DEFINE e == UnitBilled(db, l.bill, t)
             rows == Touched(Spending(t.credit, t.snapshot), t.snapshot)
  <2>1. t.at = "write" /\ TxWrite(h, u, rows, e)
    BY <1>5 DEF BillWrite
  <2>2. D \in SUBSET Charge /\ db \in Tables(D) /\ l.bill \in Bill /\ u \in Unit
        /\ MayBill(db, l.bill, t)
    BY <1>1, <2>1, BillFacts
  <2>3. rows \in SUBSET Charge
    BY TxFacts, TxMemoryFacts DEF Touched
  <2>4. Bills(D, db, l.bill, t, e)
    BY <2>2, BillUnitFacts
  <2>7. BillsCredit(db, l.bill, t, e)
    BY <2>2, BillUnitFacts
  <2> HIDE DEF e, rows
  <2>5. Sums(e, u) \in UnitRow
    BY <2>2, <2>4, SumsType DEF Bills
  <2>6. PICK s : /\ SetTx(h, s) /\ TxMemory(s) /\ TxServes(db, l, s)
                 /\ s.at = "commit" /\ s.unit = u /\ s.credit = t.credit
                 /\ s.snapshot = t.snapshot /\ s.sums = Sums(e, u)
    BY <1>1, <2>1, <2>2, <2>3, <2>5, Written
  <2>8. SameReads(t, s) /\ MayBill(db, l.bill, s)
    BY <2>2, <2>5, <2>6 DEF SameReads, MayBill, MayApply
  <2>9. SameSums(e, UnitBilled(db, l.bill, s))
    BY <2>7, <2>8 DEF BillsCredit
  <2>10. SumsHold(db, l, s)
    BY <1>1, <2>6, <2>9, SumsAgree DEF SumsHold
  <2>11. ReadsHold(db, l, t) => ReadsHold(db, l, s)
    BY <1>1, <2>1, <2>6 DEF ReadsHold
  <2> QED
    BY <1>2, <2>6, <2>10, <2>11 DEF StatementServes, FreshTx
<1> QED
  BY <1>3, <1>4, <1>5

(* A statement of a transaction keeps the invariant.                       *)
LEMMA InTransactionOK ==
  ASSUME BooksInv, NEW h \in Handler, InTransaction(h)
  PROVE  BooksInv' /\ Later(db, db')
<1>1. StatementServes(h)
  BY PersistWriteServes, ResolutionServes, BillingServes DEF InTransaction
<1>2. PICK t : /\ SetTx(h, t) /\ TxMemory(t) /\ TxServes(db, handler[h], t)
               /\ Pending(handler[h], t) =>
                    (CanInsert(h, handler[h].ref) /\ handler[h].ref \in Ref)
  BY <1>1 DEF StatementServes
<1>3. /\ wire' = wire /\ db' = db /\ refunded' = refunded /\ handler' = handler
      /\ clawedBack' = clawedBack /\ stranded' = stranded
  BY InTransactionIsQuiet DEF InTx
<1>4. Later(db, db')
  BY <1>3, LaterItself DEF BooksInv
<1>5. handler' = [handler EXCEPT ![h] = handler[h]]
  BY <1>3 DEF BooksInv, HandlersOK
<1>6. tx' = [tx EXCEPT ![h] = t]
  BY <1>2 DEF SetTx
<1>7. \A g \in Handler \ {h} : Pending(handler[g], tx[g]) =>
        db'.payment[handler[g].ref].status = "NONE"
  BY <1>3 DEF BooksInv, TransactionsOK
<1>8. Pending(handler[h], t) =>
        /\ db'.payment[handler[h].ref].status = "NONE"
        /\ \A g \in Handler \ {h} : Pending(handler[g], tx[g]) =>
             handler[g].ref # handler[h].ref
  BY <1>2, <1>3 DEF CanInsert, Inserting, Pending, HasPayment
<1>9. TransactionsOK(db', handler', tx')
  BY <1>2, <1>3, <1>4, <1>5, <1>6, <1>7, <1>8, TransactionsStay
<1>10. TransactionsOK(db, handler, tx)'
  BY <1>9 DEF TransactionsOK, TxServes, Pending
<1>11. HandlersOK(db, handler)'
  BY <1>3 DEF BooksInv, HandlersOK, Serves
<1>12. TablesOK(db)' /\ (\A r \in Ref : Known(db, clawedBack, r))'
  BY <1>3 DEF BooksInv
<1> QED
  BY <1>3, <1>4, <1>10, <1>11, <1>12 DEF BooksInv
-----------------------------------------------------------------------------
(* Any other step has no transaction open, or ends it, and books no        *)
(* payment that another handler is inserting.                              *)
EndsQuietly(h) ==
  /\ tx' = [tx EXCEPT ![h] = NoTx] \/ (tx' = tx /\ tx[h].at = "none")
  /\ \A r \in Ref :
       HasPayment(db', r) => \/ HasPayment(db, r)
                             \/ wire[r].account = NoUnit
                             \/ (Pending(handler[h], tx[h]) /\ r = handler[h].ref)

OtherStep(h) ==
  \/ (\E r \in Ref : IngestDedupe(h, r)) \/ BookMisdirected(h)
  \/ ReadUnit(h) \/ ReadCharges(h) \/ ReadPriors(h) \/ Persist(h)
  \/ (\E r \in Ref : ReverseFind(h, r)) \/ MarkReversed(h)
  \/ \E r \in Ref, action \in {p[2] : p \in Offered}, target \in Unit \cup {NoUnit} :
       ResolveRead(h, r, action, target)
  \/ SendRefund(h) \/ Resolve(h)
  \/ (\E b \in Bill, scope \in Scopes : BillStart(h, b, scope)) \/ BillUnit(h)
  \/ Abort(h)

LEMMA NextSteps ==
  ASSUME Next PROVE \E h \in Handler : InTransaction(h) \/ OtherStep(h)
BY Zenon DEF Next, Ingest, Reversal, Resolution, Billing, InTransaction, OtherStep

LEMMA OtherStepKeepsWire ==
  ASSUME NEW h, OtherStep(h) PROVE wire' = wire
BY DEF OtherStep, IngestDedupe, BookMisdirected, ReadUnit, ReadCharges, ReadPriors, Persist,
       ReverseFind, MarkReversed, ResolveRead, SendRefund, Resolve, BillStart, BillUnit, Abort,
       Quiet

LEMMA OtherStepEndsQuietly ==
  ASSUME BooksInv, NEW h \in Handler, OtherStep(h)
  PROVE  EndsQuietly(h)
<1>1. ASSUME handler[h].pc \notin {"persist", "resolve", "bill"} PROVE tx[h].at = "none"
  BY <1>1, TxFacts DEF TxServes
<1>2. CASE db' = db /\ tx' = tx /\ handler[h].pc \notin {"persist", "resolve", "bill"}
  BY <1>1, <1>2 DEF EndsQuietly, HasPayment
<1>3. CASE \/ \E r \in Ref : IngestDedupe(h, r)
           \/ ReadUnit(h) \/ ReadCharges(h) \/ ReadPriors(h)
           \/ \E r \in Ref : ReverseFind(h, r)
           \/ SendRefund(h)
  <2>1. CASE (\E r \in Ref : IngestDedupe(h, r)) \/ (\E r \in Ref : ReverseFind(h, r))
    <3>1. db' = db /\ tx' = tx /\ handler[h] = Idle
      BY <2>1 DEF IngestDedupe, ReverseFind
    <3> QED
      BY <1>2, <3>1 DEF Idle
  <2>2. CASE ReadUnit(h) \/ ReadCharges(h) \/ ReadPriors(h)
    <3>1. db' = db /\ tx' = tx /\ handler[h].pc \in {"account", "charges", "priors"}
      BY <2>2 DEF ReadUnit, ReadCharges, ReadPriors
    <3> QED
      BY <1>2, <3>1
  <2>3. CASE SendRefund(h)
    <3>1. db' = db /\ tx' = tx /\ handler[h].pc = "refund"
      BY <2>3 DEF SendRefund
    <3> QED
      BY <1>2, <3>1
  <2> QED
    BY <1>3, <2>1, <2>2, <2>3
<1>4. CASE \E r \in Ref, action \in {p[2] : p \in Offered}, target \in Unit \cup {NoUnit} :
             ResolveRead(h, r, action, target)
  BY <1>2, <1>4 DEF ResolveRead, Idle
<1>5. CASE BookMisdirected(h)
  <2>1. handler[h].ref \in Ref /\ OthersStay(db, db', handler[h].ref)
    BY <1>5, BookMisdirectedFacts
  <2>2. wire[handler[h].ref].account = NoUnit /\ tx' = tx /\ handler[h].pc = "account"
    BY <1>5 DEF BookMisdirected
  <2> QED
    BY <1>1, <2>1, <2>2 DEF EndsQuietly, OthersStay, SameRows, HasPayment
<1>6. CASE Persist(h)
  <2>1. handler[h].ref \in Ref /\ OthersStay(db, db', handler[h].ref)
    BY <1>6, PersistFacts DEF Persists
  <2>2. Pending(handler[h], tx[h]) /\ tx' = [tx EXCEPT ![h] = NoTx]
    BY <1>6 DEF Persist, Pending, EndTx, SetTx
  <2> QED
    BY <2>1, <2>2 DEF EndsQuietly, OthersStay, SameRows, HasPayment
<1>7. CASE MarkReversed(h)
  <2>1. handler[h].ref \in Ref /\ OthersStay(db, db', handler[h].ref) /\ HasPayment(db, handler[h].ref)
    BY <1>7, MarkReversedFacts
  <2>2. tx' = tx /\ handler[h].pc = "reverse"
    BY <1>7 DEF MarkReversed
  <2> QED
    BY <1>1, <2>1, <2>2 DEF EndsQuietly, OthersStay, SameRows, HasPayment
<1>8. CASE Resolve(h)
  <2>1. handler[h].ref \in Ref /\ OthersStay(db, db', handler[h].ref) /\ HasPayment(db, handler[h].ref)
    BY <1>8, ResolveFacts DEF Resolves
  <2>2. tx' = [tx EXCEPT ![h] = NoTx]
    BY <1>8 DEF Resolve, EndTx, SetTx
  <2> QED
    BY <2>1, <2>2 DEF EndsQuietly, OthersStay, SameRows, HasPayment
<1>9. CASE \E b \in Bill, scope \in Scopes : BillStart(h, b, scope)
  <2>1. PICK b \in Bill, scope \in Scopes : BillStart(h, b, scope)
    BY <1>9
  <2>2. handler[h].pc = "idle" /\ tx' = tx /\ db' = [db EXCEPT !.bills = db.bills \cup {b}]
    BY <2>1 DEF BillStart, Idle
  <2>3. db'.payment = db.payment
    BY <2>2 DEF BooksInv, TablesOK, Tables
  <2> QED
    BY <1>1, <2>2, <2>3 DEF EndsQuietly, HasPayment
<1>10. CASE BillUnit(h)
  <2> DEFINE l == handler[h]
             e == UnitBilled(db, l.bill, tx[h])
  <2>1. db' = e /\ tx' = [tx EXCEPT ![h] = NoTx] /\ l.pc = "bill" /\ tx[h].at # "none"
    BY <1>10 DEF BillUnit, EndTx, SetTx
  <2>2. Bills(DOMAIN db.outstanding, db, l.bill, tx[h], e)
    BY <2>1, BillFacts, BillUnitFacts
  <2>3. e.payment = db.payment
    BY <2>2 DEF Bills
  <2> HIDE DEF e
  <2> QED
    BY <2>1, <2>3 DEF EndsQuietly, HasPayment
<1>11. CASE Abort(h)
  BY <1>11 DEF Abort, EndTx, SetTx, EndsQuietly, HasPayment
<1> QED
  BY <1>3, <1>4, <1>5, <1>6, <1>7, <1>8, <1>9, <1>10, <1>11 DEF OtherStep

(* The transactions of the others go on as before.                         *)
LEMMA QuietEndsKeep ==
  ASSUME BooksInv, Later(db, db'), NEW h \in Handler, NEW next,
         handler' = [handler EXCEPT ![h] = next], EndsQuietly(h)
  PROVE  TransactionsOK(db', handler', tx')
<1>1. PICK t : /\ tx' = [tx EXCEPT ![h] = t] /\ t.at = "none" /\ TxMemory(t)
  <2>1. CASE tx' = [tx EXCEPT ![h] = NoTx]
    BY <2>1, NoTxServes
  <2>2. CASE tx' = tx /\ tx[h].at = "none"
    <3>1. tx' = [tx EXCEPT ![h] = tx[h]]
      BY <2>2 DEF BooksInv, TransactionsOK
    <3> QED
      BY <2>2, <3>1, TxFacts
  <2> QED
    BY <2>1, <2>2 DEF EndsQuietly
<1>2. TxServes(db', next, t) /\ ~Pending(next, t)
  BY <1>1 DEF TxServes, Pending
<1>3. ASSUME NEW g \in Handler \ {h}, Pending(handler[g], tx[g])
      PROVE  db'.payment[handler[g].ref].status = "NONE"
  <2> DEFINE r == handler[g].ref
  <2>1. r \in Ref /\ wire[r].account \in Unit
    BY <1>3, HandlerFacts, MemoryFacts DEF Pending, Serves
  <2>2. ~HasPayment(db, r) /\ ~(Pending(handler[h], tx[h]) /\ r = handler[h].ref)
    BY <1>3 DEF BooksInv, TransactionsOK, HasPayment
  <2> HIDE DEF r
  <2>3. ~HasPayment(db', r)
    BY <2>1, <2>2, LedgerAssumption DEF EndsQuietly
  <2> QED
    BY <2>3 DEF HasPayment, r
<1> QED
  BY <1>1, <1>2, <1>3, TransactionsStay

LEMMA OtherStepOK ==
  ASSUME BooksInv, NEW h \in Handler, OtherStep(h)
  PROVE  BooksInv' /\ Later(db, db')
<1>1. LeavesBooks /\ \E next : Continues(h, next)
  <2>1. CASE \E r \in Ref, action \in {p[2] : p \in Offered}, target \in Unit \cup {NoUnit} :
               ResolveRead(h, r, action, target)
    BY <2>1, ResolveReadOK
  <2> QED
    BY <2>1, IngestDedupeOK, BookMisdirectedOK, ReadUnitOK, ReadChargesOK, ReadPriorsOK,
       PersistOK, ReverseFindOK, MarkReversedOK, SendRefundOK, ResolveOK, BillStartOK,
       BillUnitOK, AbortOK DEF OtherStep
<1>2. PICK next : Continues(h, next)
  BY <1>1
<1>3. Later(db, db')
  BY <1>1 DEF LeavesBooks
<1>4. TransactionsOK(db', handler', tx')
  BY <1>2, <1>3, OtherStepEndsQuietly, QuietEndsKeep DEF Continues
<1> QED
  BY <1>1, <1>2, <1>3, <1>4, StepKeepsBooks

(* The empty tables satisfy the invariant.                                 *)
LEMMA EmptyRows ==
  /\ EmptyDb.outstanding = << >> /\ DOMAIN << >> = {} /\ << >> \in [{} -> Int]
  /\ \A r \in Ref : EmptyDb.payment[r] = [status |-> "NONE", unit |-> NoUnit]
  /\ \A r \in Ref : EmptyDb.exception[r] = [type |-> NotAnException, open |-> FALSE]
  /\ \A r \in Ref : EmptyDb.credited[r] = 0 /\ \A c \in Charge : EmptyDb.paid[r][c] = 0
  /\ \A u \in Unit : /\ EmptyDb.rollup[u] = [balance |-> 0, credit |-> 0]
                     /\ EmptyDb.added[u] = 0 /\ EmptyDb.used[u] = 0
BY DEF EmptyDb

LEMMA BooksInit ==
  ASSUME Init PROVE BooksInv
<1>1. TablesOK(EmptyDb)
  <2>1. EmptyDb \in Tables({})
    BY EmptyRows DEF EmptyDb, Tables, PaymentStatus, ExceptionType
  <2> QED
    BY <2>1, EmptyRows DEF TablesOK
<1>2. \A r \in Ref : Known(EmptyDb, {}, r)
  BY EmptyRows DEF Known, HasPayment, NotAnException
<1>3. HandlersOK(EmptyDb, [h \in Handler |-> Idle])
  BY IdleServes DEF HandlersOK
<1>4. TransactionsOK(EmptyDb, [h \in Handler |-> Idle], [h \in Handler |-> NoTx])
  BY NoTxServes DEF TransactionsOK, TxServes, Pending
<1> QED
  <2>1. [r \in Ref |-> 0] \in [Ref -> Nat]
    OBVIOUS
  <2> HIDE DEF EmptyDb
  <2> QED
    BY <1>1, <1>2, <1>3, <1>4, <2>1 DEF Init, BooksInv

(* No step of any handler breaks the invariant, and each leads to later    *)
(* tables.                                                                 *)
LEMMA BooksNext ==
  ASSUME BooksInv, [Next]_vars
  PROVE  BooksInv' /\ Later(db, db')
<1>1. CASE UNCHANGED vars
  <2>1. BooksInv'
    BY <1>1 DEF BooksInv, vars, HandlersOK, Serves, TransactionsOK, TxServes, Pending
  <2> QED
    BY <1>1, <2>1, LaterItself DEF BooksInv, vars
<1>2. CASE Next
  BY <1>2, NextSteps, InTransactionOK, OtherStepOK
<1> QED
  BY <1>1, <1>2

(* The invariant implies what the runs check.                              *)
LEMMA BooksImply ==
  ASSUME BooksInv
  PROVE  TypeOK /\ NothingIsInvisible /\ ClawbackIsKnown
<1>1. TypeOK
  BY DEF BooksInv, TypeOK, HandlersOK, Memory, TransactionsOK, TxMemory, TablesOK
<1>2. NothingIsInvisible
  BY DEF BooksInv, Known, NothingIsInvisible
<1>3. ClawbackIsKnown
  BY DEF BooksInv, Known, ClawbackIsKnown
<1> QED
  BY <1>1, <1>2, <1>3

(* The inductive invariant of the books, with any number of handlers whose *)
(* database transactions interleave statement by statement: the tables are *)
(* well formed, what each exception says of its payment is so, what a      *)
(* request or a transaction has read and relies on cannot have been undone *)
(* since, and no two transactions insert the same payment.  It says        *)
(* nothing of the amounts in the unit rows, which another transaction may  *)
(* leave stale.                                                            *)
THEOREM BooksInvariant == Spec => []BooksInv
<1>1. Init => BooksInv
  BY BooksInit
<1>2. BooksInv /\ [Next]_vars => BooksInv'
  BY BooksNext
<1> QED
  BY <1>1, <1>2, PTL DEF Spec

(* The tables, and what each handler and transaction holds between two of  *)
(* its steps, keep their types.                                            *)
THEOREM LedgerTypeCorrect == Spec => []TypeOK
BY BooksInvariant, BooksImply, PTL

(* A payment held for review always has an open exception, until a manager *)
(* has confirmed it as a duplicate, whichever handlers interleave: no      *)
(* payment drops out of the queue without a decision.                      *)
THEOREM NothingBecomesInvisible == Spec => []NothingIsInvisible
BY BooksInvariant, BooksImply, PTL

(* A payment whose reversal has been processed stays REVERSED, or had an   *)
(* exception of its own that a manager has resolved since.                 *)
THEOREM ClawbackStaysKnown == Spec => []ClawbackIsKnown
BY BooksInvariant, BooksImply, PTL

(* No step of any handler takes back what a payment has paid of a charge,  *)
(* deletes a payment or reopens a resolved exception: corrections are new  *)
(* rows.                                                                   *)
THEOREM TheBooksOnlyGrow == Spec => BooksOnlyGrow
<1> DEFINE Grow == \A r \in Ref :
             /\ \A c \in Charge : db'.paid[r][c] >= db.paid[r][c]
             /\ HasPayment(db, r) => HasPayment(db', r)
             /\ db.exception[r].type # NotAnException /\ ~db.exception[r].open =>
                  ~db'.exception[r].open
<1>1. BooksInv /\ [Next]_vars => [Grow]_vars
  <2> SUFFICES ASSUME BooksInv, [Next]_vars PROVE Grow
    OBVIOUS
  <2>1. Later(db, db')
    BY BooksNext
  <2> QED
    BY <2>1 DEF Later, PaidGrows
<1> QED
  BY <1>1, BooksInvariant, PTL DEF Spec, BooksOnlyGrow

OneManager == \A g, h \in Manager : g = h

InReview(l) == l.pc \in {"refund", "resolve"}

(* What has been applied of a payment, while it waits for a manager and    *)
(* ever.                                                                   *)
Reviewable(d, r) ==
  /\ AppliedIn(d, r) <= Gross(r)
  /\ d.exception[r].open =>
       /\ d.exception[r].type \in {"DUPLICATE", "MISDIRECTED", "THIRD_PARTY"} =>
            AppliedIn(d, r) = 0
       /\ d.exception[r].type = "OVERPAYMENT" => d.credited[r] = 0 /\ Total(d, r) < Gross(r)

ReviewsAreOpen(d, hs) ==
  \A h \in Handler : InReview(hs[h]) => d.exception[hs[h].ref].open

ReviewInv ==
  BooksInv /\ (\A r \in Ref : Reviewable(db, r)) /\ ReviewsAreOpen(db, handler)

(* Exceptions under review stay open when the step that is taken leaves    *)
(* them open.                                                              *)
LEMMA ReviewsStayOpen ==
  ASSUME BooksInv, ReviewsAreOpen(db, handler), NEW h \in Handler, NEW next,
         handler' = [handler EXCEPT ![h] = next],
         InReview(next) => db'.exception[next.ref].open,
         \A g \in Handler \ {h} : InReview(handler[g]) /\ db.exception[handler[g].ref].open =>
           db'.exception[handler[g].ref].open
  PROVE  ReviewsAreOpen(db', handler')
<1> SUFFICES ASSUME NEW g \in Handler, InReview(handler'[g])
             PROVE  db'.exception[handler'[g].ref].open
  BY DEF ReviewsAreOpen
<1>1. handler'[g] = IF g = h THEN next ELSE handler[g]
  BY DEF BooksInv, HandlersOK
<1> QED
  BY <1>1 DEF ReviewsAreOpen

(* What is known of a payment depends on its own rows.                     *)
LEMMA ReviewableByRows ==
  ASSUME NEW d, NEW e, NEW r, SameRows(d, e, r), Reviewable(d, r) PROVE Reviewable(e, r)
BY DEF SameRows, Reviewable, AppliedIn, Total

(* A step on one payment leaves the others as they were.                   *)
LEMMA OthersStayReviewable ==
  ASSUME NEW d, NEW e, NEW r \in Ref, OthersStay(d, e, r), \A s \in Ref : Reviewable(d, s),
         Reviewable(e, r)
  PROVE  \A s \in Ref : Reviewable(e, s)
<1> SUFFICES ASSUME NEW s \in Ref, s # r PROVE Reviewable(e, s)
  OBVIOUS
<1> QED
  BY ReviewableByRows DEF OthersStay

(* The amounts of a payment are natural numbers, and a payment that is not *)
(* booked has moved nothing.                                               *)
LEMMA MoneyFacts ==
  ASSUME BooksInv, NEW r \in Ref
  PROVE  /\ Total(db, r) \in Nat /\ db.credited[r] \in Nat /\ Gross(r) \in Nat \ {0}
         /\ AppliedIn(db, r) \in Nat
         /\ ~HasPayment(db, r) => Total(db, r) = 0 /\ db.credited[r] = 0
<1>1. DOMAIN db.outstanding \in SUBSET Charge /\ db \in Tables(DOMAIN db.outstanding)
  BY TablesOKFacts DEF BooksInv, TablesOK
<1>2. Total(db, r) \in Nat
  BY <1>1, TotalsType DEF Total
<1>3. db.credited[r] \in Nat
  BY <1>1 DEF Tables
<1>4. Gross(r) \in Nat \ {0}
  BY LedgerAssumption DEF BooksInv, Gross, TransferType
<1>5. ~HasPayment(db, r) => Total(db, r) = 0 /\ db.credited[r] = 0
  BY ChargesAreFinite, SumZero DEF BooksInv, Known, Total
<1> QED
  BY <1>2, <1>3, <1>4, <1>5 DEF AppliedIn

(* Steps that read, and the transfer of a refund.                          *)
LEMMA ReadingKeepsReviews ==
  ASSUME ReviewInv, NEW h \in Handler, db' = db, NEW next,
         handler' = [handler EXCEPT ![h] = next],
         InReview(next) => db.exception[next.ref].open
  PROVE  (\A r \in Ref : Reviewable(db', r)) /\ ReviewsAreOpen(db', handler')
<1>1. ReviewsAreOpen(db', handler')
  BY ReviewsStayOpen DEF ReviewInv
<1> QED
  BY <1>1 DEF ReviewInv

(* The steps that write no table.                                          *)
LEMMA ReviewSteps ==
  ASSUME ReviewInv, NEW h \in Handler,
         \/ \E r \in Ref : IngestDedupe(h, r)
         \/ ReadUnit(h) \/ ReadCharges(h) \/ ReadPriors(h)
         \/ \E r \in Ref : ReverseFind(h, r)
         \/ \E r \in Ref, action \in {p[2] : p \in Offered}, target \in Unit \cup {NoUnit} :
              ResolveRead(h, r, action, target)
         \/ SendRefund(h) \/ Abort(h)
  PROVE  (\A r \in Ref : Reviewable(db', r)) /\ ReviewsAreOpen(db', handler')
<1>1. ASSUME NEW r \in Ref, IngestDedupe(h, r)
      PROVE  (\A s \in Ref : Reviewable(db', s)) /\ ReviewsAreOpen(db', handler')
  BY <1>1, ReadingKeepsReviews DEF IngestDedupe, Goes, InReview
<1>2. ASSUME ReadUnit(h) \/ ReadCharges(h) \/ ReadPriors(h)
      PROVE  (\A s \in Ref : Reviewable(db', s)) /\ ReviewsAreOpen(db', handler')
  <2>1. CASE ReadUnit(h)
    BY <2>1, ReadingKeepsReviews DEF ReadUnit, Goes, InReview
  <2>2. CASE ReadCharges(h)
    BY <2>2, ReadingKeepsReviews DEF ReadCharges, Goes, InReview
  <2>3. CASE ReadPriors(h)
    BY <2>3, ReadingKeepsReviews DEF ReadPriors, Goes, InReview
  <2> QED
    BY <1>2, <2>1, <2>2, <2>3
<1>3. ASSUME NEW r \in Ref, ReverseFind(h, r)
      PROVE  (\A s \in Ref : Reviewable(db', s)) /\ ReviewsAreOpen(db', handler')
  BY <1>3, ReadingKeepsReviews DEF ReverseFind, Goes, InReview
<1>4. ASSUME NEW r \in Ref, NEW action, NEW target, ResolveRead(h, r, action, target)
      PROVE  (\A s \in Ref : Reviewable(db', s)) /\ ReviewsAreOpen(db', handler')
  <2> DEFINE type == db.exception[r].type
             next == [pc |-> IF type = "OVERPAYMENT" /\ action = "refund" THEN "refund" ELSE "resolve",
                      ref |-> r, type |-> type, action |-> action,
                      unit |-> IF type = "MISDIRECTED" THEN target ELSE db.payment[r].unit]
  <2>1. db' = db /\ db.exception[r].open /\ handler' = [handler EXCEPT ![h] = next]
    BY <1>4 DEF ResolveRead, Goes
  <2>2. next.ref = r
    OBVIOUS
  <2> HIDE DEF next
  <2> QED
    BY <2>1, <2>2, ReadingKeepsReviews
<1>5. ASSUME SendRefund(h) \/ Abort(h)
      PROVE  (\A s \in Ref : Reviewable(db', s)) /\ ReviewsAreOpen(db', handler')
  <2>1. ~InReview(Idle)
    BY DEF Idle, InReview
  <2>2. CASE handler' = [handler EXCEPT ![h] = Idle] /\ db' = db
    BY <2>1, <2>2, ReadingKeepsReviews
  <2>3. CASE /\ handler[h].pc = "refund" /\ db' = db
             /\ handler' = [handler EXCEPT ![h] = [handler[h] EXCEPT !.pc = "resolve"]]
    <3>1. Memory(handler[h]) /\ db.exception[handler[h].ref].open
      BY <2>3, HandlerFacts DEF ReviewInv, ReviewsAreOpen, InReview
    <3>2. [handler[h] EXCEPT !.pc = "resolve"].ref = handler[h].ref
      <4>1. handler[h] = [pc |-> handler[h].pc, ref |-> handler[h].ref, type |-> handler[h].type,
                          action |-> handler[h].action, unit |-> handler[h].unit]
        BY <2>3, <3>1, MemoryFacts
      <4> QED
        BY <4>1
    <3> QED
      BY <2>3, <3>1, <3>2, ReadingKeepsReviews
  <2> QED
    BY <1>5, <2>2, <2>3 DEF SendRefund, Abort, Goes
<1> QED
  BY <1>1, <1>2, <1>3, <1>4, <1>5

(* A misdirected payment has nothing applied and waits for a decision.     *)
LEMMA MisdirectedReview ==
  ASSUME ReviewInv, NEW h \in Handler, BookMisdirected(h)
  PROVE  (\A r \in Ref : Reviewable(db', r)) /\ ReviewsAreOpen(db', handler')
<1> DEFINE r == handler[h].ref
<1>1. /\ r \in Ref /\ ~HasPayment(db, r) /\ SameBooks(db, db') /\ OthersStay(db, db', r)
      /\ db'.exception[r] = [type |-> "MISDIRECTED", open |-> TRUE]
  BY BookMisdirectedFacts DEF ReviewInv
<1> HIDE DEF r
<1>2. Reviewable(db', r)
  BY <1>1, MoneyFacts DEF ReviewInv, Reviewable, SameBooks, AppliedIn, Total
<1>3. \A g \in Handler : InReview(handler[g]) => handler[g].ref \in Ref
  BY HandlerFacts, MemoryFacts DEF ReviewInv, InReview
<1>4. ReviewsAreOpen(db', handler')
  <2>1. ~InReview(Idle) /\ handler' = [handler EXCEPT ![h] = Idle]
    BY DEF Idle, InReview, BookMisdirected, Goes
  <2>2. \A s \in Ref : db.exception[s].open => db'.exception[s].open
    BY <1>1 DEF OthersStay, SameRows
  <2> QED
    BY <1>3, <2>1, <2>2, ReviewsStayOpen DEF ReviewInv
<1> QED
  BY <1>1, <1>2, <1>4, OthersStayReviewable DEF ReviewInv

(* A payment persisted at ingest is applied once, in full, or it waits     *)
(* with at most its part on the charges applied.                           *)
LEMMA PersistReview ==
  ASSUME ReviewInv, NEW h \in Handler, Persist(h)
  PROVE  (\A r \in Ref : Reviewable(db', r)) /\ ReviewsAreOpen(db', handler')
<1> DEFINE l == handler[h]
           r == l.ref
<1>1. /\ r \in Ref /\ ~HasPayment(db, r) /\ Known(db, clawedBack, r)
      /\ Persists(db, l, tx[h].sums, db') /\ DOMAIN db.outstanding \in SUBSET Charge
      /\ db' \in Tables(DOMAIN db.outstanding)
  BY PersistFacts DEF ReviewInv
<1>2. Total(db, r) = 0 /\ db.credited[r] = 0 /\ Gross(r) \in Nat
  BY <1>1, MoneyFacts DEF ReviewInv
<1>3. Total(db', r) \in Nat
  BY <1>1, TotalsType DEF Total
<1>4. ~db.exception[r].open
  BY <1>1 DEF Known
<1>5. Reviewable(db', r)
  <2>1. CASE HeldForReview(db, l, db')
    <3>1. CASE db'.exception[r].type = "OVERPAYMENT"
      BY <1>2, <1>3, <2>1, <3>1 DEF HeldForReview, Reviewable, AppliedIn
    <3>2. CASE db'.exception[r].type # "OVERPAYMENT"
      BY <1>2, <2>1, <3>2 DEF HeldForReview, Reviewable, AppliedIn, Total
    <3> QED
      BY <3>1, <3>2
  <2>2. CASE SettledAtOnce(db, l, db')
    <3>1. AppliedIn(db', r) = Gross(r) /\ ~db'.exception[r].open
      BY <1>2, <1>4, <2>2 DEF SettledAtOnce, AppliesInFull, AppliedIn
    <3> QED
      BY <1>2, <3>1 DEF Reviewable
  <2> QED
    BY <1>1, <2>1, <2>2 DEF Persists
<1>6. ReviewsAreOpen(db', handler')
  <2>1. ~InReview(Idle) /\ handler' = [handler EXCEPT ![h] = Idle]
    BY DEF Idle, InReview, Persist, Goes
  <2>2. \A s \in Ref : db.exception[s].open => db'.exception[s].open
    BY <1>1, <1>4 DEF OthersStay, SameRows, Persists
  <2>3. \A g \in Handler : InReview(handler[g]) => handler[g].ref \in Ref
    BY HandlerFacts, MemoryFacts DEF ReviewInv, InReview
  <2> QED
    BY <2>1, <2>2, <2>3, ReviewsStayOpen DEF ReviewInv
<1> QED
  BY <1>1, <1>5, <1>6, OthersStayReviewable DEF ReviewInv, Persists

(* A reversal applies nothing.                                             *)
LEMMA ReversalReview ==
  ASSUME ReviewInv, NEW h \in Handler, MarkReversed(h)
  PROVE  (\A r \in Ref : Reviewable(db', r)) /\ ReviewsAreOpen(db', handler')
<1> DEFINE r == handler[h].ref
<1>1. /\ r \in Ref /\ SameBooks(db, db') /\ OthersStay(db, db', r) /\ Known(db, clawedBack, r)
      /\ db.exception[r].type # NotAnException => db'.exception[r] = db.exception[r]
      /\ db.exception[r].type = NotAnException => db'.exception[r].type = "REVERSAL"
  BY MarkReversedFacts DEF ReviewInv
<1> HIDE DEF r
<1>2. Reviewable(db', r)
  <2>1. Reviewable(db, r)
    BY <1>1 DEF ReviewInv
  <2> QED
    BY <1>1, <2>1 DEF Reviewable, SameBooks, AppliedIn, Total
<1>3. ReviewsAreOpen(db', handler')
  <2>1. ~InReview(Idle) /\ handler' = [handler EXCEPT ![h] = Idle]
    BY DEF Idle, InReview, MarkReversed, Goes
  <2>2. \A s \in Ref : db.exception[s].open => db'.exception[s].open
    BY <1>1 DEF OthersStay, SameRows, Known
  <2>3. \A g \in Handler : InReview(handler[g]) => handler[g].ref \in Ref
    BY HandlerFacts, MemoryFacts DEF ReviewInv, InReview
  <2> QED
    BY <2>1, <2>2, <2>3, ReviewsStayOpen DEF ReviewInv
<1> QED
  BY <1>1, <1>2, <1>3, OthersStayReviewable DEF ReviewInv

(* What a decision on an open exception makes of the payment's money.      *)
LEMMA ResolveMoney ==
  ASSUME ReviewInv, NEW h \in Handler, Resolve(h), NEW l, l = handler[h]
  PROVE  LET r == l.ref
         IN  /\ ~db'.exception[r].open /\ db'.exception[r].type = db.exception[r].type
             /\ db.exception[r].open
             /\ l.type = "OVERPAYMENT" =>
                  /\ db'.payment[r].status = "OVERPAYMENT"
                  /\ AppliedIn(db', r) = IF l.action = "credit" THEN Gross(r) ELSE Total(db, r)
                  /\ Total(db, r) < Gross(r)
             /\ \/ l.type = "DUPLICATE" /\ l.action # "duplicate-keep"
                \/ l.type = "REVERSAL"
                => /\ AppliedIn(db', r) = AppliedIn(db, r)
                   /\ db'.payment[r].status = db.payment[r].status
             /\ l.type = "THIRD_PARTY" /\ l.action = "refund" =>
                  AppliedIn(db', r) = AppliedIn(db, r) /\ db'.payment[r].status = "REVERSED"
             /\ \/ l.type = "DUPLICATE" /\ l.action = "duplicate-keep"
                \/ l.type = "MISDIRECTED"
                \/ l.type = "THIRD_PARTY" /\ l.action # "refund"
                => /\ AppliedIn(db', r) = Gross(r)
                   /\ db'.payment[r].status \in {"OVERPAYMENT", "PARTIAL", "MATCHED"}
<1> DEFINE r == l.ref
<1>1. /\ r \in Ref /\ l.type = db.exception[r].type /\ Resolves(db, l, tx[h], db')
  BY ResolveFacts DEF ReviewInv
<1>2. db.exception[r].open
  BY DEF ReviewInv, ReviewsAreOpen, InReview, Resolve
<1>3. Reviewable(db, r)
  BY <1>1 DEF ReviewInv
<1>4. PICK f : Reviewed(db, l, f) /\ db'.payment = f.payment /\ db'.paid = f.paid
               /\ db'.credited = f.credited
  BY <1>1 DEF Resolves
<1>5. Total(db, r) \in Nat /\ db.credited[r] \in Nat /\ Gross(r) \in Nat
  BY <1>1, MoneyFacts DEF ReviewInv
<1>6. AppliedIn(db', r) = AppliedIn(f, r)
  BY <1>4 DEF AppliedIn, Total
<1>7. ~db'.exception[r].open /\ db'.exception[r].type = db.exception[r].type
  BY <1>1 DEF Resolves
<1>8. ASSUME l.type = "OVERPAYMENT"
      PROVE  /\ db'.payment[r].status = "OVERPAYMENT"
             /\ AppliedIn(db', r) = IF l.action = "credit" THEN Gross(r) ELSE Total(db, r)
             /\ Total(db, r) < Gross(r)
  <2>1. db.credited[r] = 0 /\ Total(db, r) < Gross(r)
    BY <1>1, <1>2, <1>3, <1>8 DEF Reviewable
  <2>2. Surplus(db, r) = Gross(r) - Total(db, r)
    BY DEF Surplus, Total
  <2>3. /\ f.payment[r].status = "OVERPAYMENT" /\ f.paid[r] = db.paid[r]
        /\ f.credited[r] = db.credited[r]
             + IF l.action = "credit" /\ Surplus(db, r) > 0 THEN Surplus(db, r) ELSE 0
    BY <1>4, <1>8 DEF Reviewed
  <2>4. Total(f, r) = Total(db, r)
    BY <2>3 DEF Total
  <2>5. f.credited[r] = IF l.action = "credit" THEN Gross(r) - Total(db, r) ELSE 0
    BY <1>5, <2>1, <2>2, <2>3
  <2> QED
    BY <1>4, <1>5, <1>6, <2>1, <2>3, <2>4, <2>5 DEF AppliedIn
<1>9. ASSUME \/ l.type = "DUPLICATE" /\ l.action # "duplicate-keep"
             \/ l.type = "REVERSAL"
      PROVE  /\ AppliedIn(db', r) = AppliedIn(db, r)
             /\ db'.payment[r].status = db.payment[r].status
  BY <1>4, <1>6, <1>9 DEF Reviewed, SameRows, AppliedIn, Total
<1>10. ASSUME l.type = "THIRD_PARTY" /\ l.action = "refund"
       PROVE  AppliedIn(db', r) = AppliedIn(db, r) /\ db'.payment[r].status = "REVERSED"
  BY <1>4, <1>6, <1>10 DEF Reviewed, AppliedIn, Total
<1>11. ASSUME \/ l.type = "DUPLICATE" /\ l.action = "duplicate-keep"
              \/ l.type = "MISDIRECTED"
              \/ l.type = "THIRD_PARTY" /\ l.action # "refund"
       PROVE  /\ AppliedIn(db', r) = Gross(r)
              /\ db'.payment[r].status \in {"OVERPAYMENT", "PARTIAL", "MATCHED"}
  <2>1. AppliedIn(db, r) = 0
    BY <1>1, <1>2, <1>3, <1>11 DEF Reviewable
  <2>2. AppliesInFull(db, f, r) /\ f.payment[r].status \in {"OVERPAYMENT", "PARTIAL", "MATCHED"}
    BY <1>4, <1>11 DEF Reviewed
  <2> QED
    BY <1>4, <1>5, <1>6, <2>1, <2>2 DEF AppliesInFull
<1> QED
  BY <1>2, <1>7, <1>8, <1>9, <1>10, <1>11

(* With one manager the decision is on an exception that is still open, so *)
(* what it applies was not applied before.                                 *)
LEMMA ResolutionReview ==
  ASSUME OneManager, ReviewInv, NEW h \in Handler, Resolve(h)
  PROVE  (\A r \in Ref : Reviewable(db', r)) /\ ReviewsAreOpen(db', handler')
<1> DEFINE l == handler[h]
           r == l.ref
<1>1. /\ r \in Ref /\ l.type = db.exception[r].type /\ Resolves(db, l, tx[h], db')
      /\ l.type \in ExceptionType \ {NotAnException} /\ h \in Manager
  BY ResolveFacts DEF ReviewInv
<1>2. /\ Reviewable(db, r) /\ Gross(r) \in Nat /\ AppliedIn(db, r) \in Nat
      /\ Total(db, r) \in Nat
  BY <1>1, MoneyFacts DEF ReviewInv
<1>3. ~db'.exception[r].open /\ AppliedIn(db', r) <= Gross(r)
  BY <1>1, <1>2, ResolveMoney DEF Reviewable, ExceptionType
<1>4. Reviewable(db', r)
  BY <1>3 DEF Reviewable
<1>5. ReviewsAreOpen(db', handler')
  <2>1. ~InReview(Idle) /\ handler' = [handler EXCEPT ![h] = Idle]
    BY DEF Idle, InReview, Resolve, Goes
  <2>2. \A g \in Handler \ {h} : ~InReview(handler[g])
    <3> SUFFICES ASSUME NEW g \in Handler \ {h}, InReview(handler[g]) PROVE FALSE
      OBVIOUS
    <3>1. g \in Manager
      BY HandlerFacts DEF ReviewInv, InReview, Serves
    <3> QED
      BY <1>1, <3>1 DEF OneManager
  <2> QED
    BY <2>1, <2>2, ReviewsStayOpen DEF ReviewInv
<1> QED
  BY <1>1, <1>4, <1>5, OthersStayReviewable DEF ReviewInv, Resolves

(* Billing touches no payment and no exception.                            *)
LEMMA BillingFacts ==
  ASSUME BooksInv, NEW h \in Handler,
         (\E b \in Bill, scope \in Scopes : BillStart(h, b, scope)) \/ BillUnit(h)
  PROVE  /\ db'.payment = db.payment /\ db'.exception = db.exception
         /\ db'.paid = db.paid /\ db'.credited = db.credited
         /\ \E next : handler' = [handler EXCEPT ![h] = next] /\ next.pc \in {"idle", "bill"}
<1>1. DOMAIN db.outstanding \in SUBSET Charge /\ db \in Tables(DOMAIN db.outstanding)
  BY TablesOKFacts DEF BooksInv, TablesOK
<1>2. ASSUME NEW b \in Bill, NEW scope \in Scopes, BillStart(h, b, scope)
      PROVE  /\ db'.payment = db.payment /\ db'.exception = db.exception
             /\ db'.paid = db.paid /\ db'.credited = db.credited
             /\ \E next : handler' = [handler EXCEPT ![h] = next] /\ next.pc \in {"idle", "bill"}
  <2>1. db' = [db EXCEPT !.bills = db.bills \cup {b}]
    BY <1>2 DEF BillStart
  <2>2. /\ db'.payment = db.payment /\ db'.exception = db.exception
        /\ db'.paid = db.paid /\ db'.credited = db.credited
    BY <1>1, <2>1 DEF Tables
  <2> DEFINE next == [pc |-> "bill", bill |-> b, todo |-> scope]
  <2>3. handler' = [handler EXCEPT ![h] = next]
    BY <1>2 DEF BillStart, Goes
  <2>4. next.pc = "bill"
    OBVIOUS
  <2> HIDE DEF next
  <2> QED
    BY <2>2, <2>3, <2>4
<1>3. ASSUME BillUnit(h)
      PROVE  /\ db'.payment = db.payment /\ db'.exception = db.exception
             /\ db'.paid = db.paid /\ db'.credited = db.credited
             /\ \E next : handler' = [handler EXCEPT ![h] = next] /\ next.pc \in {"idle", "bill"}
  <2> DEFINE l == handler[h]
             u == tx[h].unit
             e == UnitBilled(db, l.bill, tx[h])
             next == IF l.todo = {u} THEN Idle ELSE [l EXCEPT !.todo = @ \ {u}]
  <2>1. l.pc = "bill" /\ tx[h].at # "none" /\ db' = e /\ handler' = [handler EXCEPT ![h] = next]
    BY <1>3 DEF BillUnit, Goes
  <2>2. Bills(DOMAIN db.outstanding, db, l.bill, tx[h], e)
    BY <2>1, BillFacts, BillUnitFacts
  <2> HIDE DEF e
  <2>3. /\ db'.payment = db.payment /\ db'.exception = db.exception
        /\ db'.paid = db.paid /\ db'.credited = db.credited
    BY <2>1, <2>2 DEF Bills
  <2>4. l = [pc |-> "bill", bill |-> l.bill, todo |-> l.todo]
    BY <2>1, BillFacts
  <2>5. next.pc \in {"idle", "bill"}
    BY <2>4 DEF Idle
  <2> HIDE DEF next
  <2> QED
    BY <2>1, <2>3, <2>5
<1> QED
  BY <1>2, <1>3

(* Billing applies no payment.                                             *)
LEMMA BillingReview ==
  ASSUME ReviewInv, NEW h \in Handler,
         (\E b \in Bill, scope \in Scopes : BillStart(h, b, scope)) \/ BillUnit(h)
  PROVE  (\A r \in Ref : Reviewable(db', r)) /\ ReviewsAreOpen(db', handler')
<1>1. /\ db'.payment = db.payment /\ db'.exception = db.exception
      /\ db'.paid = db.paid /\ db'.credited = db.credited
      /\ \E next : handler' = [handler EXCEPT ![h] = next] /\ next.pc \in {"idle", "bill"}
  BY BillingFacts DEF ReviewInv
<1>2. PICK next : handler' = [handler EXCEPT ![h] = next] /\ next.pc \in {"idle", "bill"}
  BY <1>1
<1>3. ReviewsAreOpen(db', handler')
  BY <1>1, <1>2, ReviewsStayOpen DEF ReviewInv, InReview
<1>4. \A r \in Ref : Reviewable(db', r)
  BY <1>1, ReviewableByRows DEF ReviewInv, SameRows
<1> QED
  BY <1>3, <1>4

(* With one manager at a time no step breaks the invariant.                *)
LEMMA ReviewNext ==
  ASSUME OneManager, ReviewInv, [Next]_vars PROVE ReviewInv'
<1>1. BooksInv'
  BY BooksNext DEF ReviewInv
<1>2. wire' = wire /\ (\A r \in Ref : Reviewable(db', r)) /\ ReviewsAreOpen(db', handler')
  <2>1. CASE UNCHANGED vars
    BY <2>1 DEF ReviewInv, vars
  <2>2. CASE Next
    <3>1. PICK h \in Handler : InTransaction(h) \/ OtherStep(h)
      BY <2>2, NextSteps
    <3>2. CASE InTransaction(h)
      <4>1. wire' = wire /\ db' = db /\ handler' = handler
        BY <3>2, InTransactionIsQuiet DEF InTx
      <4> QED
        BY <4>1 DEF ReviewInv
    <3>3. CASE OtherStep(h)
      <4>1. wire' = wire
        BY <3>3, OtherStepKeepsWire
      <4>2. (\A r \in Ref : Reviewable(db', r)) /\ ReviewsAreOpen(db', handler')
        BY <3>3, ReviewSteps, MisdirectedReview, PersistReview, ReversalReview,
           ResolutionReview, BillingReview DEF OtherStep
      <4> QED
        BY <4>1, <4>2
    <3> QED
      BY <3>1, <3>2, <3>3
  <2> QED
    BY <2>1, <2>2
<1>3. (\A r \in Ref : Reviewable(db, r))' /\ ReviewsAreOpen(db, handler)'
  BY <1>2 DEF Reviewable, Gross
<1> QED
  BY <1>1, <1>3 DEF ReviewInv

(* Nothing has been applied at first.                                      *)
LEMMA ReviewInit ==
  ASSUME Init PROVE ReviewInv
<1>1. BooksInv
  BY BooksInit
<1>2. \A r \in Ref : Reviewable(db, r)
  <2> SUFFICES ASSUME NEW r \in Ref PROVE Reviewable(db, r)
    OBVIOUS
  <2>1. ~HasPayment(db, r) /\ ~db.exception[r].open
    BY DEF Init, EmptyDb, HasPayment
  <2> QED
    BY <1>1, <2>1, MoneyFacts DEF Reviewable, AppliedIn
<1>3. ReviewsAreOpen(db, handler)
  BY DEF Init, Idle, ReviewsAreOpen, InReview
<1> QED
  BY <1>1, <1>2, <1>3 DEF ReviewInv

(* The inductive invariant of the reviews, while one manager at a time     *)
(* decides: an open exception bounds what has been applied of its payment  *)
(* by what its type says (nothing for a duplicate, a third party or an     *)
(* unknown account, the charges for an overpayment), and a request under   *)
(* way holds an exception that is still open.                              *)
THEOREM ReviewInvariant == OneManager => (Spec => []ReviewInv)
<1> SUFFICES ASSUME OneManager PROVE Spec => []ReviewInv
  OBVIOUS
<1>1. Init => ReviewInv
  BY ReviewInit
<1>2. ReviewInv /\ [Next]_vars => ReviewInv'
  BY ReviewNext
<1> QED
  BY <1>1, <1>2, PTL DEF Spec

(* With one manager, a payment is never applied to charges and credit      *)
(* beyond its amount, whatever mix of webhooks, backfills, reversals and   *)
(* decisions hits it. Two managers can break it: resolveException checks   *)
(* that the exception is open in one transaction and acts in another.      *)
THEOREM PaymentsAreAppliedAtMostOnce == OneManager => (Spec => []AppliedAtMostOnce)
<1>1. ReviewInv => AppliedAtMostOnce
  BY DEF ReviewInv, Reviewable, AppliedAtMostOnce, Applied, AppliedIn, Total
<1> QED
  BY <1>1, ReviewInvariant, PTL

(* A request that has sent a refund of r and has not committed yet.        *)
Refunds(l, r) ==
  l.pc = "resolve" /\ l.ref = r /\ l.type = "OVERPAYMENT" /\ l.action = "refund"

SentFor(hs, r) == \E h \in Handler : Refunds(hs[h], r)

Accounted(d, back, r) ==
  LET status == d.payment[r].status
  IN  /\ status \in {"MATCHED", "PARTIAL", "OVERPAYMENT", "MANUAL"} =>
           AppliedIn(d, r) + back[r] = Gross(r)
      /\ status = "EXCEPTION" =>
           IF d.exception[r].type = "OVERPAYMENT"
           THEN AppliedIn(d, r) < Gross(r) /\ AppliedIn(d, r) + back[r] <= Gross(r)
           ELSE AppliedIn(d, r) = 0 /\ back[r] = 0

(* Where the gross amount of payment r went, back being what Nomba has     *)
(* sent back to the senders.                                               *)
Explained(d, back, lost, hs, r) ==
  /\ d.exception[r].type # "OVERPAYMENT" => back[r] = 0
  /\ d.exception[r].open => d.payment[r].status \in {"EXCEPTION", "REVERSED"}
  /\ r \notin lost =>
       /\ Accounted(d, back, r)
       /\ d.exception[r].open /\ d.exception[r].type = "OVERPAYMENT" =>
            back[r] = IF SentFor(hs, r) THEN Gross(r) - Total(d, r) ELSE 0

MoneyInv == ReviewInv /\ \A r \in Ref : Explained(db, refunded, stranded, handler, r)

(* A step that does not touch the refund of a payment leaves it sent or    *)
(* not sent.                                                               *)
LEMMA SentForStays ==
  ASSUME BooksInv, NEW h \in Handler, NEW next, handler' = [handler EXCEPT ![h] = next],
         NEW r, Refunds(next, r) <=> Refunds(handler[h], r)
  PROVE  SentFor(handler', r) <=> SentFor(handler, r)
<1>1. \A g \in Handler : handler'[g] = IF g = h THEN next ELSE handler[g]
  BY DEF BooksInv, HandlersOK
<1>2. \A g \in Handler : Refunds(handler'[g], r) <=> Refunds(handler[g], r)
  BY <1>1
<1> QED
  BY <1>2 DEF SentFor

(* Where the money of a payment went is told by the rows of the payment.   *)
LEMMA ExplainedByRows ==
  ASSUME NEW d, NEW e, NEW r, SameRows(d, e, r), NEW back, NEW back2, back2[r] = back[r],
         NEW lost, NEW lost2, r \notin lost2 => r \notin lost, NEW hs, NEW hs2,
         r \notin lost2 => (SentFor(hs2, r) <=> SentFor(hs, r)),
         Explained(d, back, lost, hs, r)
  PROVE  Explained(e, back2, lost2, hs2, r)
<1>1. AppliedIn(e, r) = AppliedIn(d, r) /\ Total(e, r) = Total(d, r)
  BY DEF SameRows, AppliedIn, Total
<1>2. e.payment[r] = d.payment[r] /\ e.exception[r] = d.exception[r]
  BY DEF SameRows
<1>3. Accounted(d, back, r) => Accounted(e, back2, r)
  BY <1>1, <1>2 DEF Accounted
<1> QED
  BY <1>1, <1>2, <1>3 DEF Explained

(* A step on payment r that sends nothing back.                            *)
LEMMA OthersStayExplained ==
  ASSUME MoneyInv, NEW h \in Handler, NEW next, handler' = [handler EXCEPT ![h] = next],
         NEW r \in Ref, OthersStay(db, db', r), refunded' = refunded, stranded' = stranded,
         \A s \in Ref \ {r} : Refunds(next, s) <=> Refunds(handler[h], s),
         Explained(db', refunded, stranded, handler', r)
  PROVE  \A s \in Ref : Explained(db', refunded', stranded', handler', s)
<1> SUFFICES ASSUME NEW s \in Ref, s # r
             PROVE  Explained(db', refunded, stranded, handler', s)
  OBVIOUS
<1>1. SentFor(handler', s) <=> SentFor(handler, s)
  BY SentForStays DEF MoneyInv, ReviewInv
<1>2. SameRows(db, db', s) /\ Explained(db, refunded, stranded, handler, s)
  BY DEF OthersStay, MoneyInv
<1> QED
  BY <1>1, <1>2, ExplainedByRows

(* A step that leaves the payments' rows alone.                            *)
LEMMA RowsStayExplained ==
  ASSUME MoneyInv, NEW h \in Handler, NEW next, handler' = [handler EXCEPT ![h] = next],
         db'.payment = db.payment, db'.exception = db.exception, db'.paid = db.paid,
         db'.credited = db.credited, refunded' = refunded, stranded \subseteq stranded',
         \A s \in Ref : s \notin stranded' => (Refunds(next, s) <=> Refunds(handler[h], s))
  PROVE  \A s \in Ref : Explained(db', refunded', stranded', handler', s)
<1> SUFFICES ASSUME NEW s \in Ref PROVE Explained(db', refunded', stranded', handler', s)
  OBVIOUS
<1>1. s \notin stranded' => (SentFor(handler', s) <=> SentFor(handler, s))
  BY SentForStays DEF MoneyInv, ReviewInv
<1>2. SameRows(db, db', s) /\ Explained(db, refunded, stranded, handler, s)
  BY DEF SameRows, MoneyInv
<1> QED
  BY <1>1, <1>2, ExplainedByRows

AllExplained == \A s \in Ref : Explained(db', refunded', stranded', handler', s)

(* The steps that read send nothing.                                       *)
LEMMA ReadingExplains ==
  ASSUME MoneyInv, NEW h \in Handler,
         \/ \E r \in Ref : IngestDedupe(h, r)
         \/ ReadUnit(h) \/ ReadCharges(h) \/ ReadPriors(h)
         \/ \E r \in Ref : ReverseFind(h, r)
         \/ \E r \in Ref, action \in {p[2] : p \in Offered}, target \in Unit \cup {NoUnit} :
              ResolveRead(h, r, action, target)
  PROVE  AllExplained
<1>1. ASSUME NEW next, handler' = [handler EXCEPT ![h] = next], db' = db,
             refunded' = refunded, stranded' = stranded,
             handler[h].pc # "resolve", \A s \in Ref : ~Refunds(next, s)
      PROVE  AllExplained
  BY <1>1, RowsStayExplained DEF AllExplained, Refunds
<1>2. Idle.pc # "resolve"
  BY DEF Idle
<1>3. ASSUME NEW r \in Ref, IngestDedupe(h, r) PROVE AllExplained
  <2> DEFINE next == [pc |-> "account", ref |-> r]
  <2>1. /\ db' = db /\ handler' = [handler EXCEPT ![h] = next] /\ handler[h].pc # "resolve"
        /\ refunded' = refunded /\ stranded' = stranded
    BY <1>2, <1>3 DEF IngestDedupe, Goes, Quiet
  <2>2. \A s \in Ref : ~Refunds(next, s)
    BY DEF Refunds
  <2> HIDE DEF next
  <2> QED
    BY <1>1, <2>1, <2>2
<1>4. CASE ReadUnit(h)
  <2> DEFINE next == [pc |-> "charges", ref |-> handler[h].ref,
                       credit |-> db.rollup[wire[handler[h].ref].account].credit]
  <2>1. /\ db' = db /\ handler' = [handler EXCEPT ![h] = next] /\ handler[h].pc # "resolve"
        /\ refunded' = refunded /\ stranded' = stranded
    BY <1>4 DEF ReadUnit, Goes, Quiet
  <2>2. \A s \in Ref : ~Refunds(next, s)
    BY DEF Refunds
  <2> HIDE DEF next
  <2> QED
    BY <1>1, <2>1, <2>2
<1>5. CASE ReadCharges(h)
  <2> DEFINE next == [pc |-> "priors", ref |-> handler[h].ref, credit |-> handler[h].credit,
                       snapshot |-> OpenCharges(db, wire[handler[h].ref].account)]
  <2>1. /\ db' = db /\ handler' = [handler EXCEPT ![h] = next] /\ handler[h].pc # "resolve"
        /\ refunded' = refunded /\ stranded' = stranded
    BY <1>5 DEF ReadCharges, Goes, Quiet
  <2>2. \A s \in Ref : ~Refunds(next, s)
    BY DEF Refunds
  <2> HIDE DEF next
  <2> QED
    BY <1>1, <2>1, <2>2
<1>6. CASE ReadPriors(h)
  <2> DEFINE l == handler[h]
             w == wire[l.ref]
             found == {[amount |-> Gross(s), source |-> wire[s].source, at |-> wire[s].at] :
                       s \in {x \in Ref : /\ HasPayment(db, x)
                                         /\ db.payment[x].unit = w.account
                                         /\ wire[x].at >= w.at - Window}}
             next == [pc |-> "persist", ref |-> l.ref, credit |-> l.credit,
                      snapshot |-> l.snapshot, priors |-> found]
  <2>1. /\ db' = db /\ handler' = [handler EXCEPT ![h] = next] /\ handler[h].pc # "resolve"
        /\ refunded' = refunded /\ stranded' = stranded
    BY <1>6 DEF ReadPriors, Goes, Quiet
  <2> HIDE DEF found
  <2>2. \A s \in Ref : ~Refunds(next, s)
    BY DEF Refunds
  <2> HIDE DEF next
  <2> QED
    BY <1>1, <2>1, <2>2
<1>7. ASSUME NEW r \in Ref, ReverseFind(h, r) PROVE AllExplained
  <2> DEFINE next == [pc |-> "reverse", ref |-> r]
  <2>1. /\ db' = db /\ handler' = [handler EXCEPT ![h] = next] /\ handler[h].pc # "resolve"
        /\ refunded' = refunded /\ stranded' = stranded
    BY <1>2, <1>7 DEF ReverseFind, Goes, Quiet
  <2>2. \A s \in Ref : ~Refunds(next, s)
    BY DEF Refunds
  <2> HIDE DEF next
  <2> QED
    BY <1>1, <2>1, <2>2
<1>8. ASSUME NEW r \in Ref, NEW action, NEW target, ResolveRead(h, r, action, target)
      PROVE  AllExplained
  <2> DEFINE type == db.exception[r].type
             next == [pc |-> IF type = "OVERPAYMENT" /\ action = "refund" THEN "refund" ELSE "resolve",
                      ref |-> r, type |-> type, action |-> action,
                      unit |-> IF type = "MISDIRECTED" THEN target ELSE db.payment[r].unit]
  <2>1. /\ db' = db /\ handler' = [handler EXCEPT ![h] = next] /\ handler[h] = Idle
        /\ refunded' = refunded /\ stranded' = stranded
    BY <1>8 DEF ResolveRead, Goes, Quiet
  <2>2. \A s \in Ref : ~Refunds(next, s)
    BY DEF Refunds
  <2> HIDE DEF next
  <2> QED
    BY <1>1, <1>2, <2>1, <2>2
<1> QED
  BY <1>3, <1>4, <1>5, <1>6, <1>7, <1>8

(* A misdirected payment waits in full.                                    *)
LEMMA MisdirectedExplains ==
  ASSUME MoneyInv, NEW h \in Handler, BookMisdirected(h)
  PROVE  AllExplained
<1> DEFINE r == handler[h].ref
<1>1. /\ r \in Ref /\ ~HasPayment(db, r) /\ SameBooks(db, db') /\ OthersStay(db, db', r)
      /\ db'.exception[r] = [type |-> "MISDIRECTED", open |-> TRUE]
      /\ db'.payment[r] = [status |-> "EXCEPTION", unit |-> db.payment[r].unit]
  BY BookMisdirectedFacts DEF MoneyInv, ReviewInv
<1>2. /\ handler' = [handler EXCEPT ![h] = Idle] /\ handler[h].pc = "account"
      /\ refunded' = refunded /\ stranded' = stranded
  BY DEF BookMisdirected, Goes, Quiet
<1> HIDE DEF r
<1>3. refunded[r] = 0
  BY <1>1 DEF MoneyInv, Explained, ReviewInv, BooksInv, Known, NotAnException
<1>4. AppliedIn(db', r) = 0
  BY <1>1, MoneyFacts DEF MoneyInv, ReviewInv, SameBooks, AppliedIn, Total
<1>5. Explained(db', refunded, stranded, handler', r)
  BY <1>1, <1>3, <1>4 DEF Explained, Accounted
<1>6. \A s \in Ref : ~Refunds(Idle, s) /\ ~Refunds(handler[h], s)
  BY <1>2 DEF Refunds, Idle
<1> QED
  BY <1>1, <1>2, <1>5, <1>6, OthersStayExplained DEF AllExplained

(* A payment persisted at ingest is applied, or it waits.                  *)
LEMMA PersistExplains ==
  ASSUME MoneyInv, NEW h \in Handler, Persist(h)
  PROVE  AllExplained
<1> DEFINE l == handler[h]
           r == l.ref
<1>1. /\ r \in Ref /\ ~HasPayment(db, r) /\ Known(db, clawedBack, r)
      /\ Persists(db, l, tx[h].sums, db')
      /\ DOMAIN db.outstanding \in SUBSET Charge /\ db' \in Tables(DOMAIN db.outstanding)
  BY PersistFacts DEF MoneyInv, ReviewInv
<1>2. /\ handler' = [handler EXCEPT ![h] = Idle] /\ handler[h].pc = "persist"
      /\ refunded' = refunded /\ stranded' = stranded
  BY DEF Persist, Goes, Quiet
<1>3. /\ db.exception[r].type = NotAnException /\ ~db.exception[r].open
      /\ Total(db, r) = 0 /\ db.credited[r] = 0 /\ Gross(r) \in Nat \ {0}
  BY <1>1, MoneyFacts DEF MoneyInv, ReviewInv, Known
<1>4. refunded[r] = 0
  BY <1>1, <1>3 DEF MoneyInv, Explained, NotAnException
<1>5. Total(db', r) \in Nat
  BY <1>1, TotalsType DEF Total
<1>6. \A g \in Handler : ~Refunds(handler[g], r)
  <2> SUFFICES ASSUME NEW g \in Handler, Refunds(handler[g], r) PROVE FALSE
    OBVIOUS
  <2>1. handler[g].type = db.exception[r].type
    BY HandlerFacts DEF MoneyInv, ReviewInv, Serves, Refunds
  <2> QED
    BY <1>3, <2>1 DEF Refunds, NotAnException
<1>7. \A s \in Ref : ~Refunds(Idle, s) /\ ~Refunds(handler[h], s)
  BY <1>2 DEF Refunds, Idle
<1>8. ~SentFor(handler', r)
  <2>1. ~SentFor(handler, r)
    BY <1>6 DEF SentFor
  <2> QED
    BY <1>1, <1>2, <1>7, <2>1, SentForStays DEF MoneyInv, ReviewInv
<1>9. Explained(db', refunded, stranded, handler', r)
  <2>1. CASE HeldForReview(db, l, db')
    <3>1. CASE db'.exception[r].type = "OVERPAYMENT"
      <4>1. AppliedIn(db', r) = Total(db', r) /\ Total(db', r) < Gross(r)
        BY <1>3, <1>5, <2>1, <3>1 DEF HeldForReview, AppliedIn
      <4> QED
        BY <1>3, <1>4, <1>5, <1>8, <2>1, <3>1, <4>1 DEF HeldForReview, Explained, Accounted
    <3>2. CASE db'.exception[r].type # "OVERPAYMENT"
      <4>1. AppliedIn(db', r) = 0
        BY <1>3, <2>1, <3>2 DEF HeldForReview, AppliedIn, Total
      <4> QED
        BY <1>4, <2>1, <3>2, <4>1 DEF HeldForReview, Explained, Accounted
    <3> QED
      BY <3>1, <3>2
  <2>2. CASE SettledAtOnce(db, l, db')
    <3>1. AppliedIn(db', r) = Gross(r) /\ db'.exception[r] = db.exception[r]
      BY <1>3, <2>2 DEF SettledAtOnce, AppliesInFull, AppliedIn
    <3> QED
      BY <1>3, <1>4, <2>2, <3>1 DEF SettledAtOnce, Explained, Accounted, NotAnException
  <2> QED
    BY <1>1, <2>1, <2>2 DEF Persists
<1> QED
  BY <1>1, <1>2, <1>7, <1>9, OthersStayExplained DEF AllExplained, Persists

(* A reversed payment is the sender's again, or its exception asks for it. *)
LEMMA ReversalExplains ==
  ASSUME MoneyInv, NEW h \in Handler, MarkReversed(h)
  PROVE  AllExplained
<1> DEFINE r == handler[h].ref
<1>1. /\ r \in Ref /\ SameBooks(db, db') /\ OthersStay(db, db', r)
      /\ db'.payment[r] = [status |-> "REVERSED", unit |-> db.payment[r].unit]
      /\ db.exception[r].type # NotAnException => db'.exception[r] = db.exception[r]
      /\ db.exception[r].type = NotAnException => db'.exception[r].type = "REVERSAL"
  BY MarkReversedFacts DEF MoneyInv, ReviewInv
<1>2. /\ handler' = [handler EXCEPT ![h] = Idle] /\ handler[h].pc = "reverse"
      /\ refunded' = refunded /\ stranded' = stranded
  BY DEF MarkReversed, Goes
<1> HIDE DEF r
<1>3. \A s \in Ref : ~Refunds(Idle, s) /\ ~Refunds(handler[h], s)
  BY <1>2 DEF Refunds, Idle
<1>4. SentFor(handler', r) <=> SentFor(handler, r)
  BY <1>1, <1>2, <1>3, SentForStays DEF MoneyInv, ReviewInv
<1>5. Explained(db, refunded, stranded, handler, r) /\ Total(db', r) = Total(db, r)
  BY <1>1 DEF MoneyInv, SameBooks, Total
<1>6. Explained(db', refunded, stranded, handler', r)
  BY <1>1, <1>4, <1>5 DEF Explained, Accounted, NotAnException
<1> QED
  BY <1>1, <1>2, <1>3, <1>6, OthersStayExplained DEF AllExplained

(* Billing moves no payment.                                               *)
LEMMA BillingExplains ==
  ASSUME MoneyInv, NEW h \in Handler,
         (\E b \in Bill, scope \in Scopes : BillStart(h, b, scope)) \/ BillUnit(h)
  PROVE  AllExplained
<1>1. /\ db'.payment = db.payment /\ db'.exception = db.exception
      /\ db'.paid = db.paid /\ db'.credited = db.credited
      /\ \E next : handler' = [handler EXCEPT ![h] = next] /\ next.pc \in {"idle", "bill"}
  BY BillingFacts DEF MoneyInv, ReviewInv
<1>2. PICK next : handler' = [handler EXCEPT ![h] = next] /\ next.pc \in {"idle", "bill"}
  BY <1>1
<1>3. refunded' = refunded /\ stranded' = stranded /\ handler[h].pc \in {"idle", "bill"}
  <2>1. ASSUME NEW b \in Bill, NEW scope \in Scopes, BillStart(h, b, scope)
        PROVE  refunded' = refunded /\ stranded' = stranded /\ handler[h] = Idle
    BY <2>1 DEF BillStart, Quiet
  <2>2. ASSUME BillUnit(h)
        PROVE  refunded' = refunded /\ stranded' = stranded /\ handler[h].pc = "bill"
    BY <2>2 DEF BillUnit, Quiet
  <2>3. Idle.pc = "idle"
    BY DEF Idle
  <2> QED
    BY <2>1, <2>2, <2>3
<1>4. \A s \in Ref : ~Refunds(next, s) /\ ~Refunds(handler[h], s)
  BY <1>2, <1>3 DEF Refunds
<1> QED
  BY <1>1, <1>2, <1>3, <1>4, RowsStayExplained DEF AllExplained

(* A request that fails has sent nothing, or its payment is one of the     *)
(* stranded.                                                               *)
LEMMA AbortExplains ==
  ASSUME MoneyInv, NEW h \in Handler, Abort(h)
  PROVE  AllExplained
<1> DEFINE l == handler[h]
<1>1. /\ handler' = [handler EXCEPT ![h] = Idle] /\ db' = db /\ refunded' = refunded
      /\ stranded' = IF l.pc = "resolve" /\ l.type = "OVERPAYMENT" /\ l.action = "refund"
                     THEN stranded \cup {l.ref} ELSE stranded
  BY DEF Abort, Goes
<1>2. \A s \in Ref : ~Refunds(Idle, s)
  BY DEF Refunds, Idle
<1>3. \A s \in Ref : s \notin stranded' => (Refunds(Idle, s) <=> Refunds(l, s))
  BY <1>1, <1>2 DEF Refunds
<1>4. stranded \subseteq stranded'
  BY <1>1
<1> QED
  BY <1>1, <1>3, <1>4, RowsStayExplained DEF AllExplained

OfferedByCards == Offered \subseteq Buttons

(* With one manager, no other handler is in a review.                      *)
LEMMA OnlyManager ==
  ASSUME OneManager, BooksInv, NEW h \in Handler, InReview(handler[h])
  PROVE  \A g \in Handler \ {h} : ~InReview(handler[g])
<1> SUFFICES ASSUME NEW g \in Handler \ {h}, InReview(handler[g]) PROVE FALSE
  OBVIOUS
<1>1. g \in Manager /\ h \in Manager
  BY HandlerFacts DEF InReview, Serves
<1> QED
  BY <1>1 DEF OneManager

(* The refund is sent for an exception that is open, once.                 *)
LEMMA SendExplains ==
  ASSUME OneManager, MoneyInv, NEW h \in Handler, SendRefund(h)
  PROVE  AllExplained
<1> DEFINE l == handler[h]
           r == l.ref
           n == Surplus(db, r)
<1>1. /\ l.pc = "refund" /\ refunded' = [refunded EXCEPT ![r] = @ + n] /\ db' = db
  BY DEF SendRefund
<1>2. /\ Memory(l) /\ Serves(db, h, l) /\ r \in Ref
      /\ l = [pc |-> l.pc, ref |-> r, type |-> l.type, action |-> l.action, unit |-> l.unit]
  BY <1>1, HandlerFacts, MemoryFacts DEF MoneyInv, ReviewInv
<1>3. db.exception[r].type = "OVERPAYMENT" /\ l.action = "refund" /\ l.type = "OVERPAYMENT"
  BY <1>1, <1>2 DEF Serves
<1>4. db.exception[r].open
  BY <1>1 DEF MoneyInv, ReviewInv, ReviewsAreOpen, InReview
<1>5. /\ Reviewable(db, r) /\ Explained(db, refunded, stranded, handler, r)
      /\ Total(db, r) \in Nat /\ Gross(r) \in Nat /\ refunded \in [Ref -> Nat]
  BY <1>2, MoneyFacts DEF MoneyInv, ReviewInv, BooksInv
<1>6. n = Gross(r) - Total(db, r) /\ db.credited[r] = 0 /\ Total(db, r) < Gross(r)
      /\ AppliedIn(db, r) = Total(db, r)
  BY <1>3, <1>4, <1>5 DEF Surplus, Total, Reviewable, AppliedIn
<1>7. \A g \in Handler \ {h} : ~InReview(handler[g])
  BY <1>1, OnlyManager DEF MoneyInv, ReviewInv, InReview
<1>8. ~SentFor(handler, r)
  <2>1. \A g \in Handler : ~Refunds(handler[g], r)
    BY <1>1, <1>7 DEF Refunds, InReview
  <2> QED
    BY <2>1 DEF SentFor
<1>9. r \notin stranded => refunded[r] = 0
  BY <1>3, <1>4, <1>5, <1>8 DEF Explained
<1>10. refunded'[r] = refunded[r] + n
  BY <1>1, <1>2, <1>5
<1>11. \A s \in Ref \ {r} : refunded'[s] = refunded[s]
  BY <1>1, <1>5
<1> HIDE DEF n
<1>12. \A s \in Ref : ~Refunds(Idle, s) /\ ~Refunds(l, s)
  BY <1>1 DEF Refunds, Idle
<1>13. ASSUME NEW next, handler' = [handler EXCEPT ![h] = next], stranded \subseteq stranded',
              \A s \in Ref \ {r} : ~Refunds(next, s), r \notin stranded' => Refunds(next, r)
       PROVE  AllExplained
  <2>1. ASSUME NEW s \in Ref \ {r} PROVE Explained(db', refunded', stranded', handler', s)
    <3>1. SentFor(handler', s) <=> SentFor(handler, s)
      BY <1>12, <1>13, SentForStays DEF MoneyInv, ReviewInv
    <3>2. SameRows(db, db', s) /\ Explained(db, refunded, stranded, handler, s)
      BY <1>1 DEF SameRows, MoneyInv
    <3> QED
      BY <1>11, <1>13, <3>1, <3>2, ExplainedByRows
  <2>2. r \notin stranded' => SentFor(handler', r)
    <3>1. handler'[h] = next
      BY <1>13 DEF MoneyInv, ReviewInv, BooksInv, HandlersOK
    <3> QED
      BY <1>13, <3>1 DEF SentFor
  <2>3. Explained(db', refunded', stranded', handler', r)
    <3>1. db.payment[r].status \in {"EXCEPTION", "REVERSED"}
      BY <1>4, <1>5 DEF Explained
    <3>2. r \notin stranded' => refunded'[r] = Gross(r) - Total(db, r)
      BY <1>5, <1>6, <1>9, <1>10, <1>13
    <3>3. r \notin stranded' => Accounted(db, refunded', r)
      BY <1>3, <1>5, <1>6, <3>1, <3>2 DEF Accounted
    <3> QED
      BY <1>1, <1>3, <2>2, <3>1, <3>2, <3>3 DEF Explained
  <2> QED
    BY <2>1, <2>3 DEF AllExplained
<1>14. CASE handler' = [handler EXCEPT ![h] = [l EXCEPT !.pc = "resolve"]] /\ stranded' = stranded
  <2> DEFINE next == [l EXCEPT !.pc = "resolve"]
  <2>1. next = [pc |-> "resolve", ref |-> r, type |-> l.type, action |-> l.action, unit |-> l.unit]
    BY <1>2
  <2> HIDE DEF next
  <2>2. /\ next.pc = "resolve" /\ next.ref = r /\ next.type = "OVERPAYMENT" /\ next.action = "refund"
    BY <1>3, <2>1
  <2>3. Refunds(next, r) /\ \A s \in Ref \ {r} : ~Refunds(next, s)
    BY <2>2 DEF Refunds
  <2> QED
    BY <1>13, <1>14, <2>3 DEF next
<1>15. CASE handler' = [handler EXCEPT ![h] = Idle] /\ stranded' = stranded \cup {r}
  BY <1>12, <1>13, <1>15
<1> QED
  BY <1>14, <1>15 DEF SendRefund, Goes

(* The decision that commits moves the money that waited, and a refund     *)
(* leaves none.                                                            *)
LEMMA ResolveExplains ==
  ASSUME OneManager, OfferedByCards, MoneyInv, NEW h \in Handler, Resolve(h)
  PROVE  AllExplained
<1> DEFINE l == handler[h]
           r == l.ref
<1>1. /\ r \in Ref /\ l.type = db.exception[r].type /\ Resolves(db, l, tx[h], db')
      /\ l.type \in ExceptionType \ {NotAnException} /\ <<l.type, l.action>> \in Offered
  BY ResolveFacts DEF MoneyInv, ReviewInv
<1>2. /\ handler' = [handler EXCEPT ![h] = Idle] /\ l.pc = "resolve"
      /\ refunded' = refunded /\ stranded' = stranded
  BY DEF Resolve, Goes, Quiet
<1>3. /\ Explained(db, refunded, stranded, handler, r) /\ db.exception[r].open
      /\ Total(db, r) \in Nat /\ Gross(r) \in Nat /\ refunded[r] \in Nat
  BY <1>1, <1>2, MoneyFacts DEF MoneyInv, ReviewInv, BooksInv, ReviewsAreOpen, InReview
<1>4. \A g \in Handler \ {h} : ~InReview(handler[g])
  BY <1>2, OnlyManager DEF MoneyInv, ReviewInv, InReview
<1>5. SentFor(handler, r) <=> l.type = "OVERPAYMENT" /\ l.action = "refund"
  <2>1. \A g \in Handler \ {h} : ~Refunds(handler[g], r)
    BY <1>4 DEF Refunds, InReview
  <2>2. Refunds(l, r) <=> l.type = "OVERPAYMENT" /\ l.action = "refund"
    BY <1>2 DEF Refunds
  <2> QED
    BY <2>1, <2>2 DEF SentFor
<1>6. /\ ~db'.exception[r].open /\ db'.exception[r].type = l.type
      /\ l.type = "OVERPAYMENT" =>
           /\ db'.payment[r].status = "OVERPAYMENT"
           /\ AppliedIn(db', r) = IF l.action = "credit" THEN Gross(r) ELSE Total(db, r)
           /\ Total(db, r) < Gross(r)
      /\ \/ l.type = "DUPLICATE" /\ l.action # "duplicate-keep"
         \/ l.type = "REVERSAL"
         => /\ AppliedIn(db', r) = AppliedIn(db, r)
            /\ db'.payment[r].status = db.payment[r].status
      /\ l.type = "THIRD_PARTY" /\ l.action = "refund" =>
           AppliedIn(db', r) = AppliedIn(db, r) /\ db'.payment[r].status = "REVERSED"
      /\ \/ l.type = "DUPLICATE" /\ l.action = "duplicate-keep"
         \/ l.type = "MISDIRECTED"
         \/ l.type = "THIRD_PARTY" /\ l.action # "refund"
         => /\ AppliedIn(db', r) = Gross(r)
            /\ db'.payment[r].status \in {"OVERPAYMENT", "PARTIAL", "MATCHED"}
  BY <1>1, ResolveMoney DEF MoneyInv
<1>7. Explained(db', refunded, stranded, handler', r)
  <2>1. CASE l.type = "OVERPAYMENT"
    <3>1. l.action \in {"credit", "refund"}
      BY <1>1, <2>1 DEF OfferedByCards, Buttons
    <3>2. r \notin stranded =>
            refunded[r] = IF l.action = "refund" THEN Gross(r) - Total(db, r) ELSE 0
      BY <1>1, <1>3, <1>5, <2>1 DEF Explained
    <3>3. r \notin stranded => AppliedIn(db', r) + refunded[r] = Gross(r)
      BY <1>3, <1>6, <2>1, <3>1, <3>2
    <3> QED
      BY <1>6, <2>1, <3>3 DEF Explained, Accounted
  <2>2. CASE l.type # "OVERPAYMENT"
    <3>1. refunded[r] = 0
      BY <1>1, <1>3, <2>2 DEF Explained
    <3>2. CASE \/ l.type = "DUPLICATE" /\ l.action # "duplicate-keep"
               \/ l.type = "REVERSAL"
      BY <1>1, <1>3, <1>6, <2>2, <3>1, <3>2 DEF Explained, Accounted
    <3>3. CASE l.type = "THIRD_PARTY" /\ l.action = "refund"
      BY <1>6, <2>2, <3>1, <3>3 DEF Explained, Accounted
    <3>4. CASE \/ l.type = "DUPLICATE" /\ l.action = "duplicate-keep"
               \/ l.type = "MISDIRECTED"
               \/ l.type = "THIRD_PARTY" /\ l.action # "refund"
      BY <1>3, <1>6, <2>2, <3>1, <3>4 DEF Explained, Accounted
    <3> QED
      BY <1>1, <2>2, <3>2, <3>3, <3>4 DEF ExceptionType
  <2> QED
    BY <2>1, <2>2
<1>8. \A s \in Ref \ {r} : Refunds(Idle, s) <=> Refunds(l, s)
  BY DEF Refunds, Idle
<1> QED
  BY <1>1, <1>2, <1>7, <1>8, OthersStayExplained DEF AllExplained, Resolves

(* No step loses or doubles the money of a payment.                        *)
LEMMA MoneyNext ==
  ASSUME OneManager, OfferedByCards, MoneyInv, [Next]_vars PROVE MoneyInv'
<1>1. ReviewInv'
  BY ReviewNext DEF MoneyInv
<1>2. wire' = wire /\ AllExplained
  <2>1. CASE UNCHANGED vars
    BY <2>1 DEF MoneyInv, AllExplained, vars
  <2>2. CASE Next
    <3>1. PICK h \in Handler : InTransaction(h) \/ OtherStep(h)
      BY <2>2, NextSteps
    <3>2. CASE InTransaction(h)
      BY <3>2, InTransactionIsQuiet DEF InTx, MoneyInv, AllExplained
    <3>3. CASE OtherStep(h)
      <4>1. wire' = wire
        BY <3>3, OtherStepKeepsWire
      <4>2. AllExplained
        BY <3>3, ReadingExplains, MisdirectedExplains, PersistExplains, ReversalExplains,
           SendExplains, ResolveExplains, BillingExplains, AbortExplains DEF OtherStep
      <4> QED
        BY <4>1, <4>2
    <3> QED
      BY <3>1, <3>2, <3>3
  <2> QED
    BY <2>1, <2>2
<1>3. (\A r \in Ref : Explained(db, refunded, stranded, handler, r))'
  BY <1>2 DEF AllExplained, Explained, Accounted, Gross
<1> QED
  BY <1>1, <1>3 DEF MoneyInv

(* No payment has been booked at first.                                    *)
LEMMA MoneyInit ==
  ASSUME Init PROVE MoneyInv
<1>1. ReviewInv
  BY ReviewInit
<1>2. ASSUME NEW r \in Ref PROVE Explained(db, refunded, stranded, handler, r)
  <2>1. /\ refunded[r] = 0 /\ ~db.exception[r].open /\ db.payment[r].status = "NONE"
    BY DEF Init, EmptyDb
  <2> QED
    BY <2>1 DEF Explained, Accounted
<1> QED
  BY <1>1, <1>2 DEF MoneyInv

(* with one manager at a time *)
THEOREM MoneyInvariant == OneManager /\ OfferedByCards => (Spec => []MoneyInv)
<1> SUFFICES ASSUME OneManager, OfferedByCards PROVE Spec => []MoneyInv
  OBVIOUS
<1>1. Init => MoneyInv
  BY MoneyInit
<1>2. MoneyInv /\ [Next]_vars => MoneyInv'
  BY MoneyNext
<1> QED
  BY <1>1, <1>2, PTL DEF Spec

(* With one manager who uses the buttons of the cards, a settled payment   *)
(* is always accounted for in full by charges, credit and refunds, and of  *)
(* a held one only an overpayment has touched the books; the refunds of    *)
(* requests that died after the transfer are counted apart.                *)
THEOREM PaymentsAlwaysBalance == OneManager /\ OfferedByCards => (Spec => []PaymentsBalance)
<1>1. MoneyInv => PaymentsBalance
  BY DEF MoneyInv, Explained, Accounted, PaymentsBalance, Applied, AppliedIn, Total
<1> QED
  BY <1>1, MoneyInvariant, PTL

(* What each payment has paid of a charge; what credit has paid of each    *)
(* charge of a unit; what credit each payment of a unit became.            *)
PaidTo(d, c) == [r \in Ref |-> d.paid[r][c]]
CoveredIn(d, u) == [c \in Charge |-> IF c[2] = u THEN d.covered[c] ELSE 0]
CreditedTo(d, u) == [r \in Ref |-> IF d.payment[r].unit = u THEN d.credited[r] ELSE 0]

ChargeOK(d, c) ==
  /\ d.covered[c] >= 0
  /\ c \in DOMAIN d.outstanding =>
       /\ d.outstanding[c] >= 0
       /\ d.outstanding[c] + d.covered[c] + SumOver(PaidTo(d, c), Ref) = BillAmount[c[1]]
  /\ c \notin DOMAIN d.outstanding => d.covered[c] = 0 /\ \A r \in Ref : d.paid[r][c] = 0

CreditOK(d, u) ==
  /\ d.used[u] <= d.added[u]
  /\ d.used[u] = SumOver(CoveredIn(d, u), Charge)
  /\ d.added[u] = SumOver(CreditedTo(d, u), Ref)

SumsOK(d) == (\A c \in Charge : ChargeOK(d, c)) /\ (\A u \in Unit : CreditOK(d, u))

(* The sums over the tables are integers.                                  *)
LEMMA SumTypes ==
  ASSUME NEW D \in SUBSET Charge, NEW d \in Tables(D)
  PROVE  /\ \A c \in Charge : Numbers(PaidTo(d, c), Ref) /\ SumOver(PaidTo(d, c), Ref) \in Int
         /\ \A u \in Unit : /\ Numbers(CoveredIn(d, u), Charge)
                            /\ SumOver(CoveredIn(d, u), Charge) \in Int
                            /\ Numbers(CreditedTo(d, u), Ref)
                            /\ SumOver(CreditedTo(d, u), Ref) \in Int
<1>1. /\ d.paid \in [Ref -> [Charge -> Nat]] /\ d.covered \in [Charge -> Int]
      /\ d.credited \in [Ref -> Nat]
  BY DEF Tables
<1>2. IsFiniteSet(Ref) /\ IsFiniteSet(Charge)
  BY LedgerAssumption, ChargesAreFinite
<1>3. ASSUME NEW c \in Charge PROVE Numbers(PaidTo(d, c), Ref)
  BY <1>1 DEF Numbers, PaidTo
<1>4. ASSUME NEW u \in Unit
      PROVE  Numbers(CoveredIn(d, u), Charge) /\ Numbers(CreditedTo(d, u), Ref)
  BY <1>1 DEF Numbers, CoveredIn, CreditedTo
<1> QED
  BY <1>2, <1>3, <1>4, SumType

(* Rows with the same money and the same units behind the credit.          *)
LEMMA SameMoneySums ==
  ASSUME NEW D \in SUBSET Charge, NEW d \in Tables(D), SumsOK(d), NEW e,
         e.outstanding = d.outstanding, e.covered = d.covered, e.paid = d.paid,
         e.used = d.used, e.added = d.added, e.credited = d.credited,
         \A r \in Ref : e.payment[r].unit = d.payment[r].unit \/ d.credited[r] = 0
  PROVE  SumsOK(e)
<1>1. \A c \in Charge : PaidTo(e, c) = PaidTo(d, c)
  BY DEF PaidTo
<1>2. \A u \in Unit : CoveredIn(e, u) = CoveredIn(d, u)
  BY DEF CoveredIn
<1>3. ASSUME NEW u \in Unit PROVE CreditedTo(e, u) = CreditedTo(d, u)
  <2>1. \A r \in Ref : (IF e.payment[r].unit = u THEN d.credited[r] ELSE 0)
                     = IF d.payment[r].unit = u THEN d.credited[r] ELSE 0
    OBVIOUS
  <2> QED
    BY <2>1 DEF CreditedTo
<1> QED
  BY <1>1, <1>2, <1>3 DEF SumsOK, ChargeOK, CreditOK

(* Credit that payment r becomes is credit of the unit r was booked to.    *)
LEMMA CreditGrows ==
  ASSUME NEW D \in SUBSET Charge, NEW d \in Tables(D), NEW r \in Ref, NEW u \in Unit,
         d.payment[r].unit = u, NEW n \in Nat, NEW e, e.payment = d.payment,
         \A s \in Ref : e.credited[s] = IF s = r THEN d.credited[s] + n ELSE d.credited[s],
         NEW v \in Unit
  PROVE  SumOver(CreditedTo(e, v), Ref) = SumOver(CreditedTo(d, v), Ref) + IF v = u THEN n ELSE 0
<1> DEFINE f == CreditedTo(d, v)
           g == CreditedTo(e, v)
<1>1. IsFiniteSet(Ref) /\ Numbers(f, Ref) /\ SumOver(f, Ref) \in Int
  BY LedgerAssumption, SumTypes
<1>2. d.credited \in [Ref -> Nat]
  BY DEF Tables
<1>3. \A s \in Ref \ {r} : g[s] = f[s]
  BY DEF CreditedTo
<1>4. f[r] \in Int /\ g[r] = f[r] + IF v = u THEN n ELSE 0
  BY <1>2 DEF CreditedTo
<1> HIDE DEF f, g
<1>5. SumOver(g, Ref) = SumOver(f, Ref) - f[r] + g[r]
  BY <1>1, <1>3, <1>4, SumUpdate
<1> QED
  BY <1>1, <1>4, <1>5 DEF f, g

(* Credit spent on charges of unit u.                                      *)
LEMMA CoverGrows ==
  ASSUME NEW D \in SUBSET Charge, NEW d \in Tables(D), NEW u \in Unit,
         NEW part, Numbers(part, Charge), \A c \in Charge : c[2] # u => part[c] = 0,
         NEW e, \A c \in Charge : e.covered[c] = d.covered[c] + part[c], NEW v \in Unit
  PROVE  SumOver(CoveredIn(e, v), Charge)
           = SumOver(CoveredIn(d, v), Charge) + IF v = u THEN SumOver(part, Charge) ELSE 0
<1> DEFINE f == CoveredIn(d, v)
           h == CoveredIn(e, v)
<1>1. /\ IsFiniteSet(Charge) /\ Numbers(f, Charge) /\ SumOver(f, Charge) \in Int
      /\ SumOver(part, Charge) \in Int
  BY ChargesAreFinite, SumTypes, SumType
<1>2. d.covered \in [Charge -> Int] /\ \A c \in Charge : part[c] \in Int
  BY DEF Tables, Numbers
<1>3. CASE v = u
  <2>1. \A c \in Charge : h[c] = f[c] + part[c]
    BY <1>2, <1>3 DEF CoveredIn
  <2> HIDE DEF f, h
  <2>2. SumOver(h, Charge) = SumOver(f, Charge) + SumOver(part, Charge)
    BY <1>1, <2>1, SumAdd
  <2> QED
    BY <1>3, <2>2 DEF f, h
<1>4. CASE v # u
  <2>1. \A c \in Charge : h[c] = f[c]
    BY <1>2, <1>4 DEF CoveredIn
  <2> HIDE DEF f, h
  <2>2. SumOver(h, Charge) = SumOver(f, Charge)
    BY <1>1, <2>1, SumCongruence
  <2> QED
    BY <1>1, <1>4, <2>2 DEF f, h
<1> QED
  BY <1>3, <1>4

(* What is paid of a charge grows by what one payment adds.                *)
LEMMA PaidGrowsBy ==
  ASSUME NEW D \in SUBSET Charge, NEW d \in Tables(D), NEW r \in Ref, NEW c \in Charge,
         NEW n \in Int, NEW e,
         \A s \in Ref : e.paid[s][c] = IF s = r THEN d.paid[s][c] + n ELSE d.paid[s][c]
  PROVE  SumOver(PaidTo(e, c), Ref) = SumOver(PaidTo(d, c), Ref) + n
<1> DEFINE f == PaidTo(d, c)
           g == PaidTo(e, c)
<1>1. IsFiniteSet(Ref) /\ Numbers(f, Ref) /\ SumOver(f, Ref) \in Int
  BY LedgerAssumption, SumTypes
<1>2. d.paid \in [Ref -> [Charge -> Nat]]
  BY DEF Tables
<1>3. \A s \in Ref \ {r} : g[s] = f[s]
  BY DEF PaidTo
<1>4. f[r] \in Int /\ g[r] = f[r] + n
  BY <1>2 DEF PaidTo
<1> HIDE DEF f, g
<1>5. SumOver(g, Ref) = SumOver(f, Ref) - f[r] + g[r]
  BY <1>1, <1>3, <1>4, SumUpdate
<1> QED
  BY <1>1, <1>4, <1>5 DEF f, g

(* The engine is run with the unit's open charges and its credit.          *)
SeesUnit(d, u, in) ==
  /\ UsesSnapshot(in, OpenCharges(d, u))
  /\ in.credit = d.added[u] - d.used[u]

(* What a settled payment does to the charges and the credit of its unit.  *)
LEMMA SettlesWithin ==
  ASSUME NEW D \in SUBSET Charge, NEW d \in Tables(D), NEW u \in Unit, NEW in, SeesUnit(d, u, in),
         CreditOK(d, u), NEW result, result = Reconcile(in), ~MustHold(in)
  PROVE  LET open == OpenCharges(d, u)
         IN  /\ \A c \in Touched(result, open) :
                  /\ c \in DOMAIN d.outstanding /\ c[2] = u /\ open[c] = d.outstanding[c]
                  /\ result.allocs[c[1]].amount \in Nat
                  /\ result.allocs[c[1]].fromCredit \in Nat
                  /\ result.allocs[c[1]].amount + result.allocs[c[1]].fromCredit <= d.outstanding[c]
             /\ result.creditAdded \in Nat
             /\ result.creditApplied \in Nat
             /\ SumOver(CreditPart(result, open), Charge) = result.creditApplied
             /\ result.creditApplied <= d.added[u] - d.used[u]
<1> DEFINE open == OpenCharges(d, u)
           S == DOMAIN open
           p == Allocate(in)
<1>1. /\ S \subseteq ChargesOf(d, u) /\ ChargesOf(d, u) \subseteq D
      /\ \A c \in ChargesOf(d, u) : c[2] = u
      /\ open \in [S -> Int] /\ \A c \in S : open[c] = d.outstanding[c] /\ d.outstanding[c] > 0
  BY OpenChargesFacts
<1>2. /\ d.outstanding \in [D -> Int] /\ d.used \in [Unit -> Int] /\ d.added \in [Unit -> Nat]
  BY DEF Tables
<1>3. /\ S \in SUBSET Charge /\ (\A c \in S : c[2] = u /\ c \in D) /\ DOMAIN d.outstanding = D
  BY <1>1, <1>2
<1>0. DOMAIN open = S
  OBVIOUS
<1>4. /\ in.charges = EngineCharges(open) /\ in.amount \in Nat /\ in.credit \in Int
      /\ in.threshold \in Nat /\ in.credit = d.added[u] - d.used[u]
  BY DEF SeesUnit, UsesSnapshot
<1>5. in.credit >= 0
  BY <1>2, <1>4 DEF CreditOK
<1> HIDE DEF open, S, p
<1>6. /\ Distinct(EngineCharges(open)) /\ IdsOf(EngineCharges(open)) = {c[1] : c \in S}
      /\ {c[1] : c \in S} \subseteq Bill
      /\ \A c \in S : \E e \in EngineCharges(open) : e.id = c[1] /\ e.outstanding = open[c]
  BY <1>1, <1>3, EngineChargesAreValid
<1>7. ValidInput(in, Bill)
  BY <1>4, <1>6, LedgerAssumption DEF ValidInput
<1>8. /\ ResultOK(result) /\ DOMAIN result.allocs \subseteq IdsOf(OpenOf(in))
      /\ Allocated(OpenOf(in), Bill, in.amount, in.credit, p) /\ Settles(in, p, result)
  BY <1>7, ReconcileResult DEF p
<1>9. IsResult(result, S)
  <2>1. IdsOf(OpenOf(in)) \subseteq IdsOf(EngineCharges(open))
    BY <1>4 DEF IdsOf, OpenOf
  <2> QED
    BY <1>6, <1>8, <2>1 DEF IsResult
<1>10. /\ p.credit >= 0 /\ p.credit \in Int /\ p.payment \in Nat
       /\ SumOver(Credits(p.allocs, Bill), Bill) + p.credit = in.credit
       /\ \A x \in OpenOf(in) : x.id \in DOMAIN p.allocs =>
            /\ p.allocs[x.id].fromCredit >= 0
            /\ p.allocs[x.id].amount + p.allocs[x.id].fromCredit <= x.outstanding
  BY <1>5, <1>8 DEF Allocated, Purses
<1>11. result.allocs = p.allocs /\ result.creditApplied = in.credit - p.credit
       /\ result.creditAdded \in Nat
  BY <1>8, <1>10 DEF Settles
<1>12. ASSUME NEW c \in Touched(result, open)
       PROVE  /\ c \in D /\ c[2] = u /\ open[c] = d.outstanding[c]
              /\ result.allocs[c[1]].amount \in Nat
              /\ result.allocs[c[1]].fromCredit \in Nat
              /\ result.allocs[c[1]].amount + result.allocs[c[1]].fromCredit <= d.outstanding[c]
  <2>1. c \in S /\ c[1] \in DOMAIN result.allocs
    BY DEF Touched, S
  <2>2. PICK x \in EngineCharges(open) : x.id = c[1] /\ x.outstanding = open[c]
    BY <1>6, <2>1
  <2>3. x \in OpenOf(in)
    BY <1>1, <1>4, <2>1, <2>2 DEF OpenOf
  <2>4. result.allocs[c[1]].amount \in Nat /\ result.allocs[c[1]].fromCredit \in Int
    <3>1. result.allocs[c[1]] \in Shares
      BY <1>8, <2>1 DEF ResultOK
    <3> QED
      BY <3>1 DEF Shares
  <2> QED
    BY <1>1, <1>3, <1>10, <1>11, <2>1, <2>2, <2>3, <2>4
<1>13. SumOver(CreditPart(result, open), Charge) = SumOver(Credits(result.allocs, Bill), Bill)
  BY <1>0, <1>3, <1>9, PartsAddUp
<1>14. Numbers(CreditPart(result, open), Charge) /\ \A c \in Charge : CreditPart(result, open)[c] \in Nat
  BY <1>12 DEF CreditPart, Numbers
<1>15. SumOver(CreditPart(result, open), Charge) \in Nat
  BY <1>14, SumNat, ChargesAreFinite
<1>16. SumOver(CreditPart(result, open), Charge) = result.creditApplied
  BY <1>4, <1>10, <1>11, <1>13, <1>15
<1> QED
  BY <1>2, <1>3, <1>4, <1>10, <1>11, <1>12, <1>15, <1>16 DEF open

(* A payment run through the engine on what the tables hold keeps the      *)
(* sums: each charge falls by what is written as paid or covered, and the  *)
(* credit by what is written as used.                                      *)
LEMMA EffectsSums ==
  ASSUME NEW D \in SUBSET Charge, NEW d \in Tables(D), NEW r \in Ref, NEW u \in Unit,
         SumsOK(d), d.payment[r].unit = u, NEW in, SeesUnit(d, u, in),
         NEW result, result = Reconcile(in), NEW e \in Tables(D), NEW sums,
         Effects(d, r, u, result, OpenCharges(d, u), sums, e), MoneyGoes(d, r, in, result, e)
  PROVE  SumsOK(e)
<1>1. CASE MustHold(in)
  BY <1>1, SameMoneySums DEF MoneyGoes, Effects
<1>2. CASE ~MustHold(in)
  <2> DEFINE open == OpenCharges(d, u)
             touched == Touched(result, open)
             part == CreditPart(result, open)
             Amount(c) == IF c \in touched THEN result.allocs[c[1]].amount ELSE 0
  <2>1. CreditOK(d, u)
    BY DEF SumsOK
  <2>2. /\ \A c \in touched :
             /\ c \in DOMAIN d.outstanding /\ c[2] = u /\ open[c] = d.outstanding[c]
             /\ result.allocs[c[1]].amount \in Nat
             /\ result.allocs[c[1]].fromCredit \in Nat
             /\ result.allocs[c[1]].amount + result.allocs[c[1]].fromCredit <= d.outstanding[c]
        /\ result.creditAdded \in Nat
        /\ result.creditApplied \in Nat
        /\ SumOver(part, Charge) = result.creditApplied
        /\ result.creditApplied <= d.added[u] - d.used[u]
    BY <1>2, <2>1, SettlesWithin
  <2>3. /\ d.outstanding \in [D -> Int] /\ e.outstanding \in [D -> Int]
        /\ d.covered \in [Charge -> Int] /\ d.used \in [Unit -> Int] /\ d.added \in [Unit -> Nat]
        /\ d.credited \in [Ref -> Nat] /\ d.paid \in [Ref -> [Charge -> Nat]]
    BY DEF Tables
  <2>4. \A c \in Charge : part[c] = IF c \in touched THEN result.allocs[c[1]].fromCredit ELSE 0
    BY DEF CreditPart
  <2>5. /\ \A c \in D : e.outstanding[c] = IF c \in touched
                          THEN NewOutstanding(open[c], result.allocs[c[1]]) ELSE d.outstanding[c]
        /\ \A s \in Ref, c \in Charge :
             e.paid[s][c] = IF s = r /\ c \in touched
                            THEN d.paid[s][c] + result.allocs[c[1]].amount ELSE d.paid[s][c]
        /\ \A c \in Charge :
             e.covered[c] = IF c \in touched
                            THEN d.covered[c] + result.allocs[c[1]].fromCredit ELSE d.covered[c]
        /\ \A v \in Unit :
             /\ e.used[v] = IF v = u THEN d.used[v] + Positive(result.creditApplied) ELSE d.used[v]
             /\ e.added[v] = IF v = u THEN d.added[v] + Positive(result.creditAdded) ELSE d.added[v]
        /\ \A s \in Ref :
             e.credited[s] = IF s = r THEN d.credited[s] + Positive(result.creditAdded)
                                      ELSE d.credited[s]
        /\ e.payment = d.payment
    BY <2>3 DEF Effects
  <2> HIDE DEF open, touched, part
  <2>6. ASSUME NEW c \in Charge PROVE ChargeOK(e, c)
    <3>1. ChargeOK(d, c) /\ SumOver(PaidTo(d, c), Ref) \in Int /\ Amount(c) \in Nat
      BY <2>2, SumTypes DEF SumsOK
    <3>2. \A s \in Ref : e.paid[s][c] = IF s = r THEN d.paid[s][c] + Amount(c) ELSE d.paid[s][c]
      <4>1. d.paid[r][c] \in Nat
        BY <2>3
      <4> QED
        BY <2>5, <4>1
    <3> HIDE DEF Amount
    <3>3. SumOver(PaidTo(e, c), Ref) = SumOver(PaidTo(d, c), Ref) + Amount(c)
      BY <3>1, <3>2, PaidGrowsBy
    <3>4. CASE c \in touched
      <4> DEFINE a == result.allocs[c[1]].amount
                 b == result.allocs[c[1]].fromCredit
      <4>1. /\ c \in D /\ a \in Nat /\ b \in Nat /\ a + b <= d.outstanding[c]
            /\ d.outstanding[c] \in Int /\ d.covered[c] \in Int
        BY <2>2, <2>3, <3>4
      <4>2. e.outstanding[c] = Positive(d.outstanding[c] - a - b)
        BY <2>2, <2>5, <3>4, <4>1 DEF NewOutstanding
      <4>3. e.covered[c] = d.covered[c] + b /\ Amount(c) = a
        BY <2>5, <3>4 DEF Amount
      <4> HIDE DEF a, b
      <4>4. e.outstanding[c] = d.outstanding[c] - a - b
        BY <4>1, <4>2 DEF Positive
      <4> QED
        BY <2>3, <3>1, <3>3, <4>1, <4>3, <4>4 DEF ChargeOK
    <3>5. CASE c \notin touched
      <4>1. /\ e.covered[c] = d.covered[c] /\ Amount(c) = 0
            /\ c \in D => e.outstanding[c] = d.outstanding[c]
            /\ \A s \in Ref : e.paid[s][c] = d.paid[s][c]
        BY <2>5, <3>5 DEF Amount
      <4> QED
        BY <2>3, <3>1, <3>3, <4>1 DEF ChargeOK
    <3> QED
      BY <3>4, <3>5
  <2>7. ASSUME NEW v \in Unit PROVE CreditOK(e, v)
    <3>1. CreditOK(d, v) /\ CreditOK(d, u)
      BY DEF SumsOK
    <3>2. /\ SumOver(CoveredIn(d, v), Charge) \in Int /\ SumOver(CreditedTo(d, v), Ref) \in Int
      BY SumTypes
    <3>3. SumOver(CoveredIn(e, v), Charge)
            = SumOver(CoveredIn(d, v), Charge) + IF v = u THEN SumOver(part, Charge) ELSE 0
      <4>1. Numbers(part, Charge) /\ \A c \in Charge : c[2] # u => part[c] = 0
        BY <2>2, <2>4 DEF Numbers
      <4>2. \A c \in Charge : e.covered[c] = d.covered[c] + part[c]
        BY <2>3, <2>4, <2>5
      <4> QED
        BY <4>1, <4>2, CoverGrows
    <3> DEFINE n == result.creditAdded
    <3>4. Positive(n) = n /\ Positive(result.creditApplied) = result.creditApplied
      BY <2>2 DEF Positive
    <3>5. n \in Nat /\ \A s \in Ref : e.credited[s] = IF s = r THEN d.credited[s] + n ELSE d.credited[s]
      BY <2>2, <2>5, <3>4
    <3> HIDE DEF n
    <3>6. SumOver(CreditedTo(e, v), Ref)
            = SumOver(CreditedTo(d, v), Ref) + IF v = u THEN n ELSE 0
      BY <2>5, <3>5, CreditGrows
    <3>7. /\ e.used[v] = IF v = u THEN d.used[v] + result.creditApplied ELSE d.used[v]
          /\ e.added[v] = IF v = u THEN d.added[v] + n ELSE d.added[v]
      BY <2>5, <3>4 DEF n
    <3> QED
      BY <2>2, <2>3, <3>1, <3>2, <3>3, <3>5, <3>6, <3>7 DEF CreditOK
  <2> QED
    BY <2>6, <2>7 DEF SumsOK
<1> QED
  BY <1>1, <1>2

(* The payment row r is written; the unit may change while the payment is  *)
(* no credit.                                                              *)
LEMMA PaymentRowSums ==
  ASSUME NEW D \in SUBSET Charge, NEW d \in Tables(D), SumsOK(d), NEW r \in Ref,
         NEW row \in [status : PaymentStatus, unit : Unit \cup {NoUnit}],
         row.unit = d.payment[r].unit \/ d.credited[r] = 0
  PROVE  LET b == [d EXCEPT !.payment[r] = row]
         IN  b \in Tables(D) /\ SumsOK(b) /\ b.payment[r] = row
<1> DEFINE b == [d EXCEPT !.payment[r] = row]
<1>1. /\ b \in Tables(D)
      /\ b.payment = [d.payment EXCEPT ![r] = row] /\ b.payment[r] = row
      /\ b.bills = d.bills /\ b.outstanding = d.outstanding /\ b.added = d.added
      /\ b.used = d.used /\ b.rollup = d.rollup /\ b.paid = d.paid
      /\ b.exception = d.exception /\ b.covered = d.covered /\ b.credited = d.credited
  BY BookedFacts
<1> HIDE DEF b
<1>2. d.payment \in [Ref -> [status : PaymentStatus, unit : Unit \cup {NoUnit}]]
  BY DEF Tables
<1>3. \A s \in Ref : b.payment[s].unit = d.payment[s].unit \/ d.credited[s] = 0
  BY <1>1, <1>2
<1>4. SumsOK(b)
  BY <1>1, <1>3, SameMoneySums
<1> QED
  BY <1>1, <1>4 DEF b

(* What a transaction has read of its unit is what the tables hold.        *)
SeesNow(d, t) ==
  /\ t.snapshot = OpenCharges(d, t.unit)
  /\ t.credit = d.added[t.unit] - d.used[t.unit]

(* So does applyPaymentToUnit, when what it has read is so.                *)
LEMMA AttributionSums ==
  ASSUME NEW D \in SUBSET Charge, NEW d \in Tables(D), NEW r \in Ref, NEW t, MayApply(d, t),
         wire \in [Ref -> Transfers], SumsOK(d), d.payment[r].unit = t.unit, SeesNow(d, t)
  PROVE  SumsOK(ApplyPaymentToUnit(d, r, t))
<1> DEFINE u == t.unit
           sums == t.sums
           in == AttributionInput(r, t)
           open == OpenCharges(d, u)
           S == DOMAIN open
           result == Reconcile(in)
           f == ApplyReconEffects(d, r, u, result, open, sums)
           e == ApplyPaymentToUnit(d, r, t)
<1>1. wire[r].amount \in Nat
  BY LedgerAssumption DEF TransferType
<1>2. /\ u \in Unit /\ t.credit \in Int /\ sums \in UnitRow /\ d.payment[r].unit = u
      /\ t.snapshot = open /\ t.credit = d.added[u] - d.used[u]
  BY DEF MayApply, SeesNow
<1>3. UsesSnapshot(in, open) /\ SeesUnit(d, u, in)
  BY <1>1, <1>2 DEF UsesSnapshot, SeesUnit, AttributionInput, Gross, AttributionThreshold
<1>5. e = [f EXCEPT !.payment[r].status = result.status]
  BY <1>2 DEF ApplyPaymentToUnit, Attribution, AttributionInput
<1>6. e \in Tables(D)
  BY ApplyPaymentToUnitFacts
<1> HIDE DEF in, e, u, sums
<1>4. S \subseteq ChargesOf(d, u) /\ open \in [S -> Int]
  BY <1>2, OpenChargesFacts
<1>7. /\ f \in Tables(D) /\ Effects(d, r, u, result, open, sums, f)
      /\ MoneyGoes(d, r, in, result, f)
  BY <1>2, <1>3, <1>4, MoneyGoesSomewhere
<1>8. SumsOK(f)
  <2> HIDE DEF f
  <2> QED
    BY <1>2, <1>3, <1>7, EffectsSums
<1> HIDE DEF f, result
<1>9. /\ e.outstanding = f.outstanding /\ e.covered = f.covered /\ e.paid = f.paid
      /\ e.used = f.used /\ e.added = f.added /\ e.credited = f.credited
      /\ e.payment = [f.payment EXCEPT ![r].status = result.status]
  <2>1. e = [f EXCEPT !.payment = [f.payment EXCEPT ![r].status = result.status]]
    BY <1>5
  <2> QED
    BY <1>7, <2>1 DEF Tables
<1>10. \A s \in Ref : e.payment[s].unit = f.payment[s].unit
  <2>1. f.payment \in [Ref -> [status : PaymentStatus, unit : Unit \cup {NoUnit}]]
    BY <1>7 DEF Tables
  <2> QED
    BY <1>9, <2>1
<1>11. SumsOK(e)
  BY <1>7, <1>8, <1>9, <1>10, SameMoneySums
<1> QED
  BY <1>11 DEF e

(* What the handler that persists a payment has read is what the tables    *)
(* hold.                                                                   *)
ReadNow(d, l) ==
  /\ l.snapshot = OpenCharges(d, wire[l.ref].account)
  /\ l.credit = d.added[wire[l.ref].account] - d.used[wire[l.ref].account]

(* So does ingest, provided what it read is still what the tables hold.    *)
LEMMA PersistedSums ==
  ASSUME NEW D \in SUBSET Charge, NEW d \in Tables(D), NEW l, MayPersist(d, l),
         wire \in [Ref -> Transfers], SumsOK(d), d.credited[l.ref] = 0, ReadNow(d, l),
         NEW sums \in UnitRow
  PROVE  SumsOK(Persisted(d, l, sums))
<1> DEFINE r == l.ref
           u == wire[r].account
           in == IngestInput(l)
           open == OpenCharges(d, u)
           S == DOMAIN open
           result == IngestResult(l)
           row == [status |-> MapStatus(r, result), unit |-> u]
           b == Booked(d, l)
           f == BookedWithEffects(d, l, sums)
           e == Persisted(d, l, sums)
<1>1. r \in Ref /\ u \in Unit /\ l.snapshot = open
  BY DEF MayPersist, ReadNow
<1>2. /\ UsesSnapshot(in, open) /\ result = Reconcile(in) /\ ResultOK(result)
  BY <1>1, IngestResultFacts DEF IsResult
<1>3. row \in [status : PaymentStatus, unit : Unit \cup {NoUnit}]
  <2>1. MapStatus(r, result) \in PaymentStatus
    BY <1>2 DEF MapStatus, ResultOK, PaymentStatus
  <2> QED
    BY <1>1, <2>1
<1>4. b = [d EXCEPT !.payment[r] = row]
  BY DEF Booked
<1>5. f = ApplyReconEffects(b, r, u, result, open, sums)
  BY <1>1 DEF BookedWithEffects
<1>6. e = IF IsException(result)
          THEN [f EXCEPT !.exception[r] = [type |-> result.exceptionType, open |-> TRUE]] ELSE f
  BY DEF Persisted, BookedWithEffects, Booked
<1>7. in.credit = d.added[u] - d.used[u]
  BY DEF IngestInput, ReadNow
<1> HIDE DEF e, f, b, result, in
<1>8. b \in Tables(D) /\ SumsOK(b) /\ b.payment[r] = row
      /\ b.outstanding = d.outstanding /\ b.added = d.added /\ b.used = d.used
  <2>1. /\ b \in Tables(D) /\ b.payment[r] = row /\ b.outstanding = d.outstanding
        /\ b.added = d.added /\ b.used = d.used
    <3> HIDE DEF row
    <3> QED
      BY <1>1, <1>3, <1>4, BookedFacts
  <2>2. row.unit = d.payment[r].unit \/ d.credited[r] = 0
    OBVIOUS
  <2>3. SumsOK(b)
    <3> HIDE DEF row
    <3> QED
      BY <1>1, <1>3, <1>4, <2>2, PaymentRowSums
  <2> QED
    BY <2>1, <2>3
<1>9. OpenCharges(b, u) = open
  BY <1>8 DEF OpenCharges, ChargesOf
<1>10. SeesUnit(b, u, in) /\ b.payment[r].unit = u
  BY <1>2, <1>7, <1>8, <1>9 DEF SeesUnit
<1>11. S \subseteq ChargesOf(b, u) /\ open \in [S -> Int]
  BY <1>1, <1>8, <1>9, OpenChargesFacts
<1> HIDE DEF open, S, row
<1>12. /\ f \in Tables(D)
       /\ Effects(b, r, u, result, open, sums, f)
       /\ MoneyGoes(b, r, in, result, f)
  BY <1>1, <1>2, <1>5, <1>8, <1>11, MoneyGoesSomewhere
<1>13. SumsOK(f)
  BY <1>1, <1>2, <1>8, <1>9, <1>10, <1>12, EffectsSums
<1>14. /\ e.outstanding = f.outstanding /\ e.covered = f.covered /\ e.paid = f.paid
       /\ e.used = f.used /\ e.added = f.added /\ e.credited = f.credited
       /\ e.payment = f.payment
  BY <1>6, <1>12 DEF Tables
<1>15. SumsOK(e)
  BY <1>12, <1>13, <1>14, SameMoneySums
<1> QED
  BY <1>15 DEF e

(* So does a decision of a manager.                                        *)
LEMMA DecideSums ==
  ASSUME NEW D \in SUBSET Charge, NEW d \in Tables(D), NEW l, NEW t, MayDecide(d, l, t),
         wire \in [Ref -> Transfers], SumsOK(d), Applies(l) => SeesNow(d, t),
         l.type = "MISDIRECTED" => d.credited[l.ref] = 0,
         l.type \in {"OVERPAYMENT", "DUPLICATE", "THIRD_PARTY"} => l.unit = d.payment[l.ref].unit
  PROVE  SumsOK(Decide(d, l, t))
<1> DEFINE r == l.ref
           u == l.unit
           e == Decide(d, l, t)
           unit == d.payment[r].unit
           Rows == [status : PaymentStatus, unit : Unit \cup {NoUnit}]
<1>1. r \in Ref /\ l.type \in ExceptionType \ {NotAnException} /\ (l.type # "REVERSAL" => u \in Unit)
      /\ t.sums \in UnitRow /\ (Applies(l) => t.unit = u /\ MayApply(d, t) /\ SeesNow(d, t))
  BY DEF MayDecide
<1>2. /\ d.payment \in [Ref -> Rows] /\ d.credited \in [Ref -> Nat] /\ d.added \in [Unit -> Nat]
      /\ d.used \in [Unit -> Int]
  BY DEF Tables
<1>3. unit \in Unit \cup {NoUnit} /\ d.payment[r].status \in PaymentStatus
  BY <1>1, <1>2
<1>5. CASE l.type = "OVERPAYMENT"
  <2> DEFINE row == [status |-> "OVERPAYMENT", unit |-> unit]
             b == [d EXCEPT !.payment[r] = row]
             n == Surplus(d, r)
             f == AddCredit(b, r, u, n)
             g == RecomputeUnitRollups(f, u, t.sums)
  <2>1. row \in Rows /\ row.unit = unit
    BY <1>3 DEF PaymentStatus
  <2>2. b = [d EXCEPT !.payment[r].status = "OVERPAYMENT"]
    <3>1. [d.payment EXCEPT ![r].status = "OVERPAYMENT"] = [d.payment EXCEPT ![r] = row]
      BY <1>1, <1>2
    <3> QED
      BY <3>1
  <2>3. e = IF l.action = "credit" /\ n > 0 THEN g ELSE b
    BY <1>5, <2>2 DEF Decide, MakesCredit
  <2>4. b \in Tables(D) /\ SumsOK(b) /\ b.payment[r] = row
    <3> HIDE DEF row
    <3> QED
      BY <1>1, <2>1, PaymentRowSums
  <2> HIDE DEF b, n
  <2>5. CASE ~(l.action = "credit" /\ n > 0)
    BY <2>3, <2>4, <2>5
  <2>6. CASE l.action = "credit" /\ n > 0
    <3>1. n \in Nat
      <4>1. Total(d, r) \in Nat /\ Gross(r) \in Nat
        BY <1>1, TotalsType, LedgerAssumption DEF Total, Gross, TransferType
      <4>2. n = Gross(r) - Total(d, r)
        BY DEF n, Surplus, Total
      <4> QED
        BY <2>6, <4>1, <4>2
    <3>2. u \in Unit /\ b.payment[r].unit = u
      BY <1>1, <1>5, <2>1, <2>4
    <3>3. /\ f \in Tables(D)
          /\ f.bills = b.bills /\ f.outstanding = b.outstanding /\ f.rollup = b.rollup
          /\ f.used = b.used /\ f.payment = b.payment /\ f.paid = b.paid
          /\ f.exception = b.exception /\ f.covered = b.covered
          /\ f.added = [b.added EXCEPT ![u] = b.added[u] + n]
          /\ f.credited = [b.credited EXCEPT ![r] = b.credited[r] + n]
      BY <1>1, <2>4, <3>1, <3>2, AddCreditFacts
    <3> HIDE DEF f, row
    <3>4. /\ g.outstanding = f.outstanding /\ g.added = f.added
          /\ g.used = f.used /\ g.payment = f.payment /\ g.paid = f.paid
          /\ g.covered = f.covered /\ g.credited = f.credited
      BY <1>1, <3>2, <3>3, RecomputeUnitRollupsFacts
    <3> HIDE DEF g
    <3>5. /\ b.credited \in [Ref -> Nat] /\ b.added \in [Unit -> Nat] /\ b.used \in [Unit -> Int]
      BY <2>4 DEF Tables
    <3>6. /\ \A s \in Ref : g.credited[s] = IF s = r THEN b.credited[s] + n ELSE b.credited[s]
          /\ \A v \in Unit : g.added[v] = IF v = u THEN b.added[v] + n ELSE b.added[v]
      BY <3>3, <3>4, <3>5
    <3>9. /\ g.outstanding = b.outstanding /\ g.covered = b.covered /\ g.paid = b.paid
          /\ g.used = b.used /\ g.payment = b.payment
      BY <3>3, <3>4
    <3>7. ASSUME NEW c \in Charge PROVE ChargeOK(g, c)
      <4>1. ChargeOK(b, c) /\ PaidTo(g, c) = PaidTo(b, c)
        BY <2>4, <3>9 DEF SumsOK, PaidTo
      <4> QED
        BY <3>9, <4>1 DEF ChargeOK
    <3>8. ASSUME NEW v \in Unit PROVE CreditOK(g, v)
      <4>1. CreditOK(b, v) /\ SumOver(CreditedTo(b, v), Ref) \in Int
        BY <2>4, SumTypes DEF SumsOK
      <4>2. SumOver(CreditedTo(g, v), Ref)
              = SumOver(CreditedTo(b, v), Ref) + IF v = u THEN n ELSE 0
        BY <1>1, <2>4, <3>1, <3>2, <3>6, <3>9, CreditGrows
      <4>3. CoveredIn(g, v) = CoveredIn(b, v) /\ g.used[v] = b.used[v]
        BY <3>9 DEF CoveredIn
      <4>4. g.added[v] = IF v = u THEN b.added[v] + n ELSE b.added[v]
        BY <3>6
      <4> QED
        BY <3>1, <3>5, <4>1, <4>2, <4>3, <4>4 DEF CreditOK
    <3> QED
      BY <2>3, <2>6, <3>7, <3>8 DEF SumsOK
  <2> QED
    BY <2>5, <2>6
<1>6. CASE l.type = "REVERSAL" \/ (l.type = "DUPLICATE" /\ l.action # "duplicate-keep")
  BY <1>6 DEF Decide
<1>7. CASE l.type = "THIRD_PARTY" /\ l.action = "refund"
  <2> DEFINE row == [status |-> "REVERSED", unit |-> unit]
             b == [d EXCEPT !.payment[r] = row]
  <2>1. row \in Rows /\ row.unit = unit
    BY <1>3 DEF PaymentStatus
  <2>2. b = [d EXCEPT !.payment[r].status = "REVERSED"]
    <3>1. [d.payment EXCEPT ![r].status = "REVERSED"] = [d.payment EXCEPT ![r] = row]
      BY <1>1, <1>2
    <3> QED
      BY <3>1
  <2>3. e = b
    BY <1>7, <2>2 DEF Decide
  <2>4. SumsOK(b)
    <3> HIDE DEF row
    <3> QED
      BY <1>1, <2>1, PaymentRowSums
  <2> QED
    BY <2>3, <2>4
<1>8. CASE \/ l.type = "DUPLICATE" /\ l.action = "duplicate-keep"
           \/ l.type = "THIRD_PARTY" /\ l.action # "refund"
  <2>1. e = ApplyPaymentToUnit(d, r, t)
    BY <1>8 DEF Decide
  <2>2. d.payment[r].unit = t.unit /\ MayApply(d, t) /\ SeesNow(d, t)
    BY <1>1, <1>8 DEF Applies
  <2> QED
    BY <1>1, <2>1, <2>2, AttributionSums
<1>9. CASE l.type = "MISDIRECTED"
  <2> DEFINE row == [status |-> d.payment[r].status, unit |-> u]
             b == [d EXCEPT !.payment[r] = row]
  <2>1. /\ u \in Unit /\ row \in Rows /\ row.unit = u
        /\ t.unit = u /\ MayApply(d, t) /\ SeesNow(d, t)
    BY <1>1, <1>3, <1>9 DEF Applies
  <2>2. b = [d EXCEPT !.payment[r].unit = u]
    <3>1. [d.payment EXCEPT ![r].unit = u] = [d.payment EXCEPT ![r] = row]
      BY <1>1, <1>2
    <3> QED
      BY <3>1
  <2>3. e = ApplyPaymentToUnit(b, r, t)
    BY <1>9, <2>1, <2>2 DEF Decide
  <2>4. /\ b \in Tables(D) /\ SumsOK(b) /\ b.payment[r] = row
        /\ b.outstanding = d.outstanding /\ b.added = d.added /\ b.used = d.used
    <3> HIDE DEF row
    <3>1. b \in Tables(D) /\ SumsOK(b) /\ b.payment[r] = row
      BY <1>1, <1>9, <2>1, PaymentRowSums
    <3>2. b.outstanding = d.outstanding /\ b.added = d.added /\ b.used = d.used
      BY <1>1, <2>1, BookedFacts
    <3> QED
      BY <3>1, <3>2
  <2> HIDE DEF b
  <2>5. MayApply(b, t) /\ SeesNow(b, t) /\ b.payment[r].unit = t.unit
    <3>1. b.payment[r].unit = t.unit
      BY <2>1, <2>4
    <3> HIDE DEF row
    <3> QED
      BY <2>1, <2>4, <3>1 DEF MayApply, SeesNow, OpenCharges, ChargesOf
  <2> HIDE DEF row
  <2> QED
    BY <1>1, <2>1, <2>3, <2>4, <2>5, AttributionSums
<1> QED
  BY <1>1, <1>5, <1>6, <1>7, <1>8, <1>9 DEF ExceptionType, NotAnException

(* So does billing a unit for the first time.                              *)
LEMMA BillUnitSums ==
  ASSUME NEW D \in SUBSET Charge, NEW d \in Tables(D), NEW b \in Bill, NEW t, MayBill(d, b, t),
         <<b, t.unit>> \notin D, SumsOK(d), SeesNow(Charged(d, <<b, t.unit>>), t)
  PROVE  SumsOK(UnitBilled(d, b, t))
<1> DEFINE u == t.unit
           c == <<b, u>>
           w == Charged(d, c)
           e == UnitBilled(d, b, t)
           E == D \cup {c}
<1>0. u \in Unit /\ c \notin D /\ SeesNow(w, t)
  BY DEF MayBill, MayApply
<1>11. e \in Tables(E) /\ \E take \in [Charge -> Int] : Spends(w, u, t.credit, t.sums, take, e)
  BY <1>0, BillUnitFacts DEF Bills, BillsCredit, SeesNow
<1>1. /\ E \in SUBSET Charge /\ w \in Tables(E)
      /\ w.bills = d.bills /\ w.added = d.added /\ w.used = d.used /\ w.rollup = d.rollup
      /\ w.payment = d.payment /\ w.paid = d.paid /\ w.exception = d.exception
      /\ w.covered = d.covered /\ w.credited = d.credited
      /\ DOMAIN w.outstanding = E
      /\ \A x \in E : w.outstanding[x] = IF x = c THEN BillAmount[b] ELSE d.outstanding[x]
  <2> HIDE DEF u
  <2> QED
    BY <1>0, ChargedFacts
<1>2. c \in Charge /\ BillAmount[b] \in Nat /\ c[1] = b /\ DOMAIN d.outstanding = D /\ c \notin D
  BY <1>0, LedgerAssumption DEF Charge, Tables
<1> HIDE DEF w, c, e, u
<1>3. ASSUME NEW x \in Charge PROVE ChargeOK(w, x)
  <2>1. ChargeOK(d, x) /\ PaidTo(w, x) = PaidTo(d, x)
    BY <1>1 DEF SumsOK, PaidTo
  <2>2. CASE x = c
    <3>1. d.covered[x] = 0 /\ \A r \in Ref : d.paid[r][x] = 0
      BY <1>2, <2>1, <2>2 DEF ChargeOK
    <3>2. SumOver(PaidTo(w, x), Ref) = 0
      <4>1. \A r \in Ref : PaidTo(w, x)[r] = 0
        BY <1>1, <3>1 DEF PaidTo
      <4> QED
        BY <4>1, LedgerAssumption, SumZero
    <3> QED
      BY <1>1, <1>2, <2>2, <3>1, <3>2 DEF ChargeOK
  <2>3. CASE x # c
    BY <1>1, <1>2, <2>1, <2>3 DEF ChargeOK
  <2> QED
    BY <2>2, <2>3
<1>4. ASSUME NEW v \in Unit PROVE CreditOK(w, v)
  BY <1>1 DEF SumsOK, CreditOK, CoveredIn, CreditedTo
<1> HIDE DEF E
<1>5. e \in Tables(E)
  BY <1>11
<1>6. PICK take \in [Charge -> Int] : Spends(w, u, t.credit, t.sums, take, e)
  BY <1>11
<1>7. /\ w.outstanding \in [E -> Int] /\ e.outstanding \in [E -> Int] /\ w.covered \in [Charge -> Int]
      /\ w.used \in [Unit -> Int] /\ w.added \in [Unit -> Nat]
  BY <1>1, <1>5 DEF Tables
<1>8. /\ KeepsPayments(w, e) /\ MovesCredit(w, u, take, e) /\ Takes(w, u, take)
      /\ SumOver(take, Charge) <= Positive(t.credit)
  BY <1>6 DEF Spends
<1>9. ASSUME NEW x \in Charge PROVE ChargeOK(e, x)
  <2>1. ChargeOK(w, x) /\ PaidTo(e, x) = PaidTo(w, x) /\ SumOver(PaidTo(w, x), Ref) \in Int
    BY <1>1, <1>3, <1>8, SumTypes DEF KeepsPayments, PaidTo
  <2>2. /\ take[x] \in Int /\ take[x] >= 0
        /\ take[x] > 0 => x \in E /\ take[x] <= w.outstanding[x]
        /\ e.covered[x] = w.covered[x] + take[x]
        /\ x \in E => e.outstanding[x] = w.outstanding[x] - take[x]
    BY <1>7, <1>8 DEF Takes, MovesCredit
  <2>3. w.covered[x] \in Int /\ (x \in E => w.outstanding[x] \in Int)
    BY <1>7
  <2>4. \A r \in Ref : e.paid[r][x] = w.paid[r][x]
    BY <1>8 DEF KeepsPayments
  <2>5. BillAmount[x[1]] \in Nat
    BY LedgerAssumption DEF Charge
  <2> QED
    BY <1>7, <2>1, <2>2, <2>3, <2>4, <2>5 DEF ChargeOK
<1>10. ASSUME NEW v \in Unit PROVE CreditOK(e, v)
  <2>1. /\ CreditOK(w, v) /\ SumOver(CoveredIn(w, v), Charge) \in Int
    BY <1>1, <1>4, SumTypes
  <2>2. Numbers(take, Charge) /\ \A x \in Charge : x[2] # u => take[x] = 0
    BY <1>8 DEF Numbers, Takes
  <2>3. SumOver(take, Charge) \in Int
    BY <2>2, ChargesAreFinite, SumType
  <2>4. SumOver(CoveredIn(e, v), Charge)
          = SumOver(CoveredIn(w, v), Charge) + IF v = u THEN SumOver(take, Charge) ELSE 0
    BY <1>0, <1>1, <1>8, <2>2, CoverGrows DEF MovesCredit
  <2>5. CreditedTo(e, v) = CreditedTo(w, v) /\ e.added = w.added
    BY <1>8 DEF KeepsPayments, CreditedTo
  <2>6. e.used[v] = IF v = u THEN w.used[v] + SumOver(take, Charge) ELSE w.used[v]
    BY <1>8 DEF MovesCredit
  <2>7. SumOver(take, Charge) <= w.added[u] - w.used[u]
    <3>1. w.used[u] <= w.added[u] /\ t.credit = w.added[u] - w.used[u]
      BY <1>0, <1>1, <1>4 DEF CreditOK, SeesNow, u
    <3> QED
      BY <1>0, <1>7, <1>8, <2>3, <3>1 DEF Positive
  <2> QED
    BY <1>7, <2>1, <2>3, <2>4, <2>5, <2>6, <2>7 DEF CreditOK
<1> QED
  BY <1>9, <1>10 DEF SumsOK, e, w

OneHandler == \A g, h \in Handler : g = h

(* The payments the duplicate check of payment r sees.                     *)
PriorsOf(d, r) ==
  {[amount |-> Gross(s), source |-> wire[s].source, at |-> wire[s].at] :
     s \in {x \in Ref : /\ HasPayment(d, x) /\ d.payment[x].unit = wire[r].account
                        /\ wire[x].at >= wire[r].at - Window}}

(* What a handler has read is what the tables still hold.                  *)
Fresh(d, l) ==
  /\ l.pc \in {"charges", "priors", "persist"} => l.credit = d.rollup[wire[l.ref].account].credit
  /\ l.pc \in {"priors", "persist"} => l.snapshot = OpenCharges(d, wire[l.ref].account)
  /\ l.pc = "persist" => l.priors = PriorsOf(d, l.ref)
  /\ l.pc \in {"refund", "resolve"} /\ l.type # "MISDIRECTED" => l.unit = d.payment[l.ref].unit
  /\ l.pc = "bill" => \A u \in l.todo : <<l.bill, u>> \notin DOMAIN d.outstanding

(* A payment into an account is booked to the unit of the account.         *)
Placed(d, r) ==
  wire[r].account # NoUnit =>
    /\ d.exception[r].type # "MISDIRECTED"
    /\ HasPayment(d, r) => d.payment[r].unit = wire[r].account

OneIsHeld(d) ==
  \A r, s \in Ref :
    r # s /\ Copies(r, s) /\ HasPayment(d, r) /\ HasPayment(d, s) =>
      \E x \in {r, s} : d.exception[x].type = "DUPLICATE"

SerialInv ==
  /\ ReviewInv
  /\ SumsOK(db) /\ RowsBalance(db) /\ OneIsHeld(db) /\ \A r \in Ref : Placed(db, r)
  /\ \A h \in Handler : Fresh(db, handler[h]) /\ FreshTx(db, handler[h], tx[h])

(* What a step of the only handler has to leave behind.                    *)
LeavesSums ==
  /\ SumsOK(db') /\ RowsBalance(db') /\ OneIsHeld(db') /\ \A r \in Ref : Placed(db', r)
  /\ \E h \in Handler : \E next : handler' = [handler EXCEPT ![h] = next] /\ Fresh(db', next)

(* The row of a unit that is right shows the balance and the credit.       *)
LEMMA RowShowsSums ==
  ASSUME NEW d, RowsBalance(d), NEW u \in Unit
  PROVE  /\ d.rollup[u].balance = SumOver(d.outstanding, ChargesOf(d, u))
         /\ d.rollup[u].credit = d.added[u] - d.used[u]
<1> DEFINE bal == SumOver(d.outstanding, ChargesOf(d, u))
           cr == d.added[u] - d.used[u]
<1>1. d.rollup[u] = [balance |-> bal, credit |-> cr]
  BY DEF RowsBalance, Balanced, Sums
<1>2. /\ [balance |-> bal, credit |-> cr].balance = bal
      /\ [balance |-> bal, credit |-> cr].credit = cr
  <2> HIDE DEF bal, cr
  <2> QED
    OBVIOUS
<1> QED
  BY <1>1, <1>2

(* A handler without a request has read nothing.                           *)
LEMMA IdleIsFresh == \A d : Fresh(d, Idle)
BY DEF Idle, Fresh

(* A step that reads leaves the sums alone.                                *)
LEMMA ReadingLeavesSums ==
  ASSUME SerialInv, db' = db, NEW h \in Handler, NEW next,
         handler' = [handler EXCEPT ![h] = next], Fresh(db, next)
  PROVE  LeavesSums
BY DEF SerialInv, LeavesSums

(* The steps that write no table leave the sums alone.                     *)
LEMMA ReadingSums ==
  ASSUME SerialInv, NEW h \in Handler,
         \/ \E r \in Ref : IngestDedupe(h, r)
         \/ ReadUnit(h) \/ ReadCharges(h) \/ ReadPriors(h)
         \/ \E r \in Ref : ReverseFind(h, r)
         \/ \E r \in Ref, action \in {p[2] : p \in Offered}, target \in Unit \cup {NoUnit} :
              ResolveRead(h, r, action, target)
         \/ SendRefund(h) \/ Abort(h)
  PROVE  LeavesSums
<1>1. Fresh(db, handler[h])
  BY DEF SerialInv
<1>2. ASSUME NEW r \in Ref, IngestDedupe(h, r) PROVE LeavesSums
  <2> DEFINE next == [pc |-> "account", ref |-> r]
  <2>1. db' = db /\ handler' = [handler EXCEPT ![h] = next] /\ Fresh(db, next)
    BY <1>2 DEF IngestDedupe, Goes, Fresh
  <2> HIDE DEF next
  <2> QED
    BY <2>1, ReadingLeavesSums
<1>3. CASE ReadUnit(h)
  <2> DEFINE r == handler[h].ref
             next == [pc |-> "charges", ref |-> r, credit |-> db.rollup[wire[r].account].credit]
  <2>1. db' = db /\ handler' = [handler EXCEPT ![h] = next] /\ Fresh(db, next)
    BY <1>3 DEF ReadUnit, Goes, Fresh
  <2> HIDE DEF next
  <2> QED
    BY <2>1, ReadingLeavesSums
<1>4. CASE ReadCharges(h)
  <2> DEFINE l == handler[h]
             next == [pc |-> "priors", ref |-> l.ref, credit |-> l.credit,
                      snapshot |-> OpenCharges(db, wire[l.ref].account)]
  <2>1. db' = db /\ handler' = [handler EXCEPT ![h] = next]
    BY <1>4 DEF ReadCharges, Goes
  <2>2. Fresh(db, next)
    BY <1>1, <1>4 DEF ReadCharges, Fresh
  <2> HIDE DEF next
  <2> QED
    BY <2>1, <2>2, ReadingLeavesSums
<1>5. CASE ReadPriors(h)
  <2> DEFINE l == handler[h]
             next == [pc |-> "persist", ref |-> l.ref, credit |-> l.credit,
                      snapshot |-> l.snapshot, priors |-> PriorsOf(db, l.ref)]
  <2>1. db' = db /\ handler' = [handler EXCEPT ![h] = next]
    BY <1>5 DEF ReadPriors, Goes, PriorsOf
  <2>2. Fresh(db, next)
    BY <1>1, <1>5 DEF ReadPriors, Fresh
  <2> HIDE DEF next
  <2> QED
    BY <2>1, <2>2, ReadingLeavesSums
<1>6. ASSUME NEW r \in Ref, ReverseFind(h, r) PROVE LeavesSums
  <2> DEFINE next == [pc |-> "reverse", ref |-> r]
  <2>1. db' = db /\ handler' = [handler EXCEPT ![h] = next] /\ Fresh(db, next)
    BY <1>6 DEF ReverseFind, Goes, Fresh
  <2> HIDE DEF next
  <2> QED
    BY <2>1, ReadingLeavesSums
<1>7. ASSUME NEW r \in Ref, NEW action, NEW target, ResolveRead(h, r, action, target)
      PROVE  LeavesSums
  <2> DEFINE type == db.exception[r].type
             pc == IF type = "OVERPAYMENT" /\ action = "refund" THEN "refund" ELSE "resolve"
             unit == IF type = "MISDIRECTED" THEN target ELSE db.payment[r].unit
             next == [pc |-> pc, ref |-> r, type |-> type, action |-> action, unit |-> unit]
  <2>1. db' = db /\ handler' = [handler EXCEPT ![h] = next]
    BY <1>7 DEF ResolveRead, Goes
  <2>2. pc \in {"refund", "resolve"} /\ (type # "MISDIRECTED" => unit = db.payment[r].unit)
    OBVIOUS
  <2>3. Fresh(db, next)
    <3> HIDE DEF pc, unit, type
    <3> QED
      BY <2>2 DEF Fresh
  <2> HIDE DEF next
  <2> QED
    BY <2>1, <2>3, ReadingLeavesSums
<1>8. CASE SendRefund(h) \/ Abort(h)
  <2>1. CASE handler' = [handler EXCEPT ![h] = Idle] /\ db' = db
    BY <2>1, IdleIsFresh, ReadingLeavesSums
  <2>2. CASE /\ handler[h].pc = "refund" /\ db' = db
             /\ handler' = [handler EXCEPT ![h] = [handler[h] EXCEPT !.pc = "resolve"]]
    <3> DEFINE l == handler[h]
               next == [l EXCEPT !.pc = "resolve"]
    <3>1. l = [pc |-> l.pc, ref |-> l.ref, type |-> l.type, action |-> l.action, unit |-> l.unit]
      BY <2>2, HandlerFacts, MemoryFacts DEF SerialInv, ReviewInv
    <3>2. /\ next.pc = "resolve" /\ next.ref = l.ref /\ next.type = l.type
          /\ next.action = l.action /\ next.unit = l.unit
      BY <3>1
    <3> HIDE DEF next
    <3>3. Fresh(db, next)
      BY <1>1, <2>2, <3>2 DEF Fresh
    <3>4. handler' = [handler EXCEPT ![h] = next]
      BY <2>2 DEF next
    <3> QED
      BY <2>2, <3>3, <3>4, ReadingLeavesSums
  <2> QED
    BY <1>8, <2>1, <2>2 DEF SendRefund, Abort, Goes
<1> QED
  BY <1>2, <1>3, <1>4, <1>5, <1>6, <1>7, <1>8

(* A step on payment r.                                                    *)
LEMMA OthersStayPlaced ==
  ASSUME NEW d, NEW e, NEW r \in Ref, OthersStay(d, e, r), \A s \in Ref : Placed(d, s),
         Placed(e, r)
  PROVE  \A s \in Ref : Placed(e, s)
<1> SUFFICES ASSUME NEW s \in Ref, s # r PROVE Placed(e, s)
  OBVIOUS
<1> QED
  BY DEF OthersStay, SameRows, Placed, HasPayment

(* Being a copy goes both ways.                                            *)
LEMMA CopiesEitherWay ==
  ASSUME wire \in [Ref -> Transfers], NEW r \in Ref, NEW s \in Ref, Copies(r, s)
  PROVE  Copies(s, r)
<1>1. wire[r].at \in Nat /\ wire[s].at \in Nat /\ Window \in Nat
  BY LedgerAssumption DEF TransferType
<1> QED
  BY <1>1 DEF Copies

(* If the new payment is held as a duplicate of any copy that is booked,   *)
(* one of every two copies stays held.                                     *)
LEMMA OneStaysHeld ==
  ASSUME wire \in [Ref -> Transfers], NEW d, NEW e, OneIsHeld(d), Later(d, e), NEW r \in Ref,
         \A s \in Ref \ {r} : HasPayment(e, s) => HasPayment(d, s),
         \/ HasPayment(d, r) \/ ~HasPayment(e, r)
         \/ \A s \in Ref \ {r} : Copies(r, s) /\ HasPayment(d, s) => e.exception[r].type = "DUPLICATE"
  PROVE  OneIsHeld(e)
<1> SUFFICES ASSUME NEW p \in Ref, NEW q \in Ref, p # q, Copies(p, q),
                    HasPayment(e, p), HasPayment(e, q)
             PROVE  \E x \in {p, q} : e.exception[x].type = "DUPLICATE"
  BY DEF OneIsHeld
<1>1. CASE HasPayment(d, p) /\ HasPayment(d, q)
  <2>1. PICK x \in {p, q} : d.exception[x].type = "DUPLICATE"
    BY <1>1 DEF OneIsHeld
  <2>2. e.exception[x].type = "DUPLICATE"
    BY <2>1 DEF Later, NotAnException
  <2> QED
    BY <2>2
<1>2. CASE ~(HasPayment(d, p) /\ HasPayment(d, q))
  <2>1. Copies(q, p)
    BY CopiesEitherWay
  <2> QED
    BY <1>2, <2>1
<1> QED
  BY <1>1, <1>2

(* Booking a misdirected payment keeps the sums.                           *)
LEMMA MisdirectedSums ==
  ASSUME SerialInv, NEW h \in Handler, BookMisdirected(h)
  PROVE  LeavesSums
<1> DEFINE r == handler[h].ref
           D == DOMAIN db.outstanding
<1>1. /\ r \in Ref /\ D \in SUBSET Charge /\ db \in Tables(D)
      /\ SameBooks(db, db') /\ OthersStay(db, db', r)
      /\ db'.payment[r] = [status |-> "EXCEPTION", unit |-> db.payment[r].unit]
  BY BookMisdirectedFacts DEF SerialInv, ReviewInv
<1>2. wire[r].account = NoUnit
  BY DEF BookMisdirected
<1>3. LeavesBooks
  BY BookMisdirectedOK DEF SerialInv, ReviewInv
<1> HIDE DEF r, D
<1>4. SumsOK(db')
  <2>1. \A s \in Ref : db'.payment[s].unit = db.payment[s].unit
    BY <1>1 DEF OthersStay, SameRows
  <2> QED
    BY <1>1, <2>1, SameMoneySums DEF SerialInv, SameBooks
<1>7. RowsBalance(db')
  BY <1>1, SameMoneyBalances DEF SerialInv, SameBooks
<1>5. \A s \in Ref : Placed(db', s)
  BY <1>1, <1>2, OthersStayPlaced DEF SerialInv, Placed
<1>6. OneIsHeld(db')
  <2>1. \A s \in Ref \ {r} : HasPayment(db', s) => HasPayment(db, s)
    BY <1>1 DEF OthersStay, SameRows, HasPayment
  <2>2. \A s \in Ref : ~Copies(r, s)
    BY <1>2 DEF Copies
  <2> QED
    BY <1>1, <1>3, <2>1, <2>2, OneStaysHeld DEF SerialInv, ReviewInv, BooksInv, LeavesBooks
<1> QED
  BY <1>4, <1>5, <1>6, <1>7, IdleIsFresh DEF LeavesSums, BookMisdirected, Goes

(* The check at ingest finds the copy that is booked already.              *)
LEMMA CopyIsFound ==
  ASSUME SerialInv, NEW h \in Handler, Persist(h), NEW s \in Ref,
         Copies(handler[h].ref, s), HasPayment(db, s)
  PROVE  IsDuplicate(IngestInput(handler[h]))
<1> DEFINE l == handler[h]
           r == l.ref
           prior == [amount |-> Gross(s), source |-> wire[s].source, at |-> wire[s].at]
           in == IngestInput(l)
<1>1. /\ wire[r].account = wire[s].account /\ wire[s].account # NoUnit
      /\ wire[r].amount = wire[s].amount /\ wire[r].source = wire[s].source
      /\ (wire[r].at - wire[s].at) \in -Window .. Window
  BY DEF Copies
<1>2. l.priors = PriorsOf(db, r) /\ r \in Ref
  BY PersistFacts DEF SerialInv, ReviewInv, Fresh, Persist
<1>3. wire[r].at \in Nat /\ wire[s].at \in Nat /\ Window \in Nat
  BY <1>2, LedgerAssumption DEF SerialInv, ReviewInv, BooksInv, TransferType
<1>4. db.payment[s].unit = wire[r].account
  BY <1>1 DEF SerialInv, Placed
<1>5. wire[s].at >= wire[r].at - Window
  BY <1>1, <1>3
<1>6. prior \in l.priors
  BY <1>2, <1>4, <1>5 DEF PriorsOf
<1>7. /\ in.priors = l.priors /\ in.amount = wire[r].amount /\ in.source = wire[r].source
      /\ in.at = wire[r].at /\ in.window = Window
  BY DEF IngestInput
<1>8. prior.amount = wire[s].amount /\ prior.source = wire[s].source /\ prior.at = wire[s].at
  BY DEF Gross
<1> HIDE DEF prior, in, l
<1> QED
  BY <1>1, <1>6, <1>7, <1>8 DEF IsDuplicate, in, l

(* Persisting with what is still current keeps the sums and holds a copy.  *)
LEMMA PersistSums ==
  ASSUME SerialInv, NEW h \in Handler, Persist(h)
  PROVE  LeavesSums
<1> DEFINE l == handler[h]
           r == l.ref
           u == wire[r].account
           D == DOMAIN db.outstanding
           sums == tx[h].sums
<1>1. /\ r \in Ref /\ ~HasPayment(db, r) /\ Known(db, clawedBack, r) /\ u \in Unit
      /\ D \in SUBSET Charge /\ db \in Tables(D) /\ MayPersist(db, l)
      /\ sums \in UnitRow /\ db' = Persisted(db, l, sums) /\ Persists(db, l, sums, db')
  BY PersistFacts DEF SerialInv, ReviewInv
<1>2. LeavesBooks
  BY PersistOK DEF SerialInv, ReviewInv
<1>3. Fresh(db, l) /\ l.pc = "persist"
  BY DEF SerialInv, Persist
<1>4. db.credited[r] = 0
  BY <1>1 DEF Known
<1>5. ReadNow(db, l)
  <2>1. db.rollup[u].credit = db.added[u] - db.used[u]
    BY <1>1, RowShowsSums DEF SerialInv
  <2> QED
    BY <1>3, <2>1 DEF Fresh, ReadNow
<1>6. SumsOK(db')
  <2>1. wire \in [Ref -> Transfers] /\ SumsOK(db)
    BY DEF SerialInv, ReviewInv, BooksInv
  <2> QED
    BY <1>1, <1>4, <1>5, <2>1, PersistedSums
<1>9. RowsBalance(db')
  <2>1. sums = Sums(db', u)
    BY <1>1, <1>3 DEF SerialInv, FreshTx, SumsHold, Persist
  <2> QED
    BY <1>1, <2>1 DEF SerialInv, Persists, KeepsRows
<1>7. \A s \in Ref : Placed(db', s)
  <2>1. db'.exception[r].type # "MISDIRECTED"
    BY <1>1 DEF Persists, HeldForReview, SettledAtOnce, Known, NotAnException
  <2> QED
    BY <1>1, <2>1, OthersStayPlaced DEF SerialInv, Placed, Persists
<1>8. OneIsHeld(db')
  <2>1. \A s \in Ref \ {r} : HasPayment(db', s) => HasPayment(db, s)
    BY <1>1 DEF Persists, OthersStay, SameRows, HasPayment
  <2>2. \A s \in Ref \ {r} : Copies(r, s) /\ HasPayment(db, s) => db'.exception[r].type = "DUPLICATE"
    BY <1>1, CopyIsFound DEF Persists
  <2> QED
    BY <1>1, <1>2, <2>1, <2>2, OneStaysHeld DEF SerialInv, ReviewInv, BooksInv, LeavesBooks
<1> QED
  BY <1>6, <1>7, <1>8, <1>9, IdleIsFresh DEF LeavesSums, Persist, Goes

(* A reversal keeps the sums.                                              *)
LEMMA ReversalSums ==
  ASSUME SerialInv, NEW h \in Handler, MarkReversed(h)
  PROVE  LeavesSums
<1> DEFINE r == handler[h].ref
           D == DOMAIN db.outstanding
<1>1. /\ r \in Ref /\ HasPayment(db, r) /\ D \in SUBSET Charge /\ db \in Tables(D)
      /\ SameBooks(db, db') /\ OthersStay(db, db', r)
      /\ db'.payment[r] = [status |-> "REVERSED", unit |-> db.payment[r].unit]
      /\ db.exception[r].type # NotAnException => db'.exception[r] = db.exception[r]
      /\ db.exception[r].type = NotAnException => db'.exception[r].type = "REVERSAL"
  BY MarkReversedFacts DEF SerialInv, ReviewInv
<1>2. LeavesBooks
  BY MarkReversedOK DEF SerialInv, ReviewInv
<1> HIDE DEF r, D
<1>3. db'.payment[r].unit = db.payment[r].unit
  BY <1>1
<1>4. SumsOK(db')
  <2>1. \A s \in Ref : db'.payment[s].unit = db.payment[s].unit
    BY <1>1, <1>3 DEF OthersStay, SameRows
  <2> QED
    BY <1>1, <2>1, SameMoneySums DEF SerialInv, SameBooks
<1>7. RowsBalance(db')
  BY <1>1, SameMoneyBalances DEF SerialInv, SameBooks
<1>5. \A s \in Ref : Placed(db', s)
  <2>1. Placed(db', r)
    BY <1>1, <1>3 DEF SerialInv, Placed
  <2> QED
    BY <1>1, <2>1, OthersStayPlaced DEF SerialInv
<1>6. OneIsHeld(db')
  <2>1. \A s \in Ref \ {r} : HasPayment(db', s) => HasPayment(db, s)
    BY <1>1 DEF OthersStay, SameRows, HasPayment
  <2> QED
    BY <1>1, <1>2, <2>1, OneStaysHeld DEF SerialInv, ReviewInv, BooksInv, LeavesBooks
<1> QED
  BY <1>4, <1>5, <1>6, <1>7, IdleIsFresh DEF LeavesSums, MarkReversed, Goes

(* A resolution keeps the sums.                                            *)
LEMMA ResolutionSums ==
  ASSUME SerialInv, NEW h \in Handler, Resolve(h)
  PROVE  LeavesSums
<1> DEFINE l == handler[h]
           r == l.ref
           D == DOMAIN db.outstanding
           t == tx[h]
           f == Decide(db, l, t)
<1>1. /\ r \in Ref /\ HasPayment(db, r)
      /\ l.type = db.exception[r].type /\ MayDecide(db, l, t)
      /\ D \in SUBSET Charge /\ db \in Tables(D) /\ db' \in Tables(D)
      /\ db' = Resolved(db, l, t) /\ Resolves(db, l, t, db') /\ SameSums(db', f)
  BY ResolveFacts DEF SerialInv, ReviewInv
<1>2. LeavesBooks
  BY ResolveOK DEF SerialInv, ReviewInv
<1>3. Fresh(db, l) /\ FreshTx(db, l, t) /\ l.pc = "resolve"
  BY DEF SerialInv, Resolve
<1>4. l.type = "MISDIRECTED" => db.credited[r] = 0
  <2>1. db.exception[r].open /\ Reviewable(db, r)
    BY <1>1, <1>3 DEF SerialInv, ReviewInv, ReviewsAreOpen, InReview
  <2>2. Total(db, r) \in Nat /\ db.credited[r] \in Nat
    BY <1>1, MoneyFacts DEF SerialInv, ReviewInv
  <2> QED
    BY <1>1, <2>1, <2>2 DEF Reviewable, AppliedIn
<1>5. l.type \in {"OVERPAYMENT", "DUPLICATE", "THIRD_PARTY"} => l.unit = db.payment[r].unit
  BY <1>3 DEF Fresh
<1>6. /\ wire \in [Ref -> Transfers] /\ SumsOK(db) /\ RowsBalance(db)
      /\ \A s \in Ref : Placed(db, s)
  BY DEF SerialInv, ReviewInv, BooksInv
<1>13. Applies(l) => SeesNow(db, t)
  <2> SUFFICES ASSUME Applies(l) PROVE SeesNow(db, t)
    OBVIOUS
  <2>1. t.at = "commit" /\ t.unit \in Unit
    BY <1>1 DEF Resolve, MayDecide, MayApply
  <2>2. t.credit = db.rollup[t.unit].credit /\ t.snapshot = OpenCharges(db, t.unit)
    BY <1>3, <2>1 DEF FreshTx, ReadsHold
  <2> QED
    BY <1>6, <2>1, <2>2, RowShowsSums DEF SeesNow
<1>14. RowsBalance(db')
  <2>1. Recomputes(db, l) => t.sums = Sums(f, l.unit)
    BY <1>3 DEF Resolve, Recomputes, FreshTx, SumsHold
  <2>2. Sums(db', l.unit) = Sums(f, l.unit)
    <3> HIDE DEF f
    <3> QED
      BY <1>1, SumsAgree
  <2> QED
    BY <1>1, <1>6, <2>1, <2>2 DEF Resolves
<1>7. f \in Tables(D) /\ SumsOK(f)
  <2>1. f \in Tables(D)
    BY <1>1, <1>6, DecideFacts
  <2>2. SumsOK(f)
    <3> HIDE DEF l, t, D
    <3> QED
      BY <1>1, <1>4, <1>5, <1>6, <1>13, DecideSums
  <2> QED
    BY <2>1, <2>2
<1>8. db' = [f EXCEPT !.exception = [f.exception EXCEPT ![r].open = FALSE]]
  BY <1>1 DEF Resolved
<1> HIDE DEF f, D
<1>9. /\ db'.outstanding = f.outstanding /\ db'.covered = f.covered /\ db'.paid = f.paid
      /\ db'.used = f.used /\ db'.added = f.added /\ db'.credited = f.credited
      /\ db'.payment = f.payment
  BY <1>7, <1>8 DEF Tables
<1>10. SumsOK(db')
  BY <1>1, <1>7, <1>9, SameMoneySums
<1>11. \A s \in Ref : Placed(db', s)
  <2>1. Placed(db', r)
    <3>1. db'.exception[r].type = l.type
      BY <1>1 DEF Resolves
    <3>2. PICK g : Reviewed(db, l, g) /\ db'.payment = g.payment
      BY <1>1 DEF Resolves
    <3>3. l.type # "MISDIRECTED" => db'.payment[r].unit = db.payment[r].unit
      BY <3>2 DEF Reviewed, SameRows
    <3>4. Placed(db, r)
      BY <1>1, <1>6
    <3> QED
      BY <1>1, <3>1, <3>3, <3>4 DEF Placed
  <2> QED
    BY <1>1, <1>6, <2>1, OthersStayPlaced DEF Resolves
<1>12. OneIsHeld(db')
  <2>1. \A s \in Ref \ {r} : HasPayment(db', s) => HasPayment(db, s)
    BY <1>1 DEF Resolves, OthersStay, SameRows, HasPayment
  <2> QED
    BY <1>1, <1>2, <2>1, OneStaysHeld DEF SerialInv, ReviewInv, BooksInv, LeavesBooks
<1> QED
  BY <1>10, <1>11, <1>12, <1>14, IdleIsFresh DEF LeavesSums, Resolve, Goes

(* Billing keeps the sums.                                                 *)
LEMMA BillingSums ==
  ASSUME SerialInv, NEW h \in Handler,
         (\E b \in Bill, scope \in Scopes : BillStart(h, b, scope)) \/ BillUnit(h)
  PROVE  LeavesSums
<1> DEFINE D == DOMAIN db.outstanding
           l == handler[h]
<1>1. D \in SUBSET Charge /\ db \in Tables(D) /\ TablesOK(db)
  BY TablesOKFacts DEF SerialInv, ReviewInv, BooksInv, TablesOK
<1>2. /\ db'.payment = db.payment /\ db'.exception = db.exception
  BY BillingFacts DEF SerialInv, ReviewInv
<1>3. OneIsHeld(db') /\ \A s \in Ref : Placed(db', s)
  BY <1>2 DEF SerialInv, OneIsHeld, Placed, HasPayment
<1>4. ASSUME NEW b \in Bill, NEW scope \in Scopes, BillStart(h, b, scope) PROVE LeavesSums
  <2> DEFINE next == [pc |-> "bill", bill |-> b, todo |-> scope]
  <2>1. db' = [db EXCEPT !.bills = db.bills \cup {b}] /\ b \notin db.bills
    BY <1>4 DEF BillStart
  <2>2. /\ db'.outstanding = db.outstanding /\ db'.covered = db.covered /\ db'.paid = db.paid
        /\ db'.used = db.used /\ db'.added = db.added /\ db'.credited = db.credited
    BY <1>1, <2>1 DEF Tables
  <2>3. SumsOK(db')
    BY <1>1, <1>2, <2>2, SameMoneySums DEF SerialInv
  <2>7. RowsBalance(db')
    <3>1. db'.rollup = db.rollup
      BY <1>1, <2>1 DEF Tables
    <3> QED
      BY <2>2, <3>1, SameMoneyBalances DEF SerialInv
  <2>4. handler' = [handler EXCEPT ![h] = next]
    BY <1>4 DEF BillStart, Goes
  <2>5. \A u \in scope : <<b, u>> \notin DOMAIN db'.outstanding
    BY <1>1, <2>1, <2>2 DEF TablesOK
  <2>6. Fresh(db', next)
    BY <2>5 DEF Fresh
  <2> HIDE DEF next
  <2> QED
    BY <1>3, <2>3, <2>4, <2>6, <2>7 DEF LeavesSums
<1>5. CASE BillUnit(h)
  <2> DEFINE b == l.bill
             t == tx[h]
             u == t.unit
             E == D \cup {<<b, u>>}
             w == Charged(db, <<b, u>>)
             e == UnitBilled(db, b, t)
             next == IF l.todo = {u} THEN Idle ELSE [l EXCEPT !.todo = @ \ {u}]
  <2>0. l.pc = "bill" /\ t.at = "commit" /\ FreshTx(db, l, t)
    BY <1>5 DEF BillUnit, SerialInv
  <2>1. /\ l.pc = "bill" /\ u \in l.todo /\ b \in Bill /\ u \in Unit /\ MayBill(db, b, t)
        /\ l = [pc |-> "bill", bill |-> l.bill, todo |-> l.todo]
    BY <2>0, BillFacts DEF SerialInv, ReviewInv, FreshTx, ReadsHold
  <2>2. db' = e
    BY <1>5 DEF BillUnit
  <2>3. \A v \in l.todo : <<b, v>> \notin D
    BY <2>1 DEF SerialInv, Fresh
  <2>4. SeesNow(w, t)
    <3>1. t.credit = db.rollup[u].credit /\ t.snapshot = OpenCharges(w, u)
      BY <2>0 DEF FreshTx, ReadsHold
    <3>2. db.rollup[u].credit = db.added[u] - db.used[u]
      BY <2>1, RowShowsSums DEF SerialInv
    <3>3. w.added = db.added /\ w.used = db.used
      <4> HIDE DEF u, b, D
      <4> QED
        BY <1>1, ChargedDomain
    <3> QED
      BY <3>1, <3>2, <3>3 DEF SeesNow
  <2>5. SumsOK(db) /\ <<b, u>> \notin D
    BY <2>1, <2>3 DEF SerialInv
  <2>6. SumsOK(e) /\ e \in Tables(E)
    <3>1. Bills(D, db, b, t, e)
      BY <1>1, <2>1, BillUnitFacts
    <3>2. SumsOK(e)
      <4> HIDE DEF D, b, t
      <4> QED
        BY <1>1, <2>1, <2>4, <2>5, BillUnitSums
    <3> QED
      BY <3>1, <3>2 DEF Bills
  <2>10. RowsBalance(e)
    <3>1. BillsCredit(db, b, t, e)
      BY <1>1, <2>1, BillUnitFacts
    <3>2. KeepsRows(db, e, u, t.sums)
      BY <2>4, <3>1 DEF BillsCredit, SeesNow
    <3>3. t.sums = Sums(e, u)
      BY <2>0 DEF FreshTx, SumsHold
    <3> QED
      BY <3>2, <3>3 DEF SerialInv, KeepsRows
  <2>7. DOMAIN e.outstanding = E
    BY <2>6 DEF Tables
  <2>8. handler' = [handler EXCEPT ![h] = next]
    BY <1>5 DEF BillUnit, Goes
  <2>9. Fresh(e, next)
    <3>1. CASE l.todo = {u}
      BY <3>1, IdleIsFresh
    <3>2. CASE l.todo # {u}
      <4>1. next.pc = "bill" /\ next.bill = b /\ next.todo = l.todo \ {u}
        BY <2>1, <3>2
      <4>2. \A v \in l.todo \ {u} : <<b, v>> \notin E
        BY <2>3
      <4> HIDE DEF next, e, E
      <4> QED
        BY <2>7, <4>1, <4>2 DEF Fresh
    <3> QED
      BY <3>1, <3>2
  <2> HIDE DEF e, next
  <2> QED
    BY <1>3, <2>2, <2>6, <2>8, <2>9, <2>10 DEF LeavesSums
<1> QED
  BY <1>4, <1>5
-----------------------------------------------------------------------------

(* What is fresh does not depend on the step that is taken.                *)
LEMMA FreshStays ==
  ASSUME wire' = wire, NEW d, NEW l, NEW t
  PROVE  Fresh(d, l)' = Fresh(d, l) /\ FreshTx(d, l, t)' = FreshTx(d, l, t)
<1>1. IngestResult(l)' = IngestResult(l)
  BY DEF IngestResult
<1>2. Persisted(d, l, t.sums)' = Persisted(d, l, t.sums)
  BY <1>1 DEF Persisted, MapStatus
<1>3. \A r : Gross(r)' = Gross(r) /\ Attribution(r, t)' = Attribution(r, t)
  BY DEF Gross, Attribution, AttributionThreshold
<1>4. \A x, r : ApplyPaymentToUnit(x, r, t)' = ApplyPaymentToUnit(x, r, t)
  BY <1>3 DEF ApplyPaymentToUnit
<1>5. Surplus(d, l.ref)' = Surplus(d, l.ref)
  BY <1>3 DEF Surplus
<1>6. Decide(d, l, t)' = Decide(d, l, t)
  BY <1>4, <1>5 DEF Decide, MakesCredit
<1>7. FreshTx(d, l, t)' = FreshTx(d, l, t)
  BY <1>2, <1>6 DEF FreshTx, ReadsHold, SumsHold
<1>8. Fresh(d, l)' = Fresh(d, l)
  BY DEF Fresh, PriorsOf, Gross
<1> QED
  BY <1>7, <1>8

(* The only handler never acts on what has changed, so no step breaks the  *)
(* invariant.                                                              *)
LEMMA SerialNext ==
  ASSUME OneHandler, SerialInv, [Next]_vars PROVE SerialInv'
<1>1. OneManager
  <2>1. Manager \subseteq Handler
    BY LedgerAssumption
  <2> QED
    BY <2>1 DEF OneHandler, OneManager
<1>2. ReviewInv'
  BY <1>1, ReviewNext DEF SerialInv
<1>3. ASSUME wire' = wire, SumsOK(db'), RowsBalance(db'), OneIsHeld(db'),
             \A r \in Ref : Placed(db', r),
             \A h \in Handler : Fresh(db', handler'[h]) /\ FreshTx(db', handler'[h], tx'[h])
      PROVE  SerialInv'
  <2>1. SumsOK(db)' /\ RowsBalance(db)'
    BY <1>3
  <2>2. OneIsHeld(db)' /\ (\A r \in Ref : Placed(db, r))'
    BY <1>3 DEF OneIsHeld, Placed, Copies
  <2>3. ASSUME NEW h \in Handler PROVE Fresh(db, handler[h])' /\ FreshTx(db, handler[h], tx[h])'
    BY <1>3, FreshStays
  <2> QED
    BY <1>2, <2>1, <2>2, <2>3 DEF SerialInv
<1>4. CASE UNCHANGED vars
  <2>1. wire' = wire /\ db' = db /\ handler' = handler /\ tx' = tx
    BY <1>4 DEF vars
  <2>2. /\ SumsOK(db') /\ RowsBalance(db') /\ OneIsHeld(db') /\ \A r \in Ref : Placed(db', r)
        /\ \A h \in Handler : Fresh(db', handler'[h]) /\ FreshTx(db', handler'[h], tx'[h])
    BY <2>1 DEF SerialInv
  <2> QED
    BY <1>3, <2>1, <2>2
<1>5. CASE Next
  <2>1. PICK h \in Handler : InTransaction(h) \/ OtherStep(h)
    BY <1>5, NextSteps
  <2>2. \A g \in Handler : g = h
    BY DEF OneHandler
  <2>3. CASE InTransaction(h)
    <3>1. StatementServes(h)
      BY <2>3, PersistWriteServes, ResolutionServes, BillingServes
         DEF InTransaction, SerialInv, ReviewInv
    <3>2. PICK t : SetTx(h, t) /\ (FreshTx(db, handler[h], tx[h]) => FreshTx(db, handler[h], t))
      BY <3>1 DEF StatementServes
    <3>3. wire' = wire /\ db' = db /\ handler' = handler
      BY <2>3, InTransactionIsQuiet DEF InTx
    <3>4. tx'[h] = t
      BY <3>2 DEF SetTx, SerialInv, ReviewInv, BooksInv, TransactionsOK
    <3>5. /\ SumsOK(db') /\ RowsBalance(db') /\ OneIsHeld(db') /\ \A r \in Ref : Placed(db', r)
          /\ \A g \in Handler : Fresh(db', handler'[g]) /\ FreshTx(db', handler'[g], tx'[g])
      BY <2>2, <3>2, <3>3, <3>4 DEF SerialInv
    <3> QED
      BY <1>3, <3>3, <3>5
  <2>4. CASE OtherStep(h)
    <3>1. LeavesSums
      BY <2>4, ReadingSums, MisdirectedSums, PersistSums, ReversalSums, ResolutionSums,
         BillingSums DEF OtherStep
    <3>2. wire' = wire
      BY <2>4, OtherStepKeepsWire
    <3>3. PICK k \in Handler :
            \E next : handler' = [handler EXCEPT ![k] = next] /\ Fresh(db', next)
      BY <3>1 DEF LeavesSums
    <3>4. PICK next : handler' = [handler EXCEPT ![k] = next] /\ Fresh(db', next)
      BY <3>3
    <3>5. \A g \in Handler : Fresh(db', handler'[g])
      BY <3>4 DEF OneHandler, SerialInv, ReviewInv, BooksInv, HandlersOK
    <3>6. tx'[h].at = "none"
      BY <2>4, OtherStepEndsQuietly, NoTxServes
         DEF EndsQuietly, SerialInv, ReviewInv, BooksInv, TransactionsOK
    <3>7. \A g \in Handler : FreshTx(db', handler'[g], tx'[g])
      BY <2>2, <3>6 DEF FreshTx, ReadsHold, SumsHold
    <3>8. /\ SumsOK(db') /\ RowsBalance(db') /\ OneIsHeld(db')
          /\ \A r \in Ref : Placed(db', r)
      BY <3>1 DEF LeavesSums
    <3> QED
      BY <1>3, <3>2, <3>5, <3>7, <3>8
  <2> QED
    BY <2>1, <2>3, <2>4
<1> QED
  BY <1>4, <1>5

(* The empty tables satisfy it.                                            *)
LEMMA SerialInit ==
  ASSUME Init PROVE SerialInv
<1>1. ReviewInv
  BY ReviewInit
<1>2. /\ EmptyDb.outstanding = << >> /\ DOMAIN << >> = {}
      /\ EmptyDb.paid = [r \in Ref |-> [c \in Charge |-> 0]]
      /\ EmptyDb.covered = [c \in Charge |-> 0] /\ EmptyDb.credited = [r \in Ref |-> 0]
      /\ EmptyDb.added = [u \in Unit |-> 0] /\ EmptyDb.used = [u \in Unit |-> 0]
      /\ EmptyDb.payment = [r \in Ref |-> [status |-> "NONE", unit |-> NoUnit]]
      /\ EmptyDb.exception = [r \in Ref |-> [type |-> NotAnException, open |-> FALSE]]
  BY DEF EmptyDb
<1> HIDE DEF EmptyDb
<1>3. ASSUME NEW c \in Charge PROVE ChargeOK(EmptyDb, c)
  BY <1>2 DEF ChargeOK
<1>4. ASSUME NEW u \in Unit PROVE CreditOK(EmptyDb, u)
  <2>1. \A c \in Charge : CoveredIn(EmptyDb, u)[c] = 0
    BY <1>2 DEF CoveredIn
  <2>2. \A r \in Ref : CreditedTo(EmptyDb, u)[r] = 0
    BY <1>2 DEF CreditedTo
  <2>3. SumOver(CoveredIn(EmptyDb, u), Charge) = 0 /\ SumOver(CreditedTo(EmptyDb, u), Ref) = 0
    BY <2>1, <2>2, SumZero, ChargesAreFinite, LedgerAssumption
  <2> QED
    BY <1>2, <2>3 DEF CreditOK
<1>5. \A r \in Ref : ~HasPayment(EmptyDb, r) /\ EmptyDb.exception[r].type = NotAnException
  BY <1>2 DEF HasPayment
<1>6. OneIsHeld(EmptyDb) /\ \A r \in Ref : Placed(EmptyDb, r)
  BY <1>5 DEF OneIsHeld, Placed, NotAnException
<1>7. \A h \in Handler : Fresh(db, handler[h]) /\ FreshTx(db, handler[h], tx[h])
  BY IdleIsFresh, NoTxServes DEF Init, FreshTx, ReadsHold, SumsHold
<1>8. RowsBalance(EmptyDb)
  <2> SUFFICES ASSUME NEW u \in Unit PROVE Balanced(EmptyDb, u)
    BY DEF RowsBalance
  <2>1. ChargesOf(EmptyDb, u) = {}
    BY <1>2 DEF ChargesOf
  <2>2. SumOver(EmptyDb.outstanding, {}) = 0
    BY SumEmpty
  <2>3. EmptyDb.rollup[u] = [balance |-> 0, credit |-> 0]
        /\ EmptyDb.added[u] = 0 /\ EmptyDb.used[u] = 0
    BY EmptyRows
  <2> QED
    BY <2>1, <2>2, <2>3 DEF Balanced, Sums
<1> QED
  BY <1>1, <1>3, <1>4, <1>6, <1>7, <1>8 DEF Init, SerialInv, SumsOK

(* The inductive invariant of one handler at a time: the sums over the     *)
(* payments agree with the charges and the credit of every unit, each unit *)
(* row with the sums of its charges and its credit, one of any two copies  *)
(* of a transfer is held, and what the handler and its transaction have    *)
(* read and summed is what the tables still hold. The last part is what a  *)
(* second handler takes away.                                              *)
THEOREM SerialInvariant == OneHandler => (Spec => []SerialInv)
<1> SUFFICES ASSUME OneHandler PROVE Spec => []SerialInv
  OBVIOUS
<1>1. Init => SerialInv
  BY SerialInit
<1>2. SerialInv /\ [Next]_vars => SerialInv'
  BY SerialNext
<1> QED
  BY <1>1, <1>2, PTL DEF Spec

(* The sums are what the runs check.                                       *)
LEMMA SumsImply ==
  ASSUME BooksInv, SumsOK(db) PROVE ChargesBalance /\ CreditBalances
<1> DEFINE D == DOMAIN db.outstanding
<1>1. D \in SUBSET Charge /\ db \in Tables(D)
  BY TablesOKFacts DEF BooksInv, TablesOK
<1>2. /\ db.covered \in [Charge -> Int] /\ db.credited \in [Ref -> Nat]
  BY <1>1 DEF Tables
<1>3. ChargesBalance
  BY <1>1 DEF ChargesBalance, SumsOK, ChargeOK, PaidTo
<1>4. ASSUME NEW u \in Unit
      PROVE  /\ SumOver(CoveredIn(db, u), Charge) = SumOver(db.covered, {c \in Charge : c[2] = u})
             /\ SumOver(CreditedTo(db, u), Ref)
                  = SumOver(db.credited, {r \in Ref : db.payment[r].unit = u})
  <2>1. Numbers(CoveredIn(db, u), Charge) /\ Numbers(CreditedTo(db, u), Ref)
    BY <1>1, SumTypes
  <2> DEFINE C == {c \in Charge : c[2] = u}
             R == {r \in Ref : db.payment[r].unit = u}
             f == CoveredIn(db, u)
             g == CreditedTo(db, u)
  <2>2. /\ C \in SUBSET Charge /\ (\A c \in C : f[c] = db.covered[c])
        /\ \A c \in Charge \ C : f[c] = 0
    BY DEF CoveredIn
  <2>3. /\ R \in SUBSET Ref /\ (\A r \in R : g[r] = db.credited[r])
        /\ \A r \in Ref \ R : g[r] = 0
    BY DEF CreditedTo
  <2> HIDE DEF C, R, f, g
  <2>4. IsFiniteSet(Charge) /\ IsFiniteSet(Ref) /\ IsFiniteSet(C) /\ IsFiniteSet(R)
    BY <2>2, <2>3, ChargesAreFinite, LedgerAssumption, FS_Subset
  <2>5. SumOver(f, Charge) = SumOver(f, C) /\ SumOver(g, Ref) = SumOver(g, R)
    BY <2>1, <2>2, <2>3, <2>4, SumWithin DEF f, g
  <2>6. Numbers(db.covered, C) /\ Numbers(db.credited, R)
    BY <1>2, <2>2, <2>3 DEF Numbers
  <2>7. SumOver(f, C) = SumOver(db.covered, C) /\ SumOver(g, R) = SumOver(db.credited, R)
    BY <2>2, <2>3, <2>4, <2>6, SumCongruence
  <2> QED
    BY <2>5, <2>7 DEF C, R, f, g
<1>5. CreditBalances
  BY <1>4 DEF CreditBalances, SumsOK, CreditOK
<1> QED
  BY <1>3, <1>5

(* With one handler at a time, what a charge still owes is always its bill *)
(* less what the payments and the credit have paid of it. Two handlers can *)
(* lose an update here: ingest computes from charges it read in an earlier *)
(* transaction.                                                            *)
THEOREM ChargesAlwaysBalance == OneHandler => (Spec => []ChargesBalance)
<1>1. SerialInv => ChargesBalance
  BY SumsImply DEF SerialInv, ReviewInv
<1> QED
  BY <1>1, SerialInvariant, PTL

(* With one handler at a time, the credit added to a unit is always what   *)
(* its payments turned into credit, and the credit used is what its        *)
(* charges were covered with.                                              *)
THEOREM CreditAlwaysBalances == OneHandler => (Spec => []CreditBalances)
<1>1. SerialInv => CreditBalances
  BY SumsImply DEF SerialInv, ReviewInv
<1> QED
  BY <1>1, SerialInvariant, PTL

(* With one handler at a time, a unit row shows the sums of the unit's     *)
(* charges and credit entries after every transaction. With two, sums that *)
(* were taken before the other has committed can be what is written.       *)
THEOREM RollupsAlwaysBalance == OneHandler => (Spec => []RollupsBalance)
<1>1. SerialInv => RollupsBalance
  BY DEF SerialInv, RowsBalance, Balanced, RollupsBalance
<1> QED
  BY <1>1, SerialInvariant, PTL

(* With one handler at a time, of two transfers with the same sender,      *)
(* amount and account inside the duplicate window, one is held for review  *)
(* as soon as both are booked.                                             *)
THEOREM CopiesAreAlwaysHeld == OneHandler => (Spec => []CopiesAreHeld)
<1>1. SerialInv => CopiesAreHeld
  BY DEF SerialInv, OneIsHeld, CopiesAreHeld
<1> QED
  BY <1>1, SerialInvariant, PTL
-----------------------------------------------------------------------------
(* A payment has paid charges of its own unit only, and one without a unit *)
(* is held or reversed.                                                    *)
PaidAtHome(d, r) == \A c \in Charge : d.paid[r][c] # 0 => d.payment[r].unit = c[2]

Housed(d, r) ==
  d.payment[r].unit = NoUnit => d.payment[r].status \in {"NONE", "EXCEPTION", "REVERSED"}

Homes(d) == \A r \in Ref : PaidAtHome(d, r) /\ Housed(d, r)

(* A payment that has paid nothing has paid no charge.                     *)
LEMMA NothingPaid ==
  ASSUME NEW D \in SUBSET Charge, NEW d \in Tables(D), NEW r \in Ref, Total(d, r) = 0
  PROVE  \A c \in Charge : d.paid[r][c] = 0
<1> SUFFICES ASSUME NEW c \in Charge PROVE d.paid[r][c] = 0
  OBVIOUS
<1> DEFINE f == d.paid[r]
<1>1. f \in [Charge -> Nat]
  BY DEF Tables
<1>2. SumOver(f, Charge) = 0
  BY DEF Total
<1> HIDE DEF f
<1>3. Numbers(f, Charge) /\ \A x \in Charge \ {c} : f[x] \in Nat
  BY <1>1 DEF Numbers
<1>4. SumOver(f, Charge) = f[c] + SumOver(f, Charge \ {c})
  BY <1>3, ChargesAreFinite, SumRemove
<1>5. SumOver(f, Charge \ {c}) \in Nat
  BY <1>3, ChargesAreFinite, SumNat
<1>6. f[c] \in Nat
  BY <1>1
<1>7. f[c] = 0
  BY <1>2, <1>4, <1>5, <1>6
<1> QED
  BY <1>7 DEF f

(* A step on one payment leaves the others at home.                        *)
LEMMA OthersStayHome ==
  ASSUME NEW d, NEW e, NEW r \in Ref, OthersStay(d, e, r), Homes(d), PaidAtHome(e, r), Housed(e, r)
  PROVE  Homes(e)
BY DEF Homes, PaidAtHome, Housed, OthersStay, SameRows

(* What reconcile hands out for charges of a unit pays charges of the unit.*)
LEMMA EffectsAtHome ==
  ASSUME NEW d, NEW e, NEW r \in Ref, NEW u \in Unit, NEW result, NEW snapshot, NEW sums,
         DOMAIN snapshot \subseteq ChargesOf(d, u), Effects(d, r, u, result, snapshot, sums, e),
         d.payment[r].unit = u, PaidAtHome(d, r)
  PROVE  PaidAtHome(e, r) /\ e.payment[r].unit = u
<1> SUFFICES ASSUME NEW c \in Charge, e.paid[r][c] # 0 PROVE c[2] = u
  BY DEF PaidAtHome, Effects
<1>1. CASE c \in Touched(result, snapshot)
  BY <1>1 DEF Touched, ChargesOf
<1>2. CASE c \notin Touched(result, snapshot)
  BY <1>2 DEF Effects, PaidAtHome
<1> QED
  BY <1>1, <1>2

(* So does applyPaymentToUnit.                                             *)
LEMMA AttributionAtHome ==
  ASSUME NEW D \in SUBSET Charge, NEW d \in Tables(D), NEW r \in Ref, NEW t, MayApply(d, t),
         wire \in [Ref -> Transfers], d.payment[r].unit = t.unit, PaidAtHome(d, r)
  PROVE  PaidAtHome(ApplyPaymentToUnit(d, r, t), r)
<1> DEFINE in == AttributionInput(r, t)
           u == t.unit
           open == t.snapshot
           sums == t.sums
           result == Reconcile(in)
           f == ApplyReconEffects(d, r, u, result, open, sums)
           e == ApplyPaymentToUnit(d, r, t)
<1>1. wire[r].amount \in Nat
  BY LedgerAssumption DEF TransferType
<1>2. u \in Unit /\ t.credit \in Int /\ sums \in UnitRow /\ d.payment[r].unit = u
  BY DEF MayApply
<1>3. UsesSnapshot(in, open)
  BY <1>1, <1>2 DEF UsesSnapshot, AttributionInput, Gross, AttributionThreshold
<1>4. PICK S \in SUBSET ChargesOf(d, u) : open \in [S -> Int]
  BY DEF MayApply
<1>5. e = [f EXCEPT !.payment[r].status = result.status]
  BY DEF ApplyPaymentToUnit, Attribution, AttributionInput
<1>6. e \in Tables(D) /\ Attributes(d, r, t, e)
  BY ApplyPaymentToUnitFacts
<1> HIDE DEF in, e, u, open, sums
<1>7. f \in Tables(D) /\ Effects(d, r, u, result, open, sums, f)
  BY <1>2, <1>3, <1>4, MoneyGoesSomewhere
<1> HIDE DEF f, result
<1>8. PaidAtHome(f, r) /\ f.payment[r].unit = u
  BY <1>2, <1>4, <1>7, EffectsAtHome
<1>9. e.paid = f.paid
  <2>1. e = [f EXCEPT !.payment = [f.payment EXCEPT ![r].status = result.status]]
    BY <1>5
  <2> QED
    BY <1>7, <2>1 DEF Tables
<1>10. e.payment[r].unit = u
  BY <1>2, <1>6 DEF Attributes
<1> QED
  BY <1>8, <1>9, <1>10 DEF e, PaidAtHome

(* So does ingest.                                                         *)
LEMMA PersistedAtHome ==
  ASSUME NEW D \in SUBSET Charge, NEW d \in Tables(D), NEW l, MayPersist(d, l), NEW sums \in UnitRow,
         wire \in [Ref -> Transfers], \A c \in Charge : d.paid[l.ref][c] = 0
  PROVE  PaidAtHome(Persisted(d, l, sums), l.ref)
<1> DEFINE r == l.ref
           u == wire[r].account
           S == DOMAIN l.snapshot
           in == IngestInput(l)
           result == IngestResult(l)
           row == [status |-> MapStatus(r, result), unit |-> u]
           b == Booked(d, l)
           f == BookedWithEffects(d, l, sums)
           e == Persisted(d, l, sums)
<1>1. r \in Ref /\ u \in Unit
  BY DEF MayPersist
<1>2. /\ S \subseteq ChargesOf(d, u) /\ l.snapshot \in [S -> Int] /\ IsResult(result, S)
  BY IngestResultFacts
<1>3. f = ApplyReconEffects(b, r, u, result, l.snapshot, sums)
  BY DEF BookedWithEffects
<1>4. b = [d EXCEPT !.payment[r] = row]
  BY DEF Booked
<1>5. e = IF IsException(result)
          THEN [f EXCEPT !.exception[r] = [type |-> result.exceptionType, open |-> TRUE]] ELSE f
  BY DEF Persisted, BookedWithEffects, Booked
<1> HIDE DEF in, f, e, result, b, S
<1>6. row \in [status : PaymentStatus, unit : Unit \cup {NoUnit}] /\ row.unit = u
  BY <1>1, <1>2 DEF MapStatus, IsResult, ResultOK, PaymentStatus
<1>7. b \in Tables(D) /\ b.payment[r] = row /\ b.outstanding = d.outstanding /\ b.paid = d.paid
  <2> HIDE DEF row
  <2> QED
    BY <1>1, <1>4, <1>6, BookedFacts
<1> HIDE DEF row, u
<1>8. S \subseteq ChargesOf(b, u)
  BY <1>2, <1>7 DEF ChargesOf
<1>9. f \in Tables(D) /\ Effects(b, r, u, result, l.snapshot, sums, f)
  BY <1>1, <1>2, <1>3, <1>7, <1>8, ApplyReconEffectsFacts
<1>10. PaidAtHome(b, r) /\ b.payment[r].unit = u
  BY <1>6, <1>7 DEF PaidAtHome
<1>11. PaidAtHome(f, r)
  BY <1>1, <1>2, <1>8, <1>9, <1>10, EffectsAtHome DEF S
<1>12. e.paid = f.paid /\ e.payment = f.payment
  BY <1>5, <1>9 DEF Tables
<1> QED
  BY <1>11, <1>12 DEF e, PaidAtHome

(* So does the decision of a manager.                                      *)
LEMMA DecideAtHome ==
  ASSUME NEW D \in SUBSET Charge, NEW d \in Tables(D), NEW l, NEW t, MayDecide(d, l, t),
         wire \in [Ref -> Transfers], PaidAtHome(d, l.ref),
         l.type = "MISDIRECTED" => \A c \in Charge : d.paid[l.ref][c] = 0,
         l.type \in {"DUPLICATE", "THIRD_PARTY"} => l.unit = d.payment[l.ref].unit
  PROVE  PaidAtHome(Decide(d, l, t), l.ref)
<1> DEFINE r == l.ref
           u == l.unit
           e == Decide(d, l, t)
           Rows == [status : PaymentStatus, unit : Unit \cup {NoUnit}]
<1>1. r \in Ref /\ l.type \in ExceptionType \ {NotAnException} /\ (l.type # "REVERSAL" => u \in Unit)
      /\ (Applies(l) => t.unit = u /\ MayApply(d, t))
  BY DEF MayDecide
<1>2. d.payment \in [Ref -> Rows]
  BY DEF Tables
<1>3. e \in Tables(D) /\ Decides(d, l, t, e) /\ Reviewed(d, l, e)
  BY DecideFacts DEF Decides
<1>4. CASE l.type = "OVERPAYMENT" \/ (l.type = "THIRD_PARTY" /\ l.action = "refund")
  <2>1. e.payment[r].unit = d.payment[r].unit /\ e.paid[r] = d.paid[r]
    BY <1>3, <1>4 DEF Reviewed
  <2> QED
    BY <2>1 DEF PaidAtHome
<1>5. CASE l.type = "REVERSAL" \/ (l.type = "DUPLICATE" /\ l.action # "duplicate-keep")
  <2>1. e = d
    BY <1>5 DEF Decide
  <2> QED
    BY <2>1
<1>6. CASE \/ l.type = "DUPLICATE" /\ l.action = "duplicate-keep"
           \/ l.type = "THIRD_PARTY" /\ l.action # "refund"
  <2>1. e = ApplyPaymentToUnit(d, r, t)
    BY <1>6 DEF Decide
  <2>2. d.payment[r].unit = t.unit /\ MayApply(d, t)
    BY <1>1, <1>6 DEF Applies
  <2> QED
    BY <1>1, <2>1, <2>2, AttributionAtHome
<1>7. CASE l.type = "MISDIRECTED"
  <2> DEFINE row == [status |-> d.payment[r].status, unit |-> u]
             b == [d EXCEPT !.payment[r] = row]
  <2>1. u \in Unit /\ row \in Rows /\ row.unit = u
    BY <1>1, <1>2, <1>7
  <2>7. t.unit = u /\ MayApply(d, t)
    BY <1>1, <1>7 DEF Applies
  <2>2. b = [d EXCEPT !.payment[r].unit = t.unit]
    <3>1. [d.payment EXCEPT ![r].unit = u] = [d.payment EXCEPT ![r] = row]
      BY <1>1, <1>2
    <3> QED
      BY <2>7, <3>1
  <2>3. e = ApplyPaymentToUnit(b, r, t)
    BY <1>7, <2>2 DEF Decide
  <2>4. /\ b \in Tables(D) /\ b.payment[r] = row /\ b.paid = d.paid
        /\ b.outstanding = d.outstanding
    <3> HIDE DEF row
    <3> QED
      BY <1>1, <2>1, BookedFacts
  <2> HIDE DEF b
  <2>5. b.payment[r].unit = t.unit
    BY <2>1, <2>4, <2>7
  <2>8. MayApply(b, t)
    BY <2>4, <2>7 DEF MayApply, ChargesOf
  <2> HIDE DEF row
  <2>6. PaidAtHome(b, r)
    BY <1>7, <2>4 DEF PaidAtHome
  <2> QED
    BY <1>1, <2>3, <2>4, <2>5, <2>6, <2>8, AttributionAtHome
<1> QED
  BY <1>1, <1>4, <1>5, <1>6, <1>7 DEF ExceptionType, NotAnException

(* The strengthening of SerialInv that sums over units need.               *)
HomesInv == SerialInv /\ Homes(db)

(* Reversals and resolutions leave payments at home.                       *)
LEMMA ResolutionAtHome ==
  ASSUME HomesInv, NEW h \in Handler, Resolve(h)
  PROVE  Homes(db')
<1> DEFINE l == handler[h]
           r == l.ref
           D == DOMAIN db.outstanding
           t == tx[h]
           f == Decide(db, l, t)
<1>1. /\ r \in Ref /\ HasPayment(db, r) /\ Known(db, clawedBack, r)
      /\ l.type = db.exception[r].type /\ MayDecide(db, l, t)
      /\ D \in SUBSET Charge /\ db \in Tables(D) /\ db' \in Tables(D)
      /\ db' = Resolved(db, l, t) /\ Resolves(db, l, t, db')
      /\ l.type \in ExceptionType \ {NotAnException} /\ (l.type # "REVERSAL" => l.unit \in Unit)
  BY ResolveFacts DEF HomesInv, SerialInv, ReviewInv
<1>2. Fresh(db, l) /\ l.pc = "resolve"
  BY DEF HomesInv, SerialInv, Resolve
<1>3. l.type = "MISDIRECTED" => \A c \in Charge : db.paid[r][c] = 0
  <2>1. db.exception[r].open /\ Reviewable(db, r)
    BY <1>1, <1>2 DEF HomesInv, SerialInv, ReviewInv, ReviewsAreOpen, InReview
  <2>2. Total(db, r) \in Nat /\ db.credited[r] \in Nat
    BY <1>1, MoneyFacts DEF HomesInv, SerialInv, ReviewInv
  <2>3. l.type = "MISDIRECTED" => Total(db, r) = 0
    BY <1>1, <2>1, <2>2 DEF Reviewable, AppliedIn
  <2> QED
    BY <1>1, <2>3, NothingPaid
<1>4. l.type \in {"DUPLICATE", "THIRD_PARTY"} => l.unit = db.payment[r].unit
  BY <1>2 DEF Fresh
<1>5. wire \in [Ref -> Transfers] /\ PaidAtHome(db, r) /\ Housed(db, r)
  BY <1>1 DEF HomesInv, Homes, SerialInv, ReviewInv, BooksInv
<1>6. f \in Tables(D) /\ PaidAtHome(f, r)
  BY <1>1, <1>3, <1>4, <1>5, DecideFacts, DecideAtHome
<1>7. db' = [f EXCEPT !.exception = [f.exception EXCEPT ![r].open = FALSE]]
  BY <1>1 DEF Resolved
<1> HIDE DEF f, D, t
<1>8. db'.paid = f.paid /\ db'.payment = f.payment
  BY <1>6, <1>7 DEF Tables
<1>9. PaidAtHome(db', r)
  BY <1>6, <1>8 DEF PaidAtHome
<1>10. Housed(db', r)
  <2>1. PICK g : Reviewed(db, l, g) /\ db'.payment = g.payment
    BY <1>1 DEF Resolves
  <2>2. NoUnit \notin Unit
    BY LedgerAssumption
  <2>3. CASE \/ l.type = "OVERPAYMENT" \/ l.type = "REVERSAL"
             \/ l.type = "DUPLICATE" /\ l.action # "duplicate-keep"
             \/ l.type = "THIRD_PARTY" /\ l.action = "refund"
    BY <1>1, <1>5, <2>1, <2>2, <2>3 DEF Reviewed, SameRows, Housed, Known
  <2>4. CASE \/ l.type = "DUPLICATE" /\ l.action = "duplicate-keep"
             \/ l.type = "THIRD_PARTY" /\ l.action # "refund"
             \/ l.type = "MISDIRECTED"
    <3>1. db'.payment[r].unit = IF l.type = "MISDIRECTED" THEN l.unit ELSE db.payment[r].unit
      BY <2>1, <2>4 DEF Reviewed
    <3>2. db'.payment[r].unit \in Unit
      BY <1>1, <1>4, <2>4, <3>1
    <3> QED
      BY <2>2, <3>2 DEF Housed
  <2> QED
    BY <1>1, <2>3, <2>4 DEF ExceptionType, NotAnException
<1> QED
  BY <1>1, <1>9, <1>10, OthersStayHome DEF HomesInv, Resolves

(* Every step does.                                                        *)
LEMMA HomesNext ==
  ASSUME OneHandler, HomesInv, [Next]_vars PROVE HomesInv'
<1>1. SerialInv'
  BY SerialNext DEF HomesInv
<1>2. BooksInv
  BY DEF HomesInv, SerialInv, ReviewInv
<1>3. CASE db' = db
  BY <1>1, <1>3 DEF HomesInv
<1>4. ASSUME NEW h \in Handler, BookMisdirected(h) PROVE Homes(db')
  <2> DEFINE r == handler[h].ref
  <2>1. /\ r \in Ref /\ ~HasPayment(db, r) /\ SameBooks(db, db') /\ OthersStay(db, db', r)
        /\ db'.payment[r] = [status |-> "EXCEPTION", unit |-> db.payment[r].unit]
    BY <1>2, <1>4, BookMisdirectedFacts
  <2> HIDE DEF r
  <2>2. PaidAtHome(db', r) /\ Housed(db', r)
    BY <2>1 DEF PaidAtHome, Housed, SameBooks, HomesInv, Homes
  <2> QED
    BY <2>1, <2>2, OthersStayHome DEF HomesInv
<1>5. ASSUME NEW h \in Handler, Persist(h) PROVE Homes(db')
  <2> DEFINE l == handler[h]
             r == l.ref
             D == DOMAIN db.outstanding
             sums == tx[h].sums
  <2>1. /\ r \in Ref /\ ~HasPayment(db, r) /\ Known(db, clawedBack, r)
        /\ wire[r].account \in Unit
        /\ D \in SUBSET Charge /\ db \in Tables(D)
        /\ MayPersist(db, l) /\ sums \in UnitRow
        /\ db' = Persisted(db, l, sums) /\ Persists(db, l, sums, db')
    BY <1>2, <1>5, PersistFacts
  <2>2. \A c \in Charge : db.paid[r][c] = 0
    BY <2>1 DEF Known
  <2>3. wire \in [Ref -> Transfers]
    BY <1>2 DEF BooksInv
  <2>4. PaidAtHome(db', r)
    BY <2>1, <2>2, <2>3, PersistedAtHome
  <2>5. Housed(db', r)
    BY <2>1, LedgerAssumption DEF Persists, Housed
  <2> QED
    BY <2>1, <2>4, <2>5, OthersStayHome DEF HomesInv, Persists
<1>6. ASSUME NEW h \in Handler, MarkReversed(h) PROVE Homes(db')
  <2> DEFINE r == handler[h].ref
  <2>1. /\ r \in Ref /\ SameBooks(db, db') /\ OthersStay(db, db', r)
        /\ db'.payment[r] = [status |-> "REVERSED", unit |-> db.payment[r].unit]
    BY <1>2, <1>6, MarkReversedFacts
  <2> HIDE DEF r
  <2>2. PaidAtHome(db', r) /\ Housed(db', r)
    BY <2>1 DEF PaidAtHome, Housed, SameBooks, HomesInv, Homes
  <2> QED
    BY <2>1, <2>2, OthersStayHome DEF HomesInv
<1>7. ASSUME NEW h \in Handler, Resolve(h) PROVE Homes(db')
  BY <1>7, ResolutionAtHome
<1>8. ASSUME NEW h \in Handler,
             (\E b \in Bill, scope \in Scopes : BillStart(h, b, scope)) \/ BillUnit(h)
      PROVE  Homes(db')
  <2>1. db'.payment = db.payment /\ db'.paid = db.paid
    BY <1>2, <1>8, BillingFacts
  <2> QED
    BY <2>1 DEF HomesInv, Homes, PaidAtHome, Housed
<1>9. \/ db' = db
      \/ \E h \in Handler : \/ BookMisdirected(h) \/ Persist(h) \/ MarkReversed(h) \/ Resolve(h)
                            \/ \E b \in Bill, scope \in Scopes : BillStart(h, b, scope)
                            \/ BillUnit(h)
  <2>1. CASE UNCHANGED vars
    BY <2>1 DEF vars
  <2>2. ASSUME NEW h \in Handler, InTransaction(h) PROVE db' = db
    BY <2>2, InTransactionIsQuiet DEF InTx
  <2>3. ASSUME NEW h \in Handler, OtherStep(h)
        PROVE  \/ db' = db
               \/ BookMisdirected(h) \/ Persist(h) \/ MarkReversed(h) \/ Resolve(h)
               \/ \E b \in Bill, scope \in Scopes : BillStart(h, b, scope)
               \/ BillUnit(h)
    <3>1. CASE \/ \E r \in Ref : IngestDedupe(h, r)
               \/ ReadUnit(h) \/ ReadCharges(h) \/ ReadPriors(h)
               \/ \E r \in Ref : ReverseFind(h, r)
               \/ \E r \in Ref, action \in {p[2] : p \in Offered},
                     target \in Unit \cup {NoUnit} : ResolveRead(h, r, action, target)
               \/ SendRefund(h) \/ Abort(h)
      BY <3>1 DEF IngestDedupe, ReadUnit, ReadCharges, ReadPriors, ReverseFind, ResolveRead,
                  SendRefund, Abort
    <3> QED
      BY <2>3, <3>1, Zenon DEF OtherStep
  <2> QED
    BY <2>1, <2>2, <2>3, NextSteps
<1>10. Homes(db')
  BY <1>3, <1>4, <1>5, <1>6, <1>7, <1>8, <1>9 DEF HomesInv
<1> QED
  BY <1>1, <1>10 DEF HomesInv, Homes, PaidAtHome, Housed

(* With one handler at a time, the payments of a unit have paid charges of *)
(* that unit only, also when a manager moves a payment to another unit.    *)
THEOREM HomesInvariant == OneHandler => (Spec => []HomesInv)
<1> SUFFICES ASSUME OneHandler PROVE Spec => []HomesInv
  OBVIOUS
<1>1. Init => HomesInv
  <2> SUFFICES ASSUME Init PROVE HomesInv
    OBVIOUS
  <2>1. SerialInv
    BY SerialInit
  <2>2. /\ EmptyDb.paid = [r \in Ref |-> [c \in Charge |-> 0]]
        /\ EmptyDb.payment = [r \in Ref |-> [status |-> "NONE", unit |-> NoUnit]]
    BY DEF EmptyDb
  <2> HIDE DEF EmptyDb
  <2> QED
    BY <2>1, <2>2 DEF Init, HomesInv, Homes, PaidAtHome, Housed
<1>2. HomesInv /\ [Next]_vars => HomesInv'
  BY HomesNext
<1> QED
  BY <1>1, <1>2, PTL DEF Spec

-----------------------------------------------------------------------------
\* What is shown of the books agrees with them, when one handler runs at a time.

(* What the tables that a serial handler leaves say of charges.            *)
Outstanding(D, d) ==
  /\ D = DOMAIN d.outstanding /\ D \in SUBSET Charge /\ d \in Tables(D)
  /\ \A c \in D : /\ BillAmount[c[1]] \in Nat \ {0} /\ d.covered[c] \in Nat
                  /\ SumOver(PaidTo(d, c), Ref) \in Nat /\ d.outstanding[c] \in Nat
                  /\ d.outstanding[c] + d.covered[c] + SumOver(PaidTo(d, c), Ref) = BillAmount[c[1]]
  /\ \A c \in Charge \ D : d.covered[c] = 0 /\ \A r \in Ref : d.paid[r][c] = 0

(* They say so.                                                            *)
LEMMA OutstandingFacts ==
  ASSUME HomesInv
  PROVE  Outstanding(DOMAIN db.outstanding, db)
<1> DEFINE D == DOMAIN db.outstanding
<1>1. D \in SUBSET Charge /\ db \in Tables(D)
  BY TablesOKFacts DEF HomesInv, SerialInv, ReviewInv, BooksInv, TablesOK
<1>2. /\ db.outstanding \in [D -> Int] /\ db.covered \in [Charge -> Int]
      /\ db.paid \in [Ref -> [Charge -> Nat]]
  BY <1>1 DEF Tables
<1>3. SumsOK(db)
  BY DEF HomesInv, SerialInv
<1>4. ASSUME NEW c \in D
      PROVE  /\ BillAmount[c[1]] \in Nat \ {0} /\ db.covered[c] \in Nat
             /\ SumOver(PaidTo(db, c), Ref) \in Nat /\ db.outstanding[c] \in Nat
             /\ db.outstanding[c] + db.covered[c] + SumOver(PaidTo(db, c), Ref) = BillAmount[c[1]]
  <2>1. c \in Charge /\ c[1] \in Bill
    BY <1>1 DEF Charge
  <2>2. BillAmount[c[1]] \in Nat \ {0}
    BY <2>1, LedgerAssumption
  <2>3. SumOver(PaidTo(db, c), Ref) \in Nat
    <3>1. \A r \in Ref : PaidTo(db, c)[r] \in Nat
      BY <1>2, <2>1 DEF PaidTo
    <3> QED
      BY <3>1, SumNat, LedgerAssumption
  <2>4. ChargeOK(db, c) /\ db.covered[c] \in Int /\ db.outstanding[c] \in Int
    BY <1>2, <1>3, <2>1 DEF SumsOK
  <2> HIDE DEF D
  <2> QED
    BY <2>2, <2>3, <2>4 DEF ChargeOK, D
<1>5. \A c \in Charge \ D : db.covered[c] = 0 /\ \A r \in Ref : db.paid[r][c] = 0
  BY <1>3 DEF SumsOK, ChargeOK
<1> QED
  BY <1>1, <1>4, <1>5 DEF Outstanding

(* What the payments have paid of a set of charges, added up by charge and *)
(* by payment.                                                             *)
LEMMA PaidByPayment ==
  ASSUME NEW D \in SUBSET Charge, NEW d \in Tables(D), NEW S \in SUBSET Charge
  PROVE  /\ SumOver([c \in S |-> SumOver(PaidTo(d, c), Ref)], S)
              = SumOver([r \in Ref |-> SumOver(d.paid[r], S)], Ref)
         /\ Numbers([c \in S |-> SumOver(PaidTo(d, c), Ref)], S)
         /\ Numbers([r \in Ref |-> SumOver(d.paid[r], S)], Ref)
<1> DEFINE f == d.paid
           rows == [r \in Ref |-> SumOver(f[r], S)]
           columns == [c \in S |-> SumOver(PaidTo(d, c), Ref)]
           col == [c \in S |-> PaidTo(d, c)]
<1>1. IsFiniteSet(Ref) /\ IsFiniteSet(S) /\ f \in [Ref -> [Charge -> Nat]]
  BY LedgerAssumption, ChargesAreFinite DEF Tables
<1>2. \A r \in Ref : Numbers(f[r], S)
  BY <1>1 DEF Numbers
<1>3. \A c \in S : \A r \in Ref : col[c][r] = f[r][c]
  BY DEF PaidTo
<1>4. \A c \in S : Numbers(col[c], Ref)
  BY <1>1 DEF Numbers, PaidTo
<1>5. RowSums(rows, f, Ref, S) /\ RowSums(columns, col, S, Ref) /\ Transposed(col, f, Ref, S)
  BY <1>2, <1>3, <1>4 DEF RowSums, Transposed
<1>6. SumOver(columns, S) = SumOver(rows, Ref) /\ Numbers(columns, S) /\ Numbers(rows, Ref)
  <2> HIDE DEF f, rows, columns, col
  <2> QED
    BY <1>1, <1>5, SumSwap
<1> QED
  BY <1>6

(* The balance of a unit is what it was billed, less what its payments and *)
(* its credit have paid.                                                   *)
UnitPaid(d, u) == [r \in Ref |-> IF d.payment[r].unit = u THEN SumOver(d.paid[r], Charge) ELSE 0]

BilledOf(charges) == [c \in charges |-> BillAmount[c[1]]]

(* What is outstanding of a unit is what is billed and not paid.           *)
LEMMA BalanceExplained ==
  ASSUME HomesInv, NEW u \in Unit
  PROVE  /\ Numbers(UnitPaid(db, u), Ref)
         /\ Numbers(BilledOf(ChargesOf(db, u)), ChargesOf(db, u))
         /\ db.used[u] \in Int
         /\ SumOver(db.outstanding, ChargesOf(db, u))
              = SumOver(BilledOf(ChargesOf(db, u)), ChargesOf(db, u))
                  - SumOver(UnitPaid(db, u), Ref) - db.used[u]
<1> DEFINE D == DOMAIN db.outstanding
           S == ChargesOf(db, u)
           b == BilledOf(S)
           o == db.outstanding
           v == CoveredIn(db, u)
           p == [c \in S |-> SumOver(PaidTo(db, c), Ref)]
           q == [r \in Ref |-> SumOver(db.paid[r], S)]
           w == UnitPaid(db, u)
           vp == [c \in S |-> v[c] + p[c]]
<1>1. Outstanding(D, db)
  BY OutstandingFacts
<1>2. D \in SUBSET Charge /\ db \in Tables(D) /\ S \in SUBSET D /\ S \in SUBSET Charge
      /\ \A c \in S : c[2] = u
  BY <1>1 DEF Outstanding, ChargesOf
<1>3. IsFiniteSet(S) /\ IsFiniteSet(Charge) /\ IsFiniteSet(Ref)
  BY <1>2, ChargesAreFinite, LedgerAssumption
<1>4. db.paid \in [Ref -> [Charge -> Nat]] /\ db.used \in [Unit -> Int]
  BY <1>2 DEF Tables
<1>5. SumOver(p, S) = SumOver(q, Ref) /\ Numbers(p, S) /\ Numbers(q, Ref)
  BY <1>2, PaidByPayment
<1>6. CreditOK(db, u)
  BY DEF HomesInv, SerialInv, SumsOK
<1>7. db.used[u] = SumOver(v, Charge) /\ Numbers(v, Charge)
  BY <1>2, <1>6, SumTypes DEF CreditOK
<1>8. \A c \in Charge \ S : v[c] = 0
  BY <1>1 DEF CoveredIn, ChargesOf, Outstanding
<1>9. SumOver(v, Charge) = SumOver(v, S)
  <2> HIDE DEF v, S
  <2> QED
    BY <1>2, <1>3, <1>7, <1>8, SumWithin
<1>10. \A c \in S : /\ v[c] = db.covered[c] /\ p[c] = SumOver(PaidTo(db, c), Ref)
                    /\ b[c] = BillAmount[c[1]]
  BY <1>2 DEF CoveredIn, BilledOf
<1>11. ASSUME NEW r \in Ref PROVE q[r] = w[r] /\ w[r] \in Int
  <2> DEFINE f == db.paid[r]
  <2>1. q[r] = SumOver(f, S) /\ Numbers(f, Charge) /\ Numbers(f, S)
    BY <1>2, <1>4 DEF Numbers
  <2>2. PaidAtHome(db, r)
    BY DEF HomesInv, Homes
  <2>3. w[r] = IF db.payment[r].unit = u THEN SumOver(f, Charge) ELSE 0
    BY DEF UnitPaid
  <2>4. CASE db.payment[r].unit = u
    <3>1. \A c \in Charge \ S : f[c] = 0
      BY <1>1, <2>2, <2>4 DEF PaidAtHome, ChargesOf, Outstanding
    <3> HIDE DEF f, S, q, w
    <3>2. SumOver(f, Charge) = SumOver(f, S)
      BY <1>2, <1>3, <2>1, <3>1, SumWithin
    <3> QED
      BY <1>3, <2>1, <2>3, <2>4, <3>2, SumType
  <2>5. CASE db.payment[r].unit # u
    <3>1. \A c \in S : f[c] = 0
      BY <1>2, <2>2, <2>5 DEF PaidAtHome
    <3> HIDE DEF f, S, q, w
    <3>2. SumOver(f, S) = 0
      BY <1>3, <3>1, SumZero
    <3> QED
      BY <2>1, <2>3, <2>5, <3>2
  <2> QED
    BY <2>4, <2>5
<1>12. Numbers(w, Ref)
  <2> HIDE DEF w
  <2> QED
    BY <1>11 DEF Numbers
<1>13. SumOver(q, Ref) = SumOver(w, Ref)
  <2> HIDE DEF q, w
  <2> QED
    BY <1>3, <1>11, <1>12, SumCongruence
<1>14. Numbers(b, S) /\ Numbers(o, S) /\ Numbers(v, S)
  <2>1. \A c \in S : b[c] \in Int /\ o[c] \in Int
    BY <1>1, <1>2, <1>10 DEF Outstanding
  <2>2. Numbers(v, S)
    BY <1>2, <1>7 DEF Numbers
  <2> HIDE DEF v, b, S, o
  <2> QED
    BY <2>1, <2>2 DEF Numbers
<1>15. \A c \in S : vp[c] = v[c] + p[c] /\ b[c] = o[c] + vp[c] /\ vp[c] \in Int
  <2> SUFFICES ASSUME NEW c \in S PROVE vp[c] = v[c] + p[c] /\ b[c] = o[c] + vp[c] /\ vp[c] \in Int
    OBVIOUS
  <2>1. /\ o[c] \in Int /\ db.covered[c] \in Int /\ SumOver(PaidTo(db, c), Ref) \in Int
        /\ o[c] + db.covered[c] + SumOver(PaidTo(db, c), Ref) = BillAmount[c[1]]
    BY <1>1, <1>2 DEF Outstanding
  <2>2. vp[c] = v[c] + p[c]
    OBVIOUS
  <2>3. v[c] = db.covered[c] /\ p[c] = SumOver(PaidTo(db, c), Ref) /\ b[c] = BillAmount[c[1]]
    BY <1>10
  <2> HIDE DEF vp, v, p, b, o
  <2> QED
    BY <2>1, <2>2, <2>3
<1> HIDE DEF b, o, v, p, q, w, vp, S, D
<1>16. Numbers(vp, S)
  BY <1>15 DEF Numbers
<1>17. SumOver(vp, S) = SumOver(v, S) + SumOver(p, S) /\ SumOver(b, S) = SumOver(o, S) + SumOver(vp, S)
  BY <1>3, <1>5, <1>14, <1>15, <1>16, SumAdd
<1>18. /\ SumOver(v, S) \in Int /\ SumOver(p, S) \in Int /\ SumOver(b, S) \in Int
       /\ SumOver(o, S) \in Int /\ SumOver(w, Ref) \in Int
  BY <1>3, <1>5, <1>12, <1>14, SumType
<1>19. db.used[u] \in Int
  BY <1>4
<1>20. SumOver(o, S) = SumOver(b, S) - SumOver(w, Ref) - db.used[u]
  BY <1>5, <1>7, <1>9, <1>13, <1>17, <1>18
<1> QED
  BY <1>12, <1>14, <1>19, <1>20 DEF b, o, w, S

(* The rows that a statement is made of, and those that move its balance.  *)
Paying(u) == {r \in TransfersOn(u) : AllocatedOf(r) > 0}

DebitRow(u)  == [kind |-> "debit",  of |-> u, amount |-> -db.used[u],  affects |-> TRUE]
CreditRow(u) == [kind |-> "credit", of |-> u, amount |-> -db.added[u], affects |-> FALSE]

(* What the rows say.                                                      *)
LEMMA RowFacts ==
  ASSUME NEW u \in Unit
  PROVE  /\ \A c : /\ ChargeRow(c).kind = "charge" /\ ChargeRow(c).of = c
                   /\ ChargeRow(c).amount = BillAmount[c[1]] /\ ChargeRow(c).affects = TRUE
         /\ \A r : /\ TransferRow(r).kind = "payment" /\ TransferRow(r).of = r
                   /\ AllocatedOf(r) > 0 => /\ TransferRow(r).amount = -AllocatedOf(r)
                                            /\ TransferRow(r).affects = TRUE
                   /\ ~(AllocatedOf(r) > 0) => TransferRow(r).affects = FALSE
         /\ DebitRow(u).kind = "debit" /\ DebitRow(u).amount = -db.used[u]
         /\ DebitRow(u).affects = TRUE
         /\ CreditRow(u).kind = "credit" /\ CreditRow(u).amount = -db.added[u]
         /\ CreditRow(u).affects = FALSE
<1>1. \A c : /\ ChargeRow(c).kind = "charge" /\ ChargeRow(c).of = c
             /\ ChargeRow(c).amount = BillAmount[c[1]] /\ ChargeRow(c).affects = TRUE
  BY DEF ChargeRow
<1>2. ASSUME NEW r
      PROVE  /\ TransferRow(r).kind = "payment" /\ TransferRow(r).of = r
             /\ AllocatedOf(r) > 0 => /\ TransferRow(r).amount = -AllocatedOf(r)
                                      /\ TransferRow(r).affects = TRUE
             /\ ~(AllocatedOf(r) > 0) => TransferRow(r).affects = FALSE
  <2>1. CASE AllocatedOf(r) > 0
    BY <2>1 DEF TransferRow
  <2>2. CASE ~(AllocatedOf(r) > 0)
    BY <2>2 DEF TransferRow
  <2> QED
    BY <2>1, <2>2
<1>3. /\ DebitRow(u).kind = "debit" /\ DebitRow(u).amount = -db.used[u]
      /\ DebitRow(u).affects = TRUE
      /\ CreditRow(u).kind = "credit" /\ CreditRow(u).amount = -db.added[u]
      /\ CreditRow(u).affects = FALSE
  BY DEF DebitRow, CreditRow
<1> QED
  BY <1>1, <1>2, <1>3

(* The rows that move the balance are the charges, the transfers that have *)
(* paid, and the credit spent; the others are known by their kind.         *)
LEMMA RowsThatCount ==
  ASSUME NEW u \in Unit
  PROVE  /\ {row \in Statement(u) : row.affects}
              = ({ChargeRow(c) : c \in ChargesOf(db, u)} \cup {TransferRow(r) : r \in Paying(u)})
                  \cup {DebitRow(u)}
         /\ {row \in Statement(u) : row.kind = "debit"} = {DebitRow(u)}
         /\ {row \in Statement(u) : row.kind = "credit"} = {CreditRow(u)}
<1> DEFINE A == {ChargeRow(c) : c \in ChargesOf(db, u)}
           B == {TransferRow(r) : r \in TransfersOn(u)}
           P == {TransferRow(r) : r \in Paying(u)}
           debit == DebitRow(u)
           credit == CreditRow(u)
<1>1. Statement(u) = A \cup B \cup {debit, credit}
  BY DEF Statement, CreditRows, DebitRow, CreditRow
<1>2. \A row \in A : row.affects = TRUE /\ row.kind = "charge"
  <2>1. \A c : ChargeRow(c).affects = TRUE /\ ChargeRow(c).kind = "charge"
    BY RowFacts
  <2> QED
    BY <2>1
<1>3. \A row \in B : row.kind = "payment" /\ (row \in P <=> row.affects = TRUE)
                     /\ row.affects \in BOOLEAN
  <2> SUFFICES ASSUME NEW r \in TransfersOn(u)
               PROVE  /\ TransferRow(r).kind = "payment"
                      /\ TransferRow(r) \in P <=> TransferRow(r).affects = TRUE
                      /\ TransferRow(r).affects \in BOOLEAN
    OBVIOUS
  <2>1. TransferRow(r).kind = "payment" /\ \A x : TransferRow(x).of = x
    BY RowFacts
  <2>2. CASE AllocatedOf(r) > 0
    BY <2>1, <2>2, RowFacts DEF Paying
  <2>3. CASE ~(AllocatedOf(r) > 0)
    <3>1. TransferRow(r).affects = FALSE
      BY <2>3, RowFacts
    <3>2. TransferRow(r) \notin P
      <4> SUFFICES ASSUME NEW x \in Paying(u), TransferRow(x) = TransferRow(r) PROVE FALSE
        OBVIOUS
      <4>1. x = r
        BY <2>1
      <4> QED
        BY <4>1, <2>3 DEF Paying
    <3> QED
      BY <2>1, <3>1, <3>2
  <2> QED
    BY <2>2, <2>3
<1>4. P \subseteq B
  BY DEF Paying
<1>5. /\ debit.affects = TRUE /\ debit.kind = "debit"
      /\ credit.affects = FALSE /\ credit.kind = "credit"
  BY RowFacts
<1> HIDE DEF A, B, P, debit, credit
<1>6. {row \in Statement(u) : row.affects} = (A \cup P) \cup {debit}
  BY <1>1, <1>2, <1>3, <1>4, <1>5
<1>7. /\ {row \in Statement(u) : row.kind = "debit"} = {debit}
      /\ {row \in Statement(u) : row.kind = "credit"} = {credit}
  BY <1>1, <1>2, <1>3, <1>5
<1> QED
  BY <1>6, <1>7 DEF A, P, debit, credit

(* rows has a row of the amount for each member of S.                      *)
RowsOf(rows, row, amount, S) ==
  rows = {row[x] : x \in S} /\ \A x \in S : row[x].of = x /\ row[x].amount = amount[x]

TotalsOf(total, rows) == \A row \in rows : total[row] = row.amount

(* A sum over rows is the sum over what they are about.                    *)
LEMMA SumOfRows ==
  ASSUME NEW S, IsFiniteSet(S), NEW row, NEW amount, Numbers(amount, S),
         NEW rows, RowsOf(rows, row, amount, S), NEW total, TotalsOf(total, rows)
  PROVE  /\ IsFiniteSet(rows) /\ Numbers(total, rows)
         /\ SumOver(total, rows) = SumOver(amount, S)
<1> USE DEF RowsOf, TotalsOf
<1> DEFINE p == [x \in S |-> row[x]]
           m == [x \in S |-> total[p[x]]]
<1>1. rows = {p[x] : x \in S} /\ p \in [S -> rows]
  OBVIOUS
<1>2. \A x, y \in S : p[x] = p[y] => x = y
  <2> SUFFICES ASSUME NEW x \in S, NEW y \in S, row[x] = row[y] PROVE x = y
    OBVIOUS
  <2>1. row[x].of = x /\ row[y].of = y
    OBVIOUS
  <2> QED
    BY <2>1
<1>3. IsFiniteSet(rows)
  <2>1. p \in Surjection(S, rows)
    BY <1>1 DEF Surjection
  <2> QED
    BY <2>1, FS_Surjection
<1>4. Numbers(total, rows) /\ \A x \in S : m[x] = amount[x]
  BY DEF Numbers
<1>5. SumOver(m, S) = SumOver(total, {p[x] : x \in S})
  <2> HIDE DEF p
  <2> QED
    BY <1>1, <1>2, <1>3, <1>4, SumRename
<1> HIDE DEF m, p
<1>6. SumOver(m, S) = SumOver(amount, S)
  BY <1>4, SumCongruence
<1> QED
  BY <1>1, <1>3, <1>4, <1>5, <1>6

(* Only the transfers on the statement have paid the unit's charges.       *)
LEMMA PaidByTransfers ==
  ASSUME HomesInv, NEW u \in Unit
  PROVE  /\ Paying(u) \subseteq Ref /\ IsFiniteSet(Paying(u)) /\ Numbers(UnitPaid(db, u), Paying(u))
         /\ \A r \in Paying(u) : UnitPaid(db, u)[r] = AllocatedOf(r)
         /\ SumOver(UnitPaid(db, u), Ref) = SumOver(UnitPaid(db, u), Paying(u))
<1> DEFINE w == UnitPaid(db, u)
           R == Paying(u)
<1>1. Outstanding(DOMAIN db.outstanding, db) /\ Numbers(w, Ref)
  BY OutstandingFacts, BalanceExplained
<1>2. R \subseteq Ref /\ IsFiniteSet(Ref)
  BY LedgerAssumption DEF Paying, TransfersOn
<1>3. IsFiniteSet(R) /\ Numbers(w, R)
  BY <1>1, <1>2, FS_Subset DEF Numbers
<1>4. \A r \in R : w[r] = AllocatedOf(r)
  BY <1>2 DEF Paying, TransfersOn, UnitPaid, AllocatedOf
<1>5. ASSUME NEW r \in Ref \ R PROVE w[r] = 0
  <2>1. SumOver(db.paid[r], Charge) \in Nat
    BY <1>1, TotalsType DEF Outstanding
  <2>2. w[r] = IF db.payment[r].unit = u THEN SumOver(db.paid[r], Charge) ELSE 0
    BY DEF UnitPaid
  <2>3. ~HasPayment(db, r) => SumOver(db.paid[r], Charge) = 0
    <3> SUFFICES ASSUME ~HasPayment(db, r) PROVE SumOver(db.paid[r], Charge) = 0
      OBVIOUS
    <3>1. Known(db, clawedBack, r)
      BY DEF HomesInv, SerialInv, ReviewInv, BooksInv
    <3>2. \A c \in Charge : db.paid[r][c] = 0
      BY <3>1 DEF Known
    <3> QED
      BY <3>2, SumZero, ChargesAreFinite
  <2>4. db.payment[r].unit = u /\ HasPayment(db, r) => ~(AllocatedOf(r) > 0)
    BY DEF Paying, TransfersOn
  <2> QED
    BY <2>1, <2>2, <2>3, <2>4 DEF AllocatedOf
<1>6. SumOver(w, Ref) = SumOver(w, R)
  <2> HIDE DEF w, R
  <2> QED
    BY <1>1, <1>2, <1>5, SumWithin
<1> QED
  BY <1>2, <1>3, <1>4, <1>6

(* The last row's running balance is the unit row's.                       *)
LEMMA RunningBalance ==
  ASSUME HomesInv, NEW u \in Unit
  PROVE  Running(Statement(u)) = SumOver(db.outstanding, ChargesOf(db, u))
<1> DEFINE S == ChargesOf(db, u)
           R == Paying(u)
           A == {ChargeRow(c) : c \in S}
           P == {TransferRow(r) : r \in R}
           debit == DebitRow(u)
           total == [row \in Statement(u) |-> row.amount]
           b == BilledOf(S)
           w == UnitPaid(db, u)
           n == [r \in R |-> -w[r]]
           cr == [c \in S |-> ChargeRow(c)]
           tr == [r \in R |-> TransferRow(r)]
<1>1. /\ Numbers(w, Ref) /\ Numbers(b, S) /\ db.used[u] \in Int
      /\ SumOver(db.outstanding, S) = SumOver(b, S) - SumOver(w, Ref) - db.used[u]
  BY BalanceExplained
<1>2. /\ R \subseteq Ref /\ IsFiniteSet(R) /\ Numbers(w, R)
      /\ \A r \in R : w[r] = AllocatedOf(r)
      /\ SumOver(w, Ref) = SumOver(w, R)
  BY PaidByTransfers
<1>3. IsFiniteSet(S)
  <2>1. S \subseteq Charge
    BY OutstandingFacts DEF Outstanding, ChargesOf
  <2> QED
    BY <2>1, ChargesAreFinite
<1>4. {row \in Statement(u) : row.affects} = (A \cup P) \cup {debit}
  BY RowsThatCount
<1>5. \A row \in (A \cup P) \cup {debit} : total[row] = row.amount
  BY <1>4
<1>6. Running(Statement(u)) = SumOver(total, (A \cup P) \cup {debit})
  BY <1>4 DEF Running
<1>7. \A c \in S : cr[c].of = c /\ cr[c].amount = b[c] /\ cr[c].kind = "charge"
  <2> SUFFICES ASSUME NEW c \in S PROVE cr[c].of = c /\ cr[c].amount = b[c] /\ cr[c].kind = "charge"
    OBVIOUS
  <2>1. cr[c] = ChargeRow(c) /\ b[c] = BillAmount[c[1]]
    BY DEF BilledOf
  <2> QED
    BY <2>1, RowFacts
<1>8. \A r \in R : tr[r].of = r /\ tr[r].amount = n[r] /\ tr[r].kind = "payment"
  <2> SUFFICES ASSUME NEW r \in R PROVE tr[r].of = r /\ tr[r].amount = n[r] /\ tr[r].kind = "payment"
    OBVIOUS
  <2>1. tr[r] = TransferRow(r) /\ n[r] = -AllocatedOf(r) /\ AllocatedOf(r) > 0
    BY <1>2 DEF Paying
  <2> QED
    BY <2>1, RowFacts
<1>9. debit.kind = "debit" /\ debit.amount = -db.used[u]
  BY RowFacts
<1>10. A = {cr[c] : c \in S} /\ P = {tr[r] : r \in R}
  OBVIOUS
<1>11. \A r \in R : n[r] = -w[r]
  OBVIOUS
<1> HIDE DEF S, R, A, P, debit, total, b, w, n, cr, tr
<1>12. Numbers(n, R) /\ SumOver(n, R) = -SumOver(w, R)
  BY <1>2, <1>11, SumNegated DEF Numbers
<1>13. IsFiniteSet(A) /\ Numbers(total, A) /\ SumOver(total, A) = SumOver(b, S)
  <2>1. RowsOf(A, cr, b, S) /\ TotalsOf(total, A)
    BY <1>5, <1>7, <1>10 DEF RowsOf, TotalsOf
  <2> QED
    BY <1>1, <1>3, <2>1, SumOfRows
<1>14. IsFiniteSet(P) /\ Numbers(total, P) /\ SumOver(total, P) = SumOver(n, R)
  <2>1. RowsOf(P, tr, n, R) /\ TotalsOf(total, P)
    BY <1>5, <1>8, <1>10 DEF RowsOf, TotalsOf
  <2> QED
    BY <1>2, <1>12, <2>1, SumOfRows
<1>15. A \cap P = {} /\ (A \cup P) \cap {debit} = {}
  <2>1. \A row \in A : row.kind = "charge"
    BY <1>7, <1>10
  <2>2. \A row \in P : row.kind = "payment"
    BY <1>8, <1>10
  <2> QED
    BY <2>1, <2>2, <1>9
<1>16. total[debit] = -db.used[u] /\ SumOver(total, {debit}) = -db.used[u]
       /\ Numbers(total, {debit}) /\ IsFiniteSet({debit})
  <2>1. total[debit] = -db.used[u]
    BY <1>5, <1>9
  <2>2. total[debit] \in Int
    BY <2>1, <1>1
  <2>3. SumOver(total, {debit}) = -db.used[u]
    BY <2>1, <2>2, SumSingle
  <2>4. Numbers(total, {debit})
    BY <2>2 DEF Numbers
  <2>5. IsFiniteSet({debit})
    BY FS_Singleton
  <2> QED
    BY <2>1, <2>3, <2>4, <2>5
<1>17. IsFiniteSet(A \cup P) /\ Numbers(total, A \cup P)
  BY <1>13, <1>14, FS_Union DEF Numbers
<1>18. SumOver(total, A \cup P) = SumOver(total, A) + SumOver(total, P)
  BY <1>13, <1>14, <1>15, SumDisjoint
<1>19. SumOver(total, (A \cup P) \cup {debit}) = SumOver(total, A \cup P) + SumOver(total, {debit})
  BY <1>15, <1>16, <1>17, SumDisjoint
<1>20. SumOver(b, S) \in Int /\ SumOver(w, R) \in Int
  BY <1>1, <1>2, <1>3, SumType
<1>21. Running(Statement(u)) = SumOver(b, S) - SumOver(w, R) - db.used[u]
  BY <1>1, <1>6, <1>12, <1>13, <1>14, <1>16, <1>18, <1>19, <1>20
<1> QED
  BY <1>1, <1>2, <1>21 DEF S, b, w

(* So the statement leads to the balance and to the credit of the unit row.*)
LEMMA StatementLeadsToBalance ==
  ASSUME HomesInv
  PROVE  StatementExplainsBalance
<1> SUFFICES ASSUME NEW u \in Unit
             PROVE  /\ Running(Statement(u)) = db.rollup[u].balance
                    /\ AmountsOf(Statement(u), "debit") - AmountsOf(Statement(u), "credit")
                         = db.rollup[u].credit
  BY DEF StatementExplainsBalance
<1>1. /\ db.rollup[u].balance = SumOver(db.outstanding, ChargesOf(db, u))
      /\ db.rollup[u].credit = db.added[u] - db.used[u]
  BY RowShowsSums DEF HomesInv, SerialInv
<1>2. db.added[u] \in Int /\ db.used[u] \in Int
  BY OutstandingFacts DEF Outstanding, Tables
<1>3. Running(Statement(u)) = db.rollup[u].balance
  BY <1>1, RunningBalance
<1> DEFINE total == [row \in Statement(u) |-> row.amount]
           debit == DebitRow(u)
           credit == CreditRow(u)
<1>4. /\ {row \in Statement(u) : row.kind = "debit"} = {debit}
      /\ {row \in Statement(u) : row.kind = "credit"} = {credit}
  BY RowsThatCount
<1>5. total[debit] = -db.used[u] /\ total[credit] = -db.added[u]
  <2>1. debit \in Statement(u) /\ credit \in Statement(u)
    BY <1>4
  <2>2. total[debit] = debit.amount /\ total[credit] = credit.amount
    BY <2>1
  <2> QED
    BY <2>2, RowFacts
<1>6. /\ AmountsOf(Statement(u), "debit") = SumOver(total, {debit})
      /\ AmountsOf(Statement(u), "credit") = SumOver(total, {credit})
  BY <1>4 DEF AmountsOf
<1>7. SumOver(total, {debit}) = -db.used[u] /\ SumOver(total, {credit}) = -db.added[u]
  <2> HIDE DEF total, debit, credit
  <2> QED
    BY <1>2, <1>5, SumSingle
<1> QED
  BY <1>1, <1>2, <1>3, <1>6, <1>7

(* The statement of a unit explains its balance, when deliveries are       *)
(* handled one at a time.                                                  *)
THEOREM StatementsExplainBalances == OneHandler => (Spec => []StatementExplainsBalance)
<1>1. HomesInv => StatementExplainsBalance
  BY StatementLeadsToBalance
<1> QED
  BY <1>1, HomesInvariant, PTL
-----------------------------------------------------------------------------
\* The figures of the pages.

(* A whole percentage of a part is 100 only of the whole.                  *)
LEMMA WholePercent ==
  ASSUME NEW c \in Nat, NEW t \in Nat, t > 0
  PROVE  c <= t => ((100 * c) \div t = 100 <=> c = t)
<1> DEFINE q == (100 * c) \div t
<1>1. q \in Int /\ q * t <= 100 * c /\ 100 * c < (q + 1) * t
  OBVIOUS
<1>2. ASSUME c <= t, q = 100 PROVE c = t
  BY <1>1, <1>2
<1>3. ASSUME c = t PROVE q = 100
  <2>1. q \in Int /\ q * t <= 100 * t /\ 100 * t < (q + 1) * t
    BY <1>1, <1>3
  <2> HIDE DEF q
  <2>2. ASSUME q >= 101 PROVE FALSE
    <3> DEFINE k == q - 101
    <3>1. k \in Nat /\ q = 101 + k
      BY <2>1, <2>2
    <3> HIDE DEF k
    <3>2. k * t \in Nat /\ (101 + k) * t = 101 * t + k * t
      BY <3>1
    <3> QED
      BY <2>1, <3>1, <3>2
  <2>3. ASSUME q <= 99 PROVE FALSE
    <3> DEFINE k == 99 - q
    <3>1. k \in Nat /\ q + 1 = 100 - k
      BY <2>1, <2>3
    <3> HIDE DEF k
    <3>2. k * t \in Nat /\ (100 - k) * t = 100 * t - k * t
      BY <3>1
    <3> QED
      BY <2>1, <3>1, <3>2
  <2> QED
    BY <2>1, <2>2, <2>3
<1> QED
  BY <1>2, <1>3

PaidIn == [c \in DOMAIN db.outstanding |-> PaidOf(c)]

(* What has been paid of a charge and what is outstanding make its amount. *)
LEMMA ChargeFacts ==
  ASSUME HomesInv, NEW c \in DOMAIN db.outstanding
  PROVE  /\ c \in Charge /\ c[1] \in Bill /\ c[2] \in Unit /\ c = <<c[1], c[2]>>
         /\ db.outstanding[c] \in Nat /\ BillAmount[c[1]] \in Nat \ {0}
         /\ PaidIn[c] = PaidOf(c) /\ PaidOf(c) \in Nat
         /\ PaidOf(c) + db.outstanding[c] = BillAmount[c[1]]
<1>1. Outstanding(DOMAIN db.outstanding, db)
  BY OutstandingFacts
<1>2. c \in Charge
  BY <1>1 DEF Outstanding
<1>3. c[1] \in Bill /\ c[2] \in Unit /\ c = <<c[1], c[2]>>
  BY <1>2 DEF Charge
<1>4. /\ BillAmount[c[1]] \in Nat \ {0} /\ db.covered[c] \in Nat
      /\ SumOver(PaidTo(db, c), Ref) \in Nat /\ db.outstanding[c] \in Nat
      /\ db.outstanding[c] + db.covered[c] + SumOver(PaidTo(db, c), Ref) = BillAmount[c[1]]
  BY <1>1 DEF Outstanding
<1>5. PaidOf(c) = BillAmount[c[1]] - db.outstanding[c] /\ PaidIn[c] = PaidOf(c)
  BY DEF PaidOf, PaidIn
<1> QED
  BY <1>2, <1>3, <1>4, <1>5

(* So do the sums over a set of charges.                                   *)
LEMMA ChargesAddUp ==
  ASSUME HomesInv, NEW S \in SUBSET DOMAIN db.outstanding
  PROVE  /\ IsFiniteSet(S) /\ Numbers(db.outstanding, S) /\ Numbers(PaidIn, S)
         /\ Billed(S) \in Nat /\ Paid(S) \in Nat /\ SumOver(db.outstanding, S) \in Nat
         /\ Paid(S) = Billed(S) - SumOver(db.outstanding, S)
         /\ Paid(S) = SumOver(PaidIn, S)
         /\ SumOver(db.outstanding, S) = 0 <=> \A c \in S : db.outstanding[c] = 0
         /\ Paid(S) = 0 <=> \A c \in S : PaidOf(c) = 0
         /\ Billed(S) = 0 <=> S = {}
<1> DEFINE o == db.outstanding
           b == [c \in S |-> BillAmount[c[1]]]
           p == [c \in S |-> PaidOf(c)]
           q == PaidIn
<1>1. \A c \in S : /\ o[c] \in Nat /\ b[c] \in Nat \ {0} /\ p[c] \in Nat /\ q[c] = p[c]
                   /\ b[c] = p[c] + o[c] /\ p[c] = PaidOf(c)
  <2> SUFFICES ASSUME NEW c \in S
               PROVE  /\ o[c] \in Nat /\ b[c] \in Nat \ {0} /\ p[c] \in Nat /\ q[c] = p[c]
                      /\ b[c] = p[c] + o[c] /\ p[c] = PaidOf(c)
    OBVIOUS
  <2> QED
    BY ChargeFacts
<1>2. IsFiniteSet(S)
  <2>1. S \subseteq Charge
    BY OutstandingFacts DEF Outstanding
  <2> QED
    BY <2>1, ChargesAreFinite
<1>3. Billed(S) = SumOver(b, S) /\ Paid(S) = SumOver(p, S)
  BY DEF Billed, Paid
<1> HIDE DEF o, b, p, q
<1>4. Numbers(o, S) /\ Numbers(b, S) /\ Numbers(p, S) /\ Numbers(q, S)
  BY <1>1 DEF Numbers
<1>5. SumOver(b, S) = SumOver(p, S) + SumOver(o, S)
  BY <1>1, <1>2, <1>4, SumAdd
<1>6. SumOver(b, S) \in Nat /\ SumOver(p, S) \in Nat /\ SumOver(o, S) \in Nat
  BY <1>1, <1>2, SumNat
<1>7. SumOver(q, S) = SumOver(p, S)
  BY <1>1, <1>2, <1>4, SumCongruence
<1>8. SumOver(o, S) = 0 <=> \A c \in S : o[c] = 0
  BY <1>1, <1>2, SumIsZero
<1>9. SumOver(p, S) = 0 <=> \A c \in S : p[c] = 0
  BY <1>1, <1>2, SumIsZero
<1>10. SumOver(b, S) = 0 <=> S = {}
  <2>1. SumOver(b, S) = 0 <=> \A c \in S : b[c] = 0
    BY <1>1, <1>2, SumIsZero
  <2> QED
    BY <2>1, <1>1
<1>11. SumOver(p, S) = 0 <=> \A c \in S : PaidOf(c) = 0
  BY <1>1, <1>9
<1> QED
  BY <1>2, <1>3, <1>4, <1>5, <1>6, <1>7, <1>8, <1>10, <1>11 DEF o, q

(* The unit row's balance is what its charges have outstanding, and its    *)
(* credit is not negative.                                                 *)
LEMMA UnitRowFacts ==
  ASSUME HomesInv, NEW u \in Unit
  PROVE  /\ ChargesOf(db, u) \in SUBSET DOMAIN db.outstanding
         /\ db.rollup[u].balance = SumOver(db.outstanding, ChargesOf(db, u))
         /\ db.rollup[u].balance \in Nat /\ db.rollup[u].credit \in Nat
         /\ db.rollup[u].balance > 0 <=> \E c \in ChargesOf(db, u) : db.outstanding[c] > 0
         /\ db.rollup[u].balance <= Billed(ChargesOf(db, u))
<1> DEFINE S == ChargesOf(db, u)
<1>1. S \in SUBSET DOMAIN db.outstanding
  BY DEF ChargesOf
<1>2. RowsBalance(db) /\ CreditOK(db, u)
  BY DEF HomesInv, SerialInv, SumsOK
<1>3. db.rollup[u].balance = SumOver(db.outstanding, S)
      /\ db.rollup[u].credit = db.added[u] - db.used[u]
  BY <1>2, RowShowsSums
<1>4. db.added[u] \in Int /\ db.used[u] \in Int /\ db.used[u] <= db.added[u]
  BY <1>2, OutstandingFacts DEF Outstanding, Tables, CreditOK
<1>5. /\ SumOver(db.outstanding, S) \in Nat /\ Billed(S) \in Nat /\ Paid(S) \in Nat
      /\ Paid(S) = Billed(S) - SumOver(db.outstanding, S)
      /\ SumOver(db.outstanding, S) = 0 <=> \A c \in S : db.outstanding[c] = 0
  BY <1>1, ChargesAddUp
<1>6. \A c \in S : db.outstanding[c] \in Nat
  BY <1>1, ChargeFacts
<1> HIDE DEF S
<1>7. db.rollup[u].balance > 0 <=> \E c \in S : db.outstanding[c] > 0
  BY <1>3, <1>5, <1>6
<1>8. db.rollup[u].credit \in Nat
  BY <1>3, <1>4
<1>9. db.rollup[u].balance <= Billed(S)
  BY <1>3, <1>5
<1> QED
  BY <1>1, <1>3, <1>5, <1>7, <1>8, <1>9 DEF S

(* The buckets hold all that is outstanding: every due date falls in one.  *)
LEMMA BucketsHoldAll ==
  ASSUME HomesInv, NEW now \in Int
  PROVE  Reports(now).outstanding = SumOver(Reports(now).buckets, DOMAIN Reports(now).buckets)
<1> DEFINE D == DOMAIN db.outstanding
           S == OwedCharges(D, now)
           K == {"0-30", "31-60", "61-90", "90+"}
           key == [c \in S |-> AgingBucket(BillDue[c[1]], now)]
           groups == [b \in K |-> SumOver(db.outstanding,
                                          {c \in S : AgingBucket(BillDue[c[1]], now) = b})]
<1>1. Reports(now).outstanding = SumOver(db.outstanding, D) /\ Reports(now).buckets = groups
      /\ DOMAIN groups = K
  BY DEF Reports
<1>2. S \in SUBSET D /\ D \in SUBSET D
  BY DEF OwedCharges
<1>3. /\ IsFiniteSet(S) /\ Numbers(db.outstanding, S)
      /\ IsFiniteSet(D) /\ Numbers(db.outstanding, D)
  BY <1>2, ChargesAddUp
<1>4. ASSUME NEW due \in Int PROVE AgingBucket(due, now) \in K
  <2>1. now - due <= 30 \/ now - due \in 31..60 \/ now - due \in 61..90 \/ now - due > 90
    OBVIOUS
  <2> QED
    BY <2>1 DEF AgingBucket
<1>5. \A c \in S : key[c] \in K
  <2> SUFFICES ASSUME NEW c \in S PROVE AgingBucket(BillDue[c[1]], now) \in K
    OBVIOUS
  <2>1. c[1] \in Bill
    BY <1>2, ChargeFacts
  <2>2. BillDue[c[1]] \in Int
    BY <2>1, LedgerAssumption
  <2> QED
    BY <2>2, <1>4
<1>6. GroupSums(groups, db.outstanding, key, S, K)
  <2> SUFFICES ASSUME NEW b \in K
               PROVE  groups[b] = SumOver(db.outstanding, WithKey(key, b, S))
    BY DEF GroupSums
  <2>1. WithKey(key, b, S) = {c \in S : AgingBucket(BillDue[c[1]], now) = b}
    BY DEF WithKey
  <2> QED
    BY <2>1
<1>7. IsFiniteSet(K)
  <2>1. K = {"0-30", "31-60"} \cup {"61-90", "90+"}
    OBVIOUS
  <2>2. IsFiniteSet({"0-30", "31-60"}) /\ IsFiniteSet({"61-90", "90+"})
    <3>1. /\ IsFiniteSet({"0-30"}) /\ IsFiniteSet({"31-60"})
          /\ IsFiniteSet({"61-90"}) /\ IsFiniteSet({"90+"})
      BY FS_Singleton
    <3>2. {"0-30", "31-60"} = {"0-30"} \cup {"31-60"} /\ {"61-90", "90+"} = {"61-90"} \cup {"90+"}
      OBVIOUS
    <3>3. IsFiniteSet({"0-30"} \cup {"31-60"})
      BY <3>1, FS_Union
    <3>4. IsFiniteSet({"61-90"} \cup {"90+"})
      BY <3>1, FS_Union
    <3> QED
      BY <3>2, <3>3, <3>4
  <2> QED
    BY <2>1, <2>2, FS_Union
<1>8. SumOver(db.outstanding, D) = SumOver(db.outstanding, S)
  <2>1. \A c \in D \ S : db.outstanding[c] = 0
    <3> SUFFICES ASSUME NEW c \in D \ S PROVE db.outstanding[c] = 0
      OBVIOUS
    <3>1. db.outstanding[c] \in Nat /\ ~(db.outstanding[c] > 0)
      BY ChargeFacts DEF OwedCharges
    <3> QED
      BY <3>1
  <2> HIDE DEF D, S
  <2> QED
    BY <1>2, <1>3, <2>1, SumWithin
<1>9. SumOver(groups, K) = SumOver(db.outstanding, S)
  <2> HIDE DEF S, K, key, groups
  <2> QED
    BY <1>3, <1>5, <1>6, <1>7, SumByKey
<1> QED
  BY <1>1, <1>8, <1>9

(* The charges of a set of units.                                          *)
LEMMA UnitCharges ==
  ASSUME HomesInv, NEW units \in SUBSET Unit
  PROVE  /\ ChargesOfAll(units) \in SUBSET DOMAIN db.outstanding /\ IsFiniteSet(units)
         /\ \A c \in DOMAIN db.outstanding : c \in ChargesOfAll(units) <=> c[2] \in units
<1>1. /\ ChargesOfAll(units) \in SUBSET DOMAIN db.outstanding
      /\ \A c \in DOMAIN db.outstanding : c \in ChargesOfAll(units) <=> c[2] \in units
  BY DEF ChargesOfAll, ChargesOf
<1>2. IsFiniteSet(units)
  BY LedgerAssumption, FS_Subset
<1> QED
  BY <1>1, <1>2

(* Their sum, unit by unit.                                                *)
UnitSums(g, f, units) == \A u \in units : g[u] = SumOver(f, ChargesOf(db, u))

(* A sum over the charges of units may be added up unit by unit.           *)
LEMMA SumByUnit ==
  ASSUME HomesInv, NEW units \in SUBSET Unit,
         NEW f, Numbers(f, DOMAIN db.outstanding), NEW g, UnitSums(g, f, units)
  PROVE  Numbers(g, units) /\ SumOver(g, units) = SumOver(f, ChargesOfAll(units))
<1> DEFINE S == ChargesOfAll(units)
           key == [c \in S |-> c[2]]
<1>1. /\ S \in SUBSET DOMAIN db.outstanding /\ IsFiniteSet(units)
      /\ \A c \in DOMAIN db.outstanding : c \in S <=> c[2] \in units
  BY UnitCharges
<1>2. IsFiniteSet(S) /\ Numbers(f, S)
  <2>1. IsFiniteSet(S)
    BY <1>1, ChargesAddUp
  <2> QED
    BY <1>1, <2>1 DEF Numbers
<1>3. \A c \in S : key[c] \in units
  BY <1>1
<1>4. GroupSums(g, f, key, S, units)
  <2> SUFFICES ASSUME NEW u \in units PROVE g[u] = SumOver(f, WithKey(key, u, S))
    BY DEF GroupSums
  <2>1. WithKey(key, u, S) = ChargesOf(db, u)
    BY <1>1 DEF WithKey, ChargesOf
  <2> QED
    BY <2>1 DEF UnitSums
<1> HIDE DEF S, key
<1> QED
  BY <1>1, <1>2, <1>3, <1>4, SumByKey DEF S

(* The arrears that the dashboard, the reports page and the tiles state    *)
(* are the same.                                                           *)
LEMMA ArrearsAgree ==
  ASSUME HomesInv, NEW gone \in SUBSET Unit
  PROVE  LET arrears == ReportPage(gone).arrears
             owing   == {u \in Unit \ gone : Tile(u).says = "owing"}
         IN  /\ Kpis(gone).outstanding = SumOver(arrears, DOMAIN arrears)
             /\ Kpis(gone).outstanding = SumOver([u \in owing |-> Tile(u).amount], owing)
<1> DEFINE U == Unit \ gone
           S == ChargesOfAll(U)
           arrears == ReportPage(gone).arrears
           owing == {u \in U : Tile(u).says = "owing"}
           tiles == [u \in owing |-> Tile(u).amount]
           balance == [u \in U |-> db.rollup[u].balance]
           R == {u \in U : db.rollup[u].balance > 0}
<1>1. \A u \in U : /\ balance[u] \in Nat /\ balance[u] = SumOver(db.outstanding, ChargesOf(db, u))
                   /\ balance[u] = db.rollup[u].balance
  BY UnitRowFacts
<1>2. Numbers(db.outstanding, DOMAIN db.outstanding)
  BY ChargesAddUp
<1>3. /\ S \in SUBSET DOMAIN db.outstanding /\ IsFiniteSet(U)
      /\ Numbers(balance, U) /\ SumOver(balance, U) = SumOver(db.outstanding, S)
  <2>1. U \in SUBSET Unit /\ UnitSums(balance, db.outstanding, U)
    BY <1>1 DEF UnitSums
  <2> HIDE DEF U, balance
  <2>2. Numbers(balance, U) /\ SumOver(balance, U) = SumOver(db.outstanding, S)
    BY <1>2, <2>1, SumByUnit
  <2> QED
    BY <2>1, <2>2, UnitCharges
<1>4. Kpis(gone).outstanding = SumOver(db.outstanding, S)
  <2>1. Kpis(gone).outstanding = Billed(S) - Paid(S)
    BY DEF Kpis
  <2>2. /\ Paid(S) = Billed(S) - SumOver(db.outstanding, S) /\ Billed(S) \in Nat
        /\ SumOver(db.outstanding, S) \in Nat
    BY <1>3, ChargesAddUp
  <2> HIDE DEF S
  <2> QED
    BY <2>1, <2>2
<1>5. DOMAIN arrears = R /\ \A u \in R : arrears[u] = balance[u]
  BY DEF ReportPage
<1>6. owing = R /\ \A u \in R : tiles[u] = balance[u]
  <2>1. ASSUME NEW u \in U
        PROVE  /\ Tile(u).says = "owing" <=> u \in R
               /\ u \in R => Tile(u).amount = db.rollup[u].balance
    <3>1. CASE db.rollup[u].balance > 0
      BY <3>1 DEF Tile
    <3>2. CASE ~(db.rollup[u].balance > 0)
      BY <3>2 DEF Tile
    <3> QED
      BY <3>1, <3>2
  <2>2. owing = R
    BY <2>1
  <2> QED
    BY <2>1, <2>2
<1>7. SumOver(balance, U) = SumOver(balance, R) /\ IsFiniteSet(R) /\ Numbers(balance, R)
  <2>1. R \in SUBSET U /\ \A u \in U \ R : balance[u] = 0
    <3>1. \A u \in U \ R : balance[u] = 0
      <4> SUFFICES ASSUME NEW u \in U \ R PROVE balance[u] = 0
        OBVIOUS
      <4>1. balance[u] \in Nat /\ ~(balance[u] > 0)
        BY <1>1
      <4> QED
        BY <4>1
    <3> QED
      BY <3>1
  <2> HIDE DEF U, R, balance
  <2>2. SumOver(balance, U) = SumOver(balance, R)
    BY <1>3, <2>1, SumWithin
  <2> QED
    BY <1>3, <2>1, <2>2, FS_Subset DEF Numbers
<1> HIDE DEF U, S, arrears, owing, tiles, balance, R
<1>8. SumOver(arrears, R) = SumOver(balance, R) /\ SumOver(tiles, R) = SumOver(balance, R)
  BY <1>5, <1>6, <1>7, SumCongruence
<1>9. /\ Kpis(gone).outstanding = SumOver(arrears, DOMAIN arrears)
      /\ Kpis(gone).outstanding = SumOver(tiles, owing)
  BY <1>3, <1>4, <1>5, <1>6, <1>7, <1>8
<1> QED
  BY <1>9 DEF arrears, tiles, owing, U

(* The report's list of arrears is the page's and the deleted units', and  *)
(* so is what it says was collected.                                       *)
LEMMA ReportNextToPage ==
  ASSUME HomesInv, NEW gone \in SUBSET Unit, NEW now \in Int
  PROVE  LET arrears == ReportPage(gone).arrears
             report  == Reports(now)
         IN  /\ DOMAIN report.arrears \ gone = DOMAIN arrears
             /\ \A u \in DOMAIN arrears : arrears[u] = report.arrears[u]
             /\ report.collected = PublicCollected(gone) + Paid(ChargesOfAll(gone))
<1> DEFINE D == DOMAIN db.outstanding
           U == Unit \ gone
           S == ChargesOfAll(U)
           G == ChargesOfAll(gone)
           owed == OwedCharges(D, now)
           units == {c[2] : c \in owed}
           R == {u \in U : db.rollup[u].balance > 0}
           arrears == ReportPage(gone).arrears
           report == Reports(now)
<1>1. DOMAIN arrears = R /\ \A u \in R : arrears[u] = db.rollup[u].balance
  BY DEF ReportPage
<1>2. /\ DOMAIN report.arrears = units
      /\ \A u \in units :
            report.arrears[u] = SumOver(db.outstanding, owed \cap ChargesOf(db, u))
      /\ report.collected = Billed(D) - SumOver(db.outstanding, D)
  BY DEF Reports
<1>3. \A c \in D : c[2] \in Unit /\ db.outstanding[c] \in Nat
  BY ChargeFacts
<1>4. \A c : c \in owed <=> c \in D /\ db.outstanding[c] > 0
  BY DEF OwedCharges
<1>5. ASSUME NEW u \in Unit
      PROVE  u \in units <=> db.rollup[u].balance > 0
  <2>1. db.rollup[u].balance > 0 <=> \E c \in ChargesOf(db, u) : db.outstanding[c] > 0
    BY UnitRowFacts
  <2>2. (\E c \in ChargesOf(db, u) : db.outstanding[c] > 0) <=> \E c \in owed : c[2] = u
    BY <1>4 DEF ChargesOf
  <2> QED
    BY <2>1, <2>2
<1>6. units \ gone = R /\ R \subseteq units
  <2>1. units \subseteq Unit
    BY <1>3, <1>4
  <2> HIDE DEF units
  <2> QED
    BY <1>5, <2>1
<1>7. ASSUME NEW u \in R
      PROVE  SumOver(db.outstanding, owed \cap ChargesOf(db, u)) = db.rollup[u].balance
  <2> DEFINE C == ChargesOf(db, u)
             T == owed \cap C
             o == db.outstanding
  <2>1. C \in SUBSET D /\ db.rollup[u].balance = SumOver(o, C)
    BY UnitRowFacts
  <2>2. IsFiniteSet(C) /\ Numbers(o, C)
    BY <2>1, ChargesAddUp
  <2>3. T \in SUBSET C /\ \A c \in C \ T : o[c] = 0
    <3> SUFFICES ASSUME NEW c \in C \ T PROVE o[c] = 0
      OBVIOUS
    <3>1. o[c] \in Nat /\ ~(o[c] > 0)
      BY <1>3, <1>4, <2>1
    <3> QED
      BY <3>1
  <2> HIDE DEF C, T, o
  <2>4. SumOver(o, C) = SumOver(o, T)
    BY <2>2, <2>3, SumWithin
  <2> QED
    BY <2>1, <2>4 DEF T, C, o
<1>8. report.collected = PublicCollected(gone) + Paid(G)
  <2>1. D = S \cup G /\ S \cap G = {} /\ S \in SUBSET D /\ G \in SUBSET D /\ D \in SUBSET D
    <3>1. /\ S \in SUBSET D /\ \A c \in D : c \in S <=> c[2] \in U
          /\ G \in SUBSET D /\ \A c \in D : c \in G <=> c[2] \in gone
      BY UnitCharges
    <3> HIDE DEF S, G, D
    <3> QED
      BY <1>3, <3>1
  <2>2. /\ IsFiniteSet(S) /\ Numbers(PaidIn, S) /\ Paid(S) = SumOver(PaidIn, S)
        /\ IsFiniteSet(G) /\ Numbers(PaidIn, G) /\ Paid(G) = SumOver(PaidIn, G)
        /\ Paid(D) = SumOver(PaidIn, D) /\ Paid(D) = Billed(D) - SumOver(db.outstanding, D)
    BY <2>1, ChargesAddUp
  <2>3. PublicCollected(gone) = Paid(S)
    BY DEF PublicCollected
  <2> HIDE DEF D, S, G
  <2>4. SumOver(PaidIn, S \cup G) = SumOver(PaidIn, S) + SumOver(PaidIn, G)
    BY <2>1, <2>2, SumDisjoint
  <2> QED
    BY <1>2, <2>1, <2>2, <2>3, <2>4
<1> HIDE DEF units, R, arrears, report, owed
<1>9. DOMAIN report.arrears \ gone = DOMAIN arrears
  BY <1>1, <1>2, <1>6
<1>10. \A u \in DOMAIN arrears : arrears[u] = report.arrears[u]
  BY <1>1, <1>2, <1>6, <1>7
<1> QED
  BY <1>8, <1>9, <1>10 DEF arrears, report

(* So the figures agree, whatever units are deleted.                       *)
LEMMA FiguresAgree ==
  ASSUME HomesInv, NEW gone \in SUBSET Unit, NEW now \in Int
  PROVE  Figures(gone, Reports(now))
BY ArrearsAgree, ReportNextToPage DEF Figures

(* What was collected is what the payments and the spent credit have paid. *)
LEMMA CollectedFromPayers ==
  ASSUME HomesInv
  PROVE  Paid(DOMAIN db.outstanding)
           = SumOver([r \in Ref |-> AllocatedOf(r)], Ref) + SumOver(db.used, Unit)
<1> DEFINE D == DOMAIN db.outstanding
           p == [c \in D |-> SumOver(PaidTo(db, c), Ref)]
           q == [r \in Ref |-> SumOver(db.paid[r], D)]
           a == [r \in Ref |-> AllocatedOf(r)]
           v == db.covered
<1>1. Outstanding(D, db) /\ D \in SUBSET Charge /\ db \in Tables(D) /\ D \in SUBSET D
  BY OutstandingFacts DEF Outstanding
<1>2. IsFiniteSet(D) /\ IsFiniteSet(Ref) /\ Numbers(PaidIn, D) /\ Paid(D) = SumOver(PaidIn, D)
  BY <1>1, ChargesAddUp, LedgerAssumption
<1>3. SumOver(p, D) = SumOver(q, Ref) /\ Numbers(p, D) /\ Numbers(q, Ref)
  BY <1>1, PaidByPayment
<1>4. \A c \in D : PaidIn[c] = v[c] + p[c] /\ v[c] \in Int
  <2> SUFFICES ASSUME NEW c \in D PROVE PaidIn[c] = v[c] + p[c] /\ v[c] \in Int
    OBVIOUS
  <2>1. /\ v[c] \in Nat /\ SumOver(PaidTo(db, c), Ref) \in Nat /\ db.outstanding[c] \in Nat
        /\ db.outstanding[c] + v[c] + SumOver(PaidTo(db, c), Ref) = BillAmount[c[1]]
    BY <1>1 DEF Outstanding
  <2>2. PaidIn[c] = PaidOf(c) /\ PaidOf(c) + db.outstanding[c] = BillAmount[c[1]] /\ PaidOf(c) \in Nat
    BY ChargeFacts
  <2>3. p[c] = SumOver(PaidTo(db, c), Ref)
    OBVIOUS
  <2> HIDE DEF p, v
  <2> QED
    BY <2>1, <2>2, <2>3
<1>5. Numbers(v, D)
  BY <1>4 DEF Numbers
<1>6. \A r \in Ref : a[r] = q[r]
  <2> SUFFICES ASSUME NEW r \in Ref PROVE SumOver(db.paid[r], Charge) = SumOver(db.paid[r], D)
    BY DEF AllocatedOf
  <2> DEFINE f == db.paid[r]
  <2>1. Numbers(f, Charge) /\ \A c \in Charge \ D : f[c] = 0
    BY <1>1 DEF Outstanding, Tables, Numbers
  <2> HIDE DEF f, D
  <2>2. SumOver(f, Charge) = SumOver(f, D)
    BY <1>1, <2>1, SumWithin, ChargesAreFinite
  <2> QED
    BY <2>2 DEF f
<1>7. Numbers(db.used, Unit) /\ SumOver(db.used, Unit) = SumOver(v, D)
  <2>1. ASSUME NEW u \in Unit PROVE db.used[u] = SumOver(v, ChargesOf(db, u))
    <3> DEFINE C == ChargesOf(db, u)
               w == CoveredIn(db, u)
    <3>1. db.used[u] = SumOver(w, Charge) /\ Numbers(w, Charge)
      <4>1. CreditOK(db, u)
        BY DEF HomesInv, SerialInv, SumsOK
      <4> QED
        BY <1>1, <4>1, SumTypes DEF CreditOK
    <3>2. C \in SUBSET Charge /\ \A c \in C : w[c] = v[c] /\ w[c] \in Int
      <4>1. \A c \in C : c \in Charge /\ c[2] = u
        BY <1>1 DEF ChargesOf
      <4>2. \A c \in C : w[c] = v[c]
        BY <4>1 DEF CoveredIn
      <4>3. \A c \in C : w[c] \in Int
        BY <3>1, <4>1 DEF Numbers
      <4> QED
        BY <4>1, <4>2, <4>3
    <3>3. \A c \in Charge \ C : w[c] = 0
      BY <1>1 DEF CoveredIn, ChargesOf, Outstanding
    <3> HIDE DEF C, w, v
    <3>4. SumOver(w, Charge) = SumOver(w, C)
      BY <3>1, <3>2, <3>3, SumWithin, ChargesAreFinite
    <3>5. IsFiniteSet(C) /\ Numbers(w, C)
      BY <3>2, ChargesAreFinite DEF Numbers
    <3>6. SumOver(w, C) = SumOver(v, C)
      <4>1. Numbers(v, C)
        BY <3>2 DEF Numbers
      <4> QED
        BY <3>2, <3>5, <4>1, SumCongruence
    <3> QED
      BY <3>1, <3>4, <3>6 DEF C
  <2>2. UnitSums(db.used, v, Unit)
    BY <2>1 DEF UnitSums
  <2>3. ChargesOfAll(Unit) = D
    <3>1. \A c \in D : c[2] \in Unit
      BY ChargeFacts
    <3>2. ChargesOfAll(Unit) \in SUBSET D /\ \A c \in D : c \in ChargesOfAll(Unit) <=> c[2] \in Unit
      BY UnitCharges
    <3> HIDE DEF D
    <3> QED
      BY <3>1, <3>2
  <2>4. Unit \in SUBSET Unit /\ Numbers(v, DOMAIN db.outstanding)
    BY <1>5
  <2> HIDE DEF v
  <2> QED
    BY <2>2, <2>3, <2>4, SumByUnit
<1> HIDE DEF p, q, a, v
<1>8. SumOver(PaidIn, D) = SumOver(v, D) + SumOver(p, D)
  <2> HIDE DEF D
  <2> QED
    BY <1>2, <1>3, <1>4, <1>5, SumAdd
<1>9. SumOver(a, Ref) = SumOver(q, Ref)
  BY <1>2, <1>3, <1>6, SumCongruence
<1>10. SumOver(q, Ref) \in Int /\ SumOver(v, D) \in Int
  BY <1>2, <1>3, <1>5, SumType
<1>11. Paid(D) = SumOver(a, Ref) + SumOver(db.used, Unit)
  BY <1>2, <1>3, <1>7, <1>8, <1>9, <1>10
<1> QED
  BY <1>11 DEF a

(* It is also what the bills say they have collected.                      *)
LEMMA CollectedByBill ==
  ASSUME HomesInv
  PROVE  Paid(DOMAIN db.outstanding) = SumOver([b \in Bill |-> BillView(b).collected], Bill)
<1> DEFINE D == DOMAIN db.outstanding
           key == [c \in D |-> c[1]]
           views == [b \in Bill |-> BillView(b).collected]
<1>1. D \in SUBSET D
  OBVIOUS
<1>2. IsFiniteSet(D) /\ Numbers(PaidIn, D) /\ Paid(D) = SumOver(PaidIn, D) /\ IsFiniteSet(Bill)
  BY <1>1, ChargesAddUp, LedgerAssumption
<1>3. \A c \in D : key[c] \in Bill
  BY ChargeFacts
<1>4. GroupSums(views, PaidIn, key, D, Bill)
  <2> SUFFICES ASSUME NEW b \in Bill PROVE views[b] = SumOver(PaidIn, WithKey(key, b, D))
    BY DEF GroupSums
  <2> DEFINE C == {c \in D : c[1] = b}
  <2>1. WithKey(key, b, D) = C
    BY DEF WithKey
  <2>2. views[b] = Paid(C)
    BY DEF BillView
  <2>3. C \in SUBSET D
    OBVIOUS
  <2>4. Paid(C) = SumOver(PaidIn, C)
    BY <2>3, ChargesAddUp
  <2> QED
    BY <2>1, <2>2, <2>4
<1> HIDE DEF key, views, D
<1>5. SumOver(views, Bill) = SumOver(PaidIn, D)
  BY <1>2, <1>3, <1>4, SumByKey
<1> QED
  BY <1>2, <1>5 DEF views, D

(* The sheet of a bill: its paid and its unpaid units are those that have  *)
(* a charge of it.                                                         *)
LEMMA SheetUnits ==
  ASSUME HomesInv, NEW b \in Bill
  PROVE  LET C == {c \in DOMAIN db.outstanding : c[1] = b}
             P == PaidUnits(b, {})
             N == UnpaidUnits(b, {})
         IN  /\ C \in SUBSET DOMAIN db.outstanding /\ P \subseteq Unit /\ N \subseteq Unit
             /\ P \cap N = {} /\ C = {<<b, u>> : u \in P \cup N}
             /\ \A u \in P : db.outstanding[<<b, u>>] = 0 /\ PaidOf(<<b, u>>) > 0
             /\ \A u \in N : db.outstanding[<<b, u>>] > 0
             /\ \A u \in N : u \in PartlyPaid(b, {}) <=> PaidOf(<<b, u>>) # 0
<1> DEFINE D == DOMAIN db.outstanding
           C == {c \in D : c[1] = b}
           P == PaidUnits(b, {})
           N == UnpaidUnits(b, {})
<1>1. ASSUME NEW u, <<b, u>> \in D
      PROVE  /\ db.outstanding[<<b, u>>] \in Nat /\ BillAmount[b] \in Nat \ {0} /\ u \in Unit
             /\ PaidOf(<<b, u>>) \in Nat
             /\ PaidOf(<<b, u>>) + db.outstanding[<<b, u>>] = BillAmount[b]
  <2> DEFINE c == <<b, u>>
  <2>1. c \in D /\ c[1] = b /\ c[2] = u
    BY <1>1
  <2> HIDE DEF c
  <2>2. /\ db.outstanding[c] \in Nat /\ BillAmount[c[1]] \in Nat \ {0} /\ c[2] \in Unit
        /\ PaidOf(c) \in Nat /\ PaidOf(c) + db.outstanding[c] = BillAmount[c[1]]
    BY <2>1, ChargeFacts
  <2> QED
    BY <2>1, <2>2 DEF c
<1>2. \A u : u \in P <=> u \in Unit /\ <<b, u>> \in D /\ PaidOf(<<b, u>>) >= BillAmount[b]
  BY DEF PaidUnits
<1>3. \A u : u \in N <=> u \in Unit /\ <<b, u>> \in D /\ PaidOf(<<b, u>>) < BillAmount[b]
  BY DEF UnpaidUnits
<1>4. \A u : u \in PartlyPaid(b, {}) <=> u \in N /\ PaidOf(<<b, u>>) > 0
  BY DEF PartlyPaid
<1>5. \A c \in C : c = <<b, c[2]>>
  <2> SUFFICES ASSUME NEW c \in C PROVE c = <<b, c[2]>>
    OBVIOUS
  <2>1. c = <<c[1], c[2]>>
    BY ChargeFacts
  <2> QED
    BY <2>1
<1>6. \A u : <<b, u>> \in D <=> <<b, u>> \in C
  OBVIOUS
<1>7. C \in SUBSET D
  OBVIOUS
<1> HIDE DEF C, P, N, D
<1>8. P \subseteq Unit /\ N \subseteq Unit
  BY <1>2, <1>3
<1>9. P \cap N = {}
  <2> SUFFICES ASSUME NEW u, u \in P, u \in N PROVE FALSE
    OBVIOUS
  <2>1. PaidOf(<<b, u>>) \in Nat /\ BillAmount[b] \in Nat \ {0}
    BY <1>1, <1>2
  <2> QED
    BY <2>1, <1>2, <1>3
<1>10. C = {<<b, u>> : u \in P \cup N}
  <2>1. ASSUME NEW c \in C PROVE \E u \in P \cup N : c = <<b, u>>
    <3>1. c = <<b, c[2]>> /\ <<b, c[2]>> \in D
      BY <1>5, <1>7
    <3>2. PaidOf(<<b, c[2]>>) \in Nat /\ BillAmount[b] \in Nat \ {0} /\ c[2] \in Unit
      BY <3>1, <1>1
    <3>3. PaidOf(<<b, c[2]>>) >= BillAmount[b] \/ PaidOf(<<b, c[2]>>) < BillAmount[b]
      BY <3>2
    <3>4. c[2] \in P \cup N
      BY <3>1, <3>2, <3>3, <1>2, <1>3
    <3> QED
      BY <3>1, <3>4
  <2>2. \A u \in P \cup N : <<b, u>> \in C
    BY <1>2, <1>3, <1>6
  <2> QED
    BY <2>1, <2>2
<1>11. \A u \in P : db.outstanding[<<b, u>>] = 0 /\ PaidOf(<<b, u>>) > 0
  <2> SUFFICES ASSUME NEW u \in P PROVE db.outstanding[<<b, u>>] = 0 /\ PaidOf(<<b, u>>) > 0
    OBVIOUS
  <2>1. <<b, u>> \in D /\ PaidOf(<<b, u>>) >= BillAmount[b]
    BY <1>2
  <2> QED
    BY <2>1, <1>1
<1>12. \A u \in N : db.outstanding[<<b, u>>] > 0
                    /\ (u \in PartlyPaid(b, {}) <=> PaidOf(<<b, u>>) # 0)
  <2> SUFFICES ASSUME NEW u \in N
               PROVE  db.outstanding[<<b, u>>] > 0
                      /\ (u \in PartlyPaid(b, {}) <=> PaidOf(<<b, u>>) # 0)
    OBVIOUS
  <2>1. <<b, u>> \in D /\ PaidOf(<<b, u>>) < BillAmount[b]
    BY <1>3
  <2>2. /\ db.outstanding[<<b, u>>] \in Nat /\ BillAmount[b] \in Nat \ {0}
        /\ PaidOf(<<b, u>>) \in Nat
        /\ PaidOf(<<b, u>>) + db.outstanding[<<b, u>>] = BillAmount[b]
    BY <2>1, <1>1
  <2> QED
    BY <2>1, <2>2, <1>4
<1> QED
  BY <1>7, <1>8, <1>9, <1>10, <1>11, <1>12 DEF C, P, N, D

(* The sheet says what the bill's row says.                                *)
LEMMA SheetsAgree ==
  ASSUME HomesInv, NEW b \in Bill
  PROVE  Sheet(b)
<1> DEFINE C == {c \in DOMAIN db.outstanding : c[1] = b}
           P == PaidUnits(b, {})
           N == UnpaidUnits(b, {})
           H == PartlyPaid(b, {})
           bill == BillView(b)
<1>1. /\ C \in SUBSET DOMAIN db.outstanding /\ P \subseteq Unit /\ N \subseteq Unit
      /\ P \cap N = {} /\ C = {<<b, u>> : u \in P \cup N}
      /\ \A u \in P : db.outstanding[<<b, u>>] = 0 /\ PaidOf(<<b, u>>) > 0
      /\ \A u \in N : db.outstanding[<<b, u>>] > 0
      /\ \A u \in N : u \in H <=> PaidOf(<<b, u>>) # 0
  BY SheetUnits
<1>2. /\ bill.unitsBilled = Cardinality(C) /\ bill.total = Billed(C) /\ bill.collected = Paid(C)
  BY DEF BillView
<1>3. /\ Billed(C) \in Nat /\ Paid(C) \in Nat /\ SumOver(db.outstanding, C) \in Nat
      /\ Paid(C) = Billed(C) - SumOver(db.outstanding, C)
      /\ SumOver(db.outstanding, C) = 0 <=> \A c \in C : db.outstanding[c] = 0
      /\ Paid(C) = 0 <=> \A c \in C : PaidOf(c) = 0
  BY <1>1, ChargesAddUp
<1>4. IsFiniteSet(P) /\ IsFiniteSet(N)
  BY <1>1, LedgerAssumption, FS_Subset
<1>5. H \subseteq N
  BY DEF PartlyPaid
<1>6. \A u \in N : ResidentPage(u, {}).owe > 0
  <2> SUFFICES ASSUME NEW u \in N PROVE ResidentPage(u, {}).owe > 0
    OBVIOUS
  <2>1. <<b, u>> \in ChargesOf(db, u) /\ db.outstanding[<<b, u>>] > 0 /\ u \in Unit
    <3>1. <<b, u>> \in C /\ db.outstanding[<<b, u>>] > 0 /\ u \in Unit
      BY <1>1
    <3> QED
      BY <3>1 DEF ChargesOf
  <2>2. db.rollup[u].balance > 0
    BY <2>1, UnitRowFacts
  <2> QED
    BY <2>2 DEF ResidentPage
<1>7. /\ RunRow(b, {}).unitsPaid = Cardinality(P)
      /\ bill.total > 0 => RunRow(b, {}).progress = (100 * Paid(C)) \div Billed(C)
  BY <1>2 DEF RunRow
<1>8. Sheet(b) <=> /\ bill.unitsBilled = Cardinality(P) + Cardinality(N)
                   /\ bill.collected = bill.total <=> N = {}
                   /\ bill.collected = 0 <=> P \cup H = {}
                   /\ \A u \in N : ResidentPage(u, {}).owe > 0
                   /\ BillKind[b] = "SERVICE_CHARGE" /\ bill.total > 0 =>
                        (RunRow(b, {}).progress = 100 <=> RunRow(b, {}).unitsPaid = bill.unitsBilled)
  BY DEF Sheet
<1> HIDE DEF C, P, N, H, bill
<1>9. /\ Cardinality(C) = Cardinality(P) + Cardinality(N)
      /\ Cardinality(P) \in Nat /\ Cardinality(N) \in Nat
      /\ Cardinality(N) = 0 <=> N = {}
  <2> DEFINE U == P \cup N
             p == [u \in U |-> <<b, u>>]
  <2>1. p \in Bijection(U, C)
    BY <1>1 DEF Bijection, Injection, Surjection, IsInjective
  <2>2. IsFiniteSet(U) /\ Cardinality(U) = Cardinality(P) + Cardinality(N) - Cardinality(P \cap N)
    BY <1>4, FS_Union
  <2>3. Cardinality(P \cap N) = 0 /\ (Cardinality(N) = 0 <=> N = {})
    BY <1>1, <1>4, FS_EmptySet
  <2>4. Cardinality(P) \in Nat /\ Cardinality(N) \in Nat
    BY <1>4, FS_CardinalityType
  <2> HIDE DEF U, p
  <2>5. Cardinality(U) = Cardinality(C)
    <3>1. ExistsBijection(U, C)
      BY <2>1 DEF ExistsBijection
    <3> QED
      BY <2>2, <3>1, FS_Bijection
  <2> QED
    BY <2>2, <2>3, <2>4, <2>5
<1>10. Paid(C) = Billed(C) <=> N = {}
  <2>1. (\A c \in C : db.outstanding[c] = 0) <=> N = {}
    <3>1. ASSUME NEW u \in N PROVE ~(\A c \in C : db.outstanding[c] = 0)
      <4>1. <<b, u>> \in C /\ db.outstanding[<<b, u>>] > 0
        BY <1>1
      <4> QED
        BY <4>1
    <3>2. ASSUME N = {}, NEW c \in C PROVE db.outstanding[c] = 0
      <4>1. PICK u \in P : c = <<b, u>>
        BY <1>1, <3>2
      <4> QED
        BY <1>1, <4>1
    <3> QED
      BY <3>1, <3>2
  <2> QED
    BY <1>3, <2>1
<1>11. Paid(C) = 0 <=> P \cup H = {}
  <2>1. ASSUME NEW u \in P \cup H PROVE ~(\A c \in C : PaidOf(c) = 0)
    <3>1. <<b, u>> \in C /\ (PaidOf(<<b, u>>) > 0 \/ PaidOf(<<b, u>>) # 0)
      BY <1>1, <1>5
    <3> QED
      BY <3>1
  <2>2. ASSUME P \cup H = {}, NEW c \in C PROVE PaidOf(c) = 0
    <3>1. PICK u \in N : c = <<b, u>>
      BY <1>1, <2>2
    <3> QED
      BY <1>1, <2>2, <3>1
  <2> QED
    BY <1>3, <2>1, <2>2
<1>12. ASSUME bill.total > 0
       PROVE  RunRow(b, {}).progress = 100 <=> RunRow(b, {}).unitsPaid = bill.unitsBilled
  <2>1. (100 * Paid(C)) \div Billed(C) = 100 <=> Paid(C) = Billed(C)
    <3>1. Billed(C) > 0 /\ Paid(C) <= Billed(C)
      BY <1>2, <1>3, <1>12
    <3> QED
      BY <1>3, <3>1, WholePercent
  <2>2. Cardinality(P) = Cardinality(C) <=> N = {}
    BY <1>9
  <2> QED
    BY <1>2, <1>7, <1>10, <1>12, <2>1, <2>2
<1> QED
  BY <1>2, <1>6, <1>8, <1>9, <1>10, <1>11, <1>12

(* What a unit's charges on the statement say, in terms of its balance.    *)
LEMMA SettledFacts ==
  ASSUME HomesInv, NEW u \in Unit
  PROVE  LET settled == {ChargeRow(c).settled : c \in ChargesOf(db, u)}
             total   == Billed(ChargesOf(db, u))
             balance == db.rollup[u].balance
         IN  /\ total \in Nat /\ balance \in Nat /\ balance <= total
             /\ settled = {"unpaid"} <=> total > 0 /\ balance = total
             /\ settled = {"paid"} <=> total > 0 /\ balance = 0
             /\ settled = {} <=> total = 0
<1> DEFINE S == ChargesOf(db, u)
           settled == {ChargeRow(c).settled : c \in S}
           total == Billed(S)
           balance == db.rollup[u].balance
<1>1. /\ S \in SUBSET DOMAIN db.outstanding /\ balance = SumOver(db.outstanding, S)
      /\ balance \in Nat /\ balance <= total
  BY UnitRowFacts
<1>2. /\ total \in Nat /\ Paid(S) = total - balance
      /\ balance = 0 <=> \A c \in S : db.outstanding[c] = 0
      /\ Paid(S) = 0 <=> \A c \in S : PaidOf(c) = 0
      /\ total = 0 <=> S = {}
  BY <1>1, ChargesAddUp
<1>3. ASSUME NEW c \in S
      PROVE  /\ ChargeRow(c).settled \in {"paid", "unpaid", "partial"}
             /\ ChargeRow(c).settled = "paid" <=> db.outstanding[c] = 0
             /\ ChargeRow(c).settled = "unpaid" <=> PaidOf(c) = 0
  <2>1. /\ db.outstanding[c] \in Nat /\ BillAmount[c[1]] \in Nat \ {0} /\ PaidOf(c) \in Nat
        /\ PaidOf(c) + db.outstanding[c] = BillAmount[c[1]]
    BY <1>1, ChargeFacts
  <2>2. ChargeRow(c).settled = IF db.outstanding[c] <= 0 THEN "paid"
                               ELSE IF db.outstanding[c] >= BillAmount[c[1]] THEN "unpaid" ELSE "partial"
    BY DEF ChargeRow
  <2>3. CASE db.outstanding[c] = 0
    BY <2>1, <2>2, <2>3
  <2>4. CASE db.outstanding[c] > 0
    BY <2>1, <2>2, <2>4
  <2> QED
    BY <2>1, <2>3, <2>4
<1>4. settled = {} <=> S = {}
  OBVIOUS
<1>5. \A s : s \in settled <=> \E c \in S : ChargeRow(c).settled = s
  OBVIOUS
<1> HIDE DEF settled, total, balance, S
<1>6. settled = {"paid"} <=> S # {} /\ \A c \in S : db.outstanding[c] = 0
  BY <1>3, <1>5
<1>7. settled = {"unpaid"} <=> S # {} /\ \A c \in S : PaidOf(c) = 0
  BY <1>3, <1>5
<1>8. Paid(S) = 0 <=> balance = total
  BY <1>1, <1>2
<1>9. /\ settled = {"unpaid"} <=> total > 0 /\ balance = total
      /\ settled = {"paid"} <=> total > 0 /\ balance = 0
      /\ settled = {} <=> total = 0
  BY <1>1, <1>2, <1>4, <1>6, <1>7, <1>8
<1> QED
  BY <1>1, <1>2, <1>9 DEF settled, total, balance, S

(* The units page lists a unit under what its statement says.              *)
LEMMA UnitsFiltered ==
  ASSUME HomesInv, NEW u \in Unit
  PROVE  LET settled == {ChargeRow(c).settled : c \in ChargesOf(db, u)}
         IN  /\ u \in DOMAIN UnitsPage("OVERDUE", {}) <=> settled = {"unpaid"}
             /\ u \in DOMAIN UnitsPage("PARTIAL", {}) <=> settled \notin {{}, {"paid"}, {"unpaid"}}
             /\ u \in DOMAIN UnitsPage("PAID", {}) =>
                  settled = {"paid"} /\ UnitsPage("PAID", {})[u] = [says |-> "balance", amount |-> 0]
             /\ u \in DOMAIN UnitsPage("CREDIT", {}) => Tile(u).says = "credit"
<1> DEFINE settled == {ChargeRow(c).settled : c \in ChargesOf(db, u)}
           total == Billed(ChargesOf(db, u))
           balance == db.rollup[u].balance
           credit == db.rollup[u].credit
           status == UnitStatus(u)
<1>1. /\ total \in Nat /\ balance \in Nat /\ balance <= total
      /\ settled = {"unpaid"} <=> total > 0 /\ balance = total
      /\ settled = {"paid"} <=> total > 0 /\ balance = 0
      /\ settled = {} <=> total = 0
  BY SettledFacts
<1>2. credit \in Nat
  BY UnitRowFacts
<1>3. \A s : u \in DOMAIN UnitsPage(s, {}) <=> status = s
  BY DEF UnitsPage
<1>4. status = CASE credit > 0 /\ (total <= 0 \/ balance <= 0)  -> "CREDIT"
                 [] credit <= 0 /\ total <= 0                   -> "UNBILLED"
                 [] credit <= 0 /\ total > 0 /\ balance <= 0    -> "PAID"
                 [] total > 0 /\ balance > 0 /\ balance < total -> "PARTIAL"
                 [] total > 0 /\ balance >= total               -> "OVERDUE"
  BY DEF UnitStatus
<1>5. status = "PAID" /\ credit = 0 /\ balance = 0 =>
        UnitsPage("PAID", {})[u] = [says |-> "balance", amount |-> 0]
  BY DEF UnitsPage
<1>6. balance = 0 /\ credit > 0 => Tile(u).says = "credit"
  BY DEF Tile
<1> HIDE DEF settled, total, balance, credit, status
<1>7. /\ status = "CREDIT" <=> credit > 0 /\ balance = 0
      /\ status = "PAID" <=> credit = 0 /\ total > 0 /\ balance = 0
      /\ status = "PARTIAL" <=> total > 0 /\ balance > 0 /\ balance < total
      /\ status = "OVERDUE" <=> total > 0 /\ balance = total
  <2>1. CASE balance = 0 /\ credit > 0
    BY <1>1, <1>2, <1>4, <2>1
  <2>2. CASE balance = 0 /\ credit = 0 /\ total = 0
    BY <1>1, <1>2, <1>4, <2>2
  <2>3. CASE balance = 0 /\ credit = 0 /\ total > 0
    BY <1>1, <1>2, <1>4, <2>3
  <2>4. CASE balance > 0 /\ balance < total
    BY <1>1, <1>2, <1>4, <2>4
  <2>5. CASE balance > 0 /\ balance = total
    BY <1>1, <1>2, <1>4, <2>5
  <2> QED
    BY <1>1, <1>2, <2>1, <2>2, <2>3, <2>4, <2>5
<1>8. u \in DOMAIN UnitsPage("OVERDUE", {}) <=> settled = {"unpaid"}
  BY <1>1, <1>3, <1>7
<1>9. u \in DOMAIN UnitsPage("PARTIAL", {}) <=> settled \notin {{}, {"paid"}, {"unpaid"}}
  <2>1. settled \notin {{}, {"paid"}, {"unpaid"}}
          <=> ~(total = 0) /\ ~(total > 0 /\ balance = 0) /\ ~(total > 0 /\ balance = total)
    BY <1>1
  <2>2. status = "PARTIAL"
          <=> ~(total = 0) /\ ~(total > 0 /\ balance = 0) /\ ~(total > 0 /\ balance = total)
    BY <1>1, <1>7
  <2> QED
    BY <1>3, <2>1, <2>2
<1>10. u \in DOMAIN UnitsPage("PAID", {}) =>
         settled = {"paid"} /\ UnitsPage("PAID", {})[u] = [says |-> "balance", amount |-> 0]
  BY <1>1, <1>3, <1>5, <1>7
<1>11. u \in DOMAIN UnitsPage("CREDIT", {}) => Tile(u).says = "credit"
  BY <1>3, <1>6, <1>7
<1> QED
  BY <1>8, <1>9, <1>10, <1>11 DEF settled

(* A payment without a unit that is not in the list of reversals waits in  *)
(* the queue.                                                              *)
LEMMA UnmatchedWait ==
  ASSUME HomesInv, NEW status \in PaymentStatus \ {"REVERSED"},
         NEW r \in DOMAIN PaymentsPage(status, {}), PaymentsPage(status, {})[r] = "unmatched"
  PROVE  status = "EXCEPTION" /\ r \in Queue
<1>1. /\ r \in Ref /\ HasPayment(db, r) /\ db.payment[r].status = status
      /\ db.payment[r].unit \notin Unit
  BY DEF PaymentsPage, PaymentView
<1>2. db.payment[r].unit = NoUnit
  <2>1. db.payment \in [Ref -> [status : PaymentStatus, unit : Unit \cup {NoUnit}]]
    BY OutstandingFacts DEF Outstanding, Tables
  <2>2. db.payment[r].unit \in Unit \cup {NoUnit}
    BY <1>1, <2>1
  <2> QED
    BY <1>1, <2>2
<1>3. status = "EXCEPTION"
  <2>1. Housed(db, r)
    BY <1>1 DEF HomesInv, Homes
  <2> QED
    BY <1>1, <1>2, <2>1 DEF Housed, HasPayment
<1>4. db.exception[r].open
  <2>1. Known(db, clawedBack, r)
    BY <1>1 DEF HomesInv, SerialInv, ReviewInv, BooksInv
  <2>2. db.payment[r].status = "EXCEPTION" /\ ~db.exception[r].open => db.exception[r].type = "DUPLICATE"
    BY <2>1 DEF Known
  <2>3. db.exception[r].type = "DUPLICATE" => db.payment[r].unit \in Unit
    BY <2>1 DEF Known
  <2> QED
    BY <1>1, <1>3, <2>2, <2>3
<1> QED
  BY <1>1, <1>3, <1>4 DEF Queue, PaymentView

(* So the filters say what the statements and the queue say.               *)
LEMMA FiltersAgree ==
  ASSUME HomesInv
  PROVE  Filters
<1>1. \A u \in Unit :
        LET settled == {ChargeRow(c).settled : c \in ChargesOf(db, u)}
        IN  /\ u \in DOMAIN UnitsPage("OVERDUE", {}) <=> settled = {"unpaid"}
            /\ u \in DOMAIN UnitsPage("PARTIAL", {}) <=> settled \notin {{}, {"paid"}, {"unpaid"}}
            /\ u \in DOMAIN UnitsPage("PAID", {}) =>
                 settled = {"paid"} /\ UnitsPage("PAID", {})[u] = [says |-> "balance", amount |-> 0]
            /\ u \in DOMAIN UnitsPage("CREDIT", {}) => Tile(u).says = "credit"
  BY UnitsFiltered
<1>2. \A status \in PaymentStatus \ {"REVERSED"} :
        LET page == PaymentsPage(status, {})
        IN  \A r \in DOMAIN page : page[r] = "unmatched" => status = "EXCEPTION" /\ r \in Queue
  BY UnmatchedWait
<1> QED
  BY <1>1, <1>2 DEF Filters

(* So the pages agree with one another.                                    *)
LEMMA PagesSayTheSame ==
  ASSUME HomesInv
  PROVE  PagesAgree
<1>1. \A report \in {Reports(4), Reports(34)} :
        report.outstanding = SumOver(report.buckets, DOMAIN report.buckets)
  BY BucketsHoldAll
<1>2. \A gone \in SUBSET Unit : Figures(gone, Reports(34))
  BY FiguresAgree
<1>3. \A b \in Bill : Sheet(b)
  BY SheetsAgree
<1>4. Filters
  BY FiltersAgree
<1> QED
  BY <1>1, <1>2, <1>3, <1>4, CollectedFromPayers, CollectedByBill DEF PagesAgree

(* The figures that the pages compute each from other rows agree, whatever *)
(* units are deleted, when deliveries are handled one at a time.           *)
THEOREM ThePagesAgree == OneHandler => (Spec => []PagesAgree)
<1>1. HomesInv => PagesAgree
  BY PagesSayTheSame
<1> QED
  BY <1>1, HomesInvariant, PTL
=============================================================================
