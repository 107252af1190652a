---------------------------- MODULE EngineProofs ----------------------------
(***************************************************************************)
(* Proofs about the engine (Reconciliation), for every set of charges and  *)
(* every payment.  In order:                                               *)
(*                                                                         *)
(*  - induction over finite sets, and sums;                                *)
(*  - the order of the charges, one turn of the allocation loop, the whole *)
(*    loop, and what reconcile returns (ReconcileResult).                  *)
(***************************************************************************)
EXTENDS Reconciliation, FiniteSetTheorems, WellFoundedInduction, TLAPS

(* Induction over the numbers, with the property as a set: the form in     *)
(* which the library's well-founded induction can be used.                 *)
LEMMA SetInduction ==
  ASSUME NEW P, 0 \in P, \A n \in Nat : n \in P => n + 1 \in P
  PROVE  Nat \subseteq P
<1> DEFINE T == Nat \ P
           R == OpToRel(<, Nat)
<1> SUFFICES ASSUME T # {} PROVE FALSE
  OBVIOUS
<1>1. PICK x \in T : \A y \in T : ~ (<<y, x>> \in R)
  <2>1. T \subseteq Nat
    OBVIOUS
  <2> HIDE DEF T, R
  <2>2. IsWellFoundedOn(R, Nat)
    BY NatLessThanWellFounded DEF R
  <2> QED
    BY <2>1, <2>2, WFMin
<1>2. x \in Nat /\ x # 0 /\ x - 1 \in Nat
  OBVIOUS
<1>3. x - 1 \in T
  BY <1>2
<1>4. <<x - 1, x>> \in R
  BY <1>2 DEF OpToRel
<1> QED
  BY <1>1, <1>3, <1>4

(* Induction over the subsets of a finite set, in the same form: what holds *)
(* of a set once it holds of the set without any one of its elements.      *)
LEMMA FiniteInduction ==
  ASSUME NEW S, IsFiniteSet(S), NEW Q,
         \A T \in SUBSET S : (\A x \in T : T \ {x} \in Q) => T \in Q
  PROVE  SUBSET S \subseteq Q
<1> DEFINE P == {n \in Nat : \A T \in SUBSET S : Cardinality(T) = n => T \in Q}
<1>0. Cardinality({}) = 0
  BY FS_EmptySet
<1>1. \A T \in SUBSET S : IsFiniteSet(T) /\ Cardinality(T) \in Nat
  BY FS_Subset, FS_CardinalityType
<1>2. 0 \in P
  <2>1. \A T \in SUBSET S : Cardinality(T) = 0 => T = {}
    BY <1>1, FS_EmptySet
  <2> QED
    BY <2>1
<1>3. ASSUME NEW n \in Nat, n \in P PROVE n + 1 \in P
  <2> SUFFICES ASSUME NEW T \in SUBSET S, Cardinality(T) = n + 1 PROVE T \in Q
    OBVIOUS
  <2>1. ASSUME NEW x \in T PROVE T \ {x} \in Q
    <3>1. Cardinality(T \ {x}) = Cardinality(T) - 1
      BY <1>1, FS_RemoveElement
    <3>2. Cardinality(T \ {x}) = n /\ T \ {x} \in SUBSET S
      BY <3>1
    <3> QED
      BY <1>3, <3>2
  <2> QED
    BY <2>1
<1>4. Nat \subseteq P
  <2> HIDE DEF P
  <2> QED
    BY <1>2, <1>3, SetInduction
<1> QED
  BY <1>1, <1>4

IsFold(g, S, base, F, pick) ==
  g = [s \in SUBSET S |-> IF s = {} THEN base ELSE F[<<pick[s], g[s \ {pick[s]}]>>]]

(* Functions with the same values are the same.                            *)
LEMMA SameFunction ==
  ASSUME NEW D, NEW a, NEW b, a = [x \in D |-> a[x]], b = [x \in D |-> b[x]],
         \A x \in D : a[x] = b[x]
  PROVE  a = b
<1>1. [x \in D |-> a[x]] = [x \in D |-> b[x]]
  OBVIOUS
<1> QED
  BY <1>1

(* A function defined by taking one picked element at a time out of a      *)
(* finite set exists: the form of every sum and of the fold over the       *)
(* charges.                                                                *)
LEMMA FoldExists ==
  ASSUME NEW S, IsFiniteSet(S), NEW V, NEW base \in V, NEW F \in [S \X V -> V], NEW pick,
         \A s \in SUBSET S : s # {} => pick[s] \in s
  PROVE  \E g \in [SUBSET S -> V] : IsFold(g, S, base, F, pick)
<1> DEFINE Eq(g, s) == g[s] = IF s = {} THEN base ELSE F[<<pick[s], g[s \ {pick[s]}]>>]
           P == {n \in Nat : \E g \in [SUBSET S -> V] : \A s \in SUBSET S :
                                Cardinality(s) <= n => Eq(g, s)}
<1>0. Cardinality({}) = 0
  BY FS_EmptySet
<1>1. \A T \in SUBSET S : IsFiniteSet(T) /\ Cardinality(T) \in Nat
  BY FS_Subset, FS_CardinalityType
<1>2. 0 \in P
  <2>1. [s \in SUBSET S |-> base] \in [SUBSET S -> V]
    OBVIOUS
  <2>2. \A s \in SUBSET S : Cardinality(s) <= 0 => s = {}
    BY <1>1, FS_EmptySet
  <2> QED
    BY <2>1, <2>2
<1>3. ASSUME NEW n \in Nat, n \in P PROVE n + 1 \in P
  <2>1. PICK g \in [SUBSET S -> V] : \A s \in SUBSET S : Cardinality(s) <= n => Eq(g, s)
    BY <1>3
  <2> DEFINE h == [s \in SUBSET S |->
                     IF Cardinality(s) <= n THEN g[s] ELSE F[<<pick[s], g[s \ {pick[s]}]>>]]
  <2>2. \A s \in SUBSET S : s # {} =>
          /\ pick[s] \in s /\ s \ {pick[s]} \in SUBSET S
          /\ Cardinality(s \ {pick[s]}) = Cardinality(s) - 1
    BY <1>1, FS_RemoveElement
  <2>3. ASSUME NEW s \in SUBSET S, ~(Cardinality(s) <= n) PROVE s # {}
    <3> SUFFICES ASSUME s = {} PROVE Cardinality(s) <= n
      BY <2>3
    <3>1. Cardinality(s) = 0
      BY <1>0
    <3> QED
      BY <3>1
  <2>4. h \in [SUBSET S -> V]
    BY <2>2, <2>3
  <2>5. ASSUME NEW s \in SUBSET S, Cardinality(s) <= n + 1 PROVE Eq(h, s)
    <3>1. CASE s = {}
      BY <3>1, <2>1, FS_EmptySet
    <3>2. CASE s # {}
      <4> DEFINE t == s \ {pick[s]}
      <4>1. t \in SUBSET S /\ Cardinality(t) <= n
        BY <3>2, <2>2, <2>5, <1>1
      <4>2. h[t] = g[t]
        BY <4>1
      <4>3. h[s] = F[<<pick[s], g[t]>>]
        BY <3>2, <2>1
      <4> QED
        BY <3>2, <4>2, <4>3
    <3> QED
      BY <3>1, <3>2
  <2> HIDE DEF h, Eq
  <2> QED
    BY <2>4, <2>5
<1>4. Nat \subseteq P
  <2> HIDE DEF P
  <2> QED
    BY <1>2, <1>3, SetInduction
<1>5. PICK g \in [SUBSET S -> V] : \A s \in SUBSET S : Cardinality(s) <= Cardinality(S) => Eq(g, s)
  <2>1. Cardinality(S) \in P
    BY <1>1, <1>4
  <2> QED
    BY <2>1
<1>6. \A s \in SUBSET S : Eq(g, s)
  BY <1>1, <1>5, FS_Subset
<1>7. g = [s \in SUBSET S |-> IF s = {} THEN base ELSE F[<<pick[s], g[s \ {pick[s]}]>>]]
  <2> DEFINE h == [s \in SUBSET S |-> IF s = {} THEN base ELSE F[<<pick[s], g[s \ {pick[s]}]>>]]
  <2>1. \A s \in SUBSET S : g[s] = h[s]
    BY <1>6
  <2>2. g = [s \in SUBSET S |-> g[s]] /\ h = [s \in SUBSET S |-> h[s]]
    OBVIOUS
  <2>3. h = [s \in SUBSET S |-> IF s = {} THEN base ELSE F[<<pick[s], g[s \ {pick[s]}]>>]]
    OBVIOUS
  <2> HIDE DEF h
  <2>4. g = h
    <3> QED
      BY <2>1, <2>2, SameFunction
  <2> QED
    BY <2>3, <2>4
<1> QED
  BY <1>7 DEF IsFold
-----------------------------------------------------------------------------
SumFrom(g, f, S) ==
  g = [s \in SUBSET S |-> IF s = {} THEN 0
                          ELSE f[CHOOSE x \in s : TRUE] + g[s \ {CHOOSE x \in s : TRUE}]]

SumOf(f, S) == CHOOSE g : SumFrom(g, f, S)

(* The sum is the value of its fold at the whole set.                      *)
LEMMA SumIsFold ==
  ASSUME NEW f, NEW S PROVE SumOver(f, S) = SumOf(f, S)[S]
BY DEF SumOver, SumOf, SumFrom, MapThenSumSet, MapThenFoldSet

Numbers(f, S) == \A x \in S : f[x] \in Int

(* The equation of the fold, element by element.                           *)
LEMMA SumFromEq ==
  \A g, f, S : SumFrom(g, f, S) => \A T \in SUBSET S :
    g[T] = IF T = {} THEN 0
           ELSE f[CHOOSE x \in T : TRUE] + g[T \ {CHOOSE x \in T : TRUE}]
BY DEF SumFrom

(* The fold of a sum of integers satisfies its equation.                   *)
LEMMA SumExists ==
  ASSUME NEW f, NEW S, IsFiniteSet(S), Numbers(f, S)
  PROVE  SumFrom(SumOf(f, S), f, S)
<1> DEFINE pick == [s \in SUBSET S |-> CHOOSE x \in s : TRUE]
           F == [p \in S \X Int |-> f[p[1]] + p[2]]
<1>1. \A s \in SUBSET S : s # {} => pick[s] \in s
  OBVIOUS
<1>2. F \in [S \X Int -> Int]
  BY DEF Numbers
<1>a. \A x \in S, v \in Int : F[<<x, v>>] = f[x] + v
  OBVIOUS
<1>3. PICK g \in [SUBSET S -> Int] : IsFold(g, S, 0, F, pick)
  <2>1. 0 \in Int
    OBVIOUS
  <2> HIDE DEF F, pick
  <2> QED
    BY <1>1, <1>2, <2>1, FoldExists
<1> DEFINE h == [s \in SUBSET S |-> IF s = {} THEN 0
                          ELSE f[CHOOSE x \in s : TRUE] + g[s \ {CHOOSE x \in s : TRUE}]]
<1>4. \A s \in SUBSET S : g[s] = h[s]
  <2> SUFFICES ASSUME NEW s \in SUBSET S PROVE g[s] = h[s]
    OBVIOUS
  <2>1. g[s] = IF s = {} THEN 0 ELSE F[<<pick[s], g[s \ {pick[s]}]>>]
    BY <1>3 DEF IsFold
  <2>2. CASE s = {}
    BY <2>1, <2>2
  <2>3. CASE s # {}
    <3>1. pick[s] \in S /\ g[s \ {pick[s]}] \in Int
      BY <1>1, <2>3
    <3> HIDE DEF F
    <3>2. F[<<pick[s], g[s \ {pick[s]}]>>] = f[pick[s]] + g[s \ {pick[s]}]
      BY <3>1, <1>a
    <3> QED
      BY <2>1, <2>3, <3>2
  <2> QED
    BY <2>2, <2>3
<1>5. g = h
  <2>1. g = [s \in SUBSET S |-> g[s]] /\ h = [s \in SUBSET S |-> h[s]]
    OBVIOUS
  <2> HIDE DEF h
  <2> QED
    BY <1>4, <2>1
<1>6. SumFrom(g, f, S)
  BY <1>5 DEF SumFrom
<1> QED
  BY <1>6 DEF SumOf

(* The fold for a set holds the sums of its parts.                         *)
LEMMA SumPart ==
  ASSUME NEW f, NEW S, IsFiniteSet(S), Numbers(f, S), NEW T \in SUBSET S
  PROVE  SumOf(f, S)[T] = SumOver(f, T)
<1> DEFINE g == SumOf(f, S)
           h == SumOf(f, T)
           Q == {s \in SUBSET T : g[s] = h[s]}
<1>1. IsFiniteSet(T) /\ Numbers(f, T)
  BY FS_Subset DEF Numbers
<1>2. SumFrom(g, f, S) /\ SumFrom(h, f, T)
  BY <1>1, SumExists
<1>3. h[T] = SumOver(f, T)
  BY SumIsFold
<1> HIDE DEF g, h
<1>5. \A s \in SUBSET S :
        g[s] = IF s = {} THEN 0 ELSE
          f[CHOOSE x \in s : TRUE] + g[s \ {CHOOSE x \in s : TRUE}]
  BY <1>2 DEF SumFrom
<1>6. \A s \in SUBSET T :
        h[s] = IF s = {} THEN 0 ELSE
          f[CHOOSE x \in s : TRUE] + h[s \ {CHOOSE x \in s : TRUE}]
  BY <1>2 DEF SumFrom
<1>4. ASSUME NEW s \in SUBSET T, \A x \in s : s \ {x} \in Q PROVE s \in Q
  <2>0. s \in SUBSET S
    OBVIOUS
  <2>1. g[s] = IF s = {} THEN 0 ELSE
          f[CHOOSE x \in s : TRUE] + g[s \ {CHOOSE x \in s : TRUE}]
    BY <1>5, <2>0
  <2>3. h[s] = IF s = {} THEN 0 ELSE
          f[CHOOSE x \in s : TRUE] + h[s \ {CHOOSE x \in s : TRUE}]
    BY <1>6
  <2>2. s # {} => s \ {CHOOSE x \in s : TRUE} \in Q
    BY <1>4
  <2> QED
    BY <2>1, <2>2, <2>3
<1>7. SUBSET T \subseteq Q
  <2> HIDE DEF Q
  <2> QED
    BY <1>1, <1>4, FiniteInduction
<1>8. g[T] = h[T]
  BY <1>7
<1> QED
  BY <1>8, <1>3 DEF g

(* The facts about sums that the proofs use.                               *)
LEMMA SumEmpty == \A f : SumOver(f, {}) = 0
<1> SUFFICES ASSUME NEW f PROVE SumOver(f, {}) = 0
  OBVIOUS
<1>1. IsFiniteSet({}) /\ Numbers(f, {})
  BY FS_EmptySet DEF Numbers
<1>2. SumFrom(SumOf(f, {}), f, {})
  BY <1>1, SumExists
<1>3. SumOf(f, {})[{}] = 0
  BY <1>2, SumFromEq
<1> QED
  BY <1>3, SumIsFold

(* Any element may be taken out first: the order of adding does not        *)
(* matter.                                                                 *)
LEMMA SumRemove ==
  ASSUME NEW f, NEW S, IsFiniteSet(S), Numbers(f, S)
  PROVE  /\ SumOver(f, S) \in Int
         /\ \A x \in S : SumOver(f, S) = f[x] + SumOver(f, S \ {x})
<1> DEFINE g == SumOf(f, S)
           P == {s \in SUBSET S : g[s] \in Int}
           Q == {s \in SUBSET S : \A x \in s : g[s] = f[x] + g[s \ {x}]}
<1>1. SumFrom(g, f, S)
  BY SumExists
<1>5. SumOver(f, S) = g[S] /\ \A x \in S : SumOver(f, S \ {x}) = g[S \ {x}]
  BY SumPart
<1> HIDE DEF g
<1>3. \A s \in SUBSET S :
        g[s] = IF s = {} THEN 0
               ELSE f[CHOOSE x \in s : TRUE] + g[s \ {CHOOSE x \in s : TRUE}]
  BY <1>1 DEF SumFrom
<1>6. \A s \in SUBSET S : g[s] \in Int
  <2>1. ASSUME NEW s \in SUBSET S, \A x \in s : s \ {x} \in P PROVE s \in P
    <3>1. g[s] = IF s = {} THEN 0
                 ELSE f[CHOOSE x \in s : TRUE] + g[s \ {CHOOSE x \in s : TRUE}]
      BY <1>3
    <3>2. s # {} => f[CHOOSE x \in s : TRUE] \in Int /\ g[s \ {CHOOSE x \in s : TRUE}] \in Int
      BY <2>1 DEF Numbers
    <3> QED
      BY <3>1, <3>2
  <2>2. SUBSET S \subseteq P
    <3> HIDE DEF P
    <3> QED
      BY <2>1, FiniteInduction
  <2> QED
    BY <2>2
<1>2. ASSUME NEW s \in SUBSET S, \A x \in s : s \ {x} \in Q PROVE s \in Q
  <2> DEFINE p == CHOOSE x \in s : TRUE
  <2>1. g[s] = IF s = {} THEN 0 ELSE f[p] + g[s \ {p}]
    BY <1>3
  <2>2. CASE s = {}
    BY <2>1, <2>2
  <2>3. CASE s # {}
    <3>1. p \in s /\ f[p] \in Int /\ g[s \ {p}] \in Int
      BY <1>6, <2>3 DEF Numbers
    <3> HIDE DEF p
    <3>3. ASSUME NEW x \in s PROVE g[s] = f[x] + g[s \ {x}]
      <4>1. CASE x = p
        BY <2>1, <2>3, <4>1
      <4>2. CASE x # p
        <5>1. s \ {x} \in Q /\ s \ {p} \in Q
          BY <1>2, <3>1
        <5>2. x \in s \ {p} /\ p \in s \ {x}
          BY <3>1, <4>2
        <5>3. g[s \ {p}] = f[x] + g[(s \ {p}) \ {x}] /\ g[s \ {x}] = f[p] + g[(s \ {x}) \ {p}]
          BY <5>1, <5>2
        <5>4. (s \ {p}) \ {x} = (s \ {x}) \ {p}
          OBVIOUS
        <5>5. f[x] \in Int /\ g[(s \ {p}) \ {x}] \in Int
          BY <1>6 DEF Numbers
        <5>6. g[s] = f[p] + (f[x] + g[(s \ {p}) \ {x}])
          BY <2>1, <2>3, <5>3
        <5>7. g[s \ {x}] = f[p] + g[(s \ {p}) \ {x}]
          BY <5>3, <5>4
        <5> QED
          BY <3>1, <5>5, <5>6, <5>7
      <4> QED
        BY <4>1, <4>2
    <3> QED
      BY <3>3
  <2> QED
    BY <2>2, <2>3
<1>7. SUBSET S \subseteq Q
  <2> HIDE DEF Q
  <2> QED
    BY <1>2, FiniteInduction
<1>4. g[S] \in Int /\ \A x \in S : g[S] = f[x] + g[S \ {x}]
  BY <1>7, <1>6
<1> QED
  BY <1>4, <1>5

(* A sum of integers is an integer.                                        *)
LEMMA SumType ==
  ASSUME NEW f, NEW S, IsFiniteSet(S), Numbers(f, S)
  PROVE  SumOver(f, S) \in Int
BY SumRemove

(* The sum of the sums.                                                    *)
LEMMA SumAdd ==
  ASSUME NEW f, NEW g, NEW h, NEW S, IsFiniteSet(S), Numbers(f, S), Numbers(g, S),
         \A x \in S : h[x] = f[x] + g[x]
  PROVE  SumOver(h, S) = SumOver(f, S) + SumOver(g, S)
<1> DEFINE Q == {s \in SUBSET S : SumOver(h, s) = SumOver(f, s) + SumOver(g, s)}
<1>1. ASSUME NEW s \in SUBSET S, \A x \in s : s \ {x} \in Q PROVE s \in Q
  <2>1. CASE s = {}
    BY <2>1, SumEmpty
  <2>2. CASE s # {}
    <3>1. PICK x \in s : TRUE
      BY <2>2
    <3>2. /\ IsFiniteSet(s) /\ Numbers(f, s) /\ Numbers(g, s) /\ Numbers(h, s)
          /\ IsFiniteSet(s \ {x}) /\ Numbers(f, s \ {x}) /\ Numbers(g, s \ {x})
      BY FS_Subset DEF Numbers
    <3>3. /\ SumOver(f, s) = f[x] + SumOver(f, s \ {x})
          /\ SumOver(g, s) = g[x] + SumOver(g, s \ {x})
          /\ SumOver(h, s) = h[x] + SumOver(h, s \ {x})
      BY <3>2, SumRemove
    <3>4. SumOver(f, s \ {x}) \in Int /\ SumOver(g, s \ {x}) \in Int
      BY <3>2, SumType
    <3>5. SumOver(h, s \ {x}) = SumOver(f, s \ {x}) + SumOver(g, s \ {x})
      BY <1>1
    <3>6. f[x] \in Int /\ g[x] \in Int /\ h[x] = f[x] + g[x]
      BY <3>2 DEF Numbers
    <3> QED
      BY <3>3, <3>4, <3>5, <3>6
  <2> QED
    BY <2>1, <2>2
<1>2. SUBSET S \subseteq Q
  <2> HIDE DEF Q
  <2> QED
    BY <1>1, FiniteInduction
<1> QED
  BY <1>2

(* Terms that agree have the same sum.                                     *)
LEMMA SumCongruence ==
  ASSUME NEW f, NEW g, NEW S, IsFiniteSet(S), Numbers(f, S), \A x \in S : g[x] = f[x]
  PROVE  SumOver(g, S) = SumOver(f, S)
<1> DEFINE Q == {s \in SUBSET S : SumOver(g, s) = SumOver(f, s)}
<1>1. ASSUME NEW s \in SUBSET S, \A x \in s : s \ {x} \in Q PROVE s \in Q
  <2>1. CASE s = {}
    BY <2>1, SumEmpty
  <2>2. CASE s # {}
    <3>1. PICK x \in s : TRUE
      BY <2>2
    <3>2. IsFiniteSet(s) /\ Numbers(f, s) /\ Numbers(g, s)
      BY FS_Subset DEF Numbers
    <3>3. /\ SumOver(f, s) = f[x] + SumOver(f, s \ {x})
          /\ SumOver(g, s) = g[x] + SumOver(g, s \ {x})
      BY <3>2, SumRemove
    <3> QED
      BY <1>1, <3>3
  <2> QED
    BY <2>1, <2>2
<1>2. SUBSET S \subseteq Q
  <2> HIDE DEF Q
  <2> QED
    BY <1>1, FiniteInduction
<1> QED
  BY <1>2

(* One term changes.                                                       *)
LEMMA SumUpdate ==
  ASSUME NEW f, NEW g, NEW S, IsFiniteSet(S), Numbers(f, S), NEW x \in S, g[x] \in Int,
         \A y \in S \ {x} : g[y] = f[y]
  PROVE  SumOver(g, S) = SumOver(f, S) - f[x] + g[x]
<1>1. IsFiniteSet(S \ {x}) /\ Numbers(f, S \ {x}) /\ Numbers(g, S)
  BY FS_Subset DEF Numbers
<1>2. SumOver(g, S \ {x}) = SumOver(f, S \ {x})
  BY <1>1, SumCongruence
<1>3. SumOver(f, S) = f[x] + SumOver(f, S \ {x}) /\ SumOver(g, S) = g[x] + SumOver(g, S \ {x})
  BY <1>1, SumRemove
<1>4. SumOver(f, S \ {x}) \in Int /\ f[x] \in Int
  BY <1>1, SumType DEF Numbers
<1> QED
  BY <1>2, <1>3, <1>4

(* Terms that are zero need not be added.                                  *)
LEMMA SumWithin ==
  ASSUME NEW f, NEW S, IsFiniteSet(S), Numbers(f, S), NEW U \in SUBSET S,
         \A x \in S \ U : f[x] = 0
  PROVE  SumOver(f, S) = SumOver(f, U)
<1> DEFINE Q == {s \in SUBSET S : SumOver(f, s) = SumOver(f, s \cap U)}
<1>1. ASSUME NEW s \in SUBSET S, \A x \in s : s \ {x} \in Q PROVE s \in Q
  <2>1. CASE s \subseteq U
    <3>1. s \cap U = s
      BY <2>1
    <3> QED
      BY <3>1
  <2>2. CASE ~(s \subseteq U)
    <3>1. PICK x \in s : x \notin U
      BY <2>2
    <3>2. IsFiniteSet(s) /\ Numbers(f, s) /\ IsFiniteSet(s \ {x}) /\ Numbers(f, s \ {x})
      BY FS_Subset DEF Numbers
    <3>3. SumOver(f, s) = f[x] + SumOver(f, s \ {x}) /\ f[x] = 0 /\ SumOver(f, s \ {x}) \in Int
      BY <3>1, <3>2, SumRemove
    <3>4. (s \ {x}) \cap U = s \cap U
      BY <3>1
    <3>5. SumOver(f, s \ {x}) = SumOver(f, (s \ {x}) \cap U)
      BY <1>1
    <3> QED
      BY <3>3, <3>4, <3>5
  <2> QED
    BY <2>1, <2>2
<1>2. SUBSET S \subseteq Q
  <2> HIDE DEF Q
  <2> QED
    BY <1>1, FiniteInduction
<1>3. S \cap U = U
  OBVIOUS
<1> QED
  BY <1>2, <1>3

(* A sum of zeros is zero.                                                 *)
LEMMA SumZero ==
  ASSUME NEW f, NEW S, IsFiniteSet(S), \A x \in S : f[x] = 0
  PROVE  SumOver(f, S) = 0
<1>1. Numbers(f, S)
  BY DEF Numbers
<1>2. SumOver(f, S) = SumOver(f, {})
  BY <1>1, SumWithin
<1> QED
  BY <1>2, SumEmpty

(* A sum of natural numbers is a natural number.                           *)
LEMMA SumNat ==
  ASSUME NEW f, NEW S, IsFiniteSet(S), \A x \in S : f[x] \in Nat
  PROVE  SumOver(f, S) \in Nat
<1> DEFINE Q == {s \in SUBSET S : SumOver(f, s) \in Nat}
<1>1. ASSUME NEW s \in SUBSET S, \A x \in s : s \ {x} \in Q PROVE s \in Q
  <2>1. CASE s = {}
    BY <2>1, SumEmpty
  <2>2. CASE s # {}
    <3>1. PICK x \in s : TRUE
      BY <2>2
    <3>2. IsFiniteSet(s) /\ Numbers(f, s)
      BY FS_Subset DEF Numbers
    <3>3. SumOver(f, s) = f[x] + SumOver(f, s \ {x}) /\ SumOver(f, s \ {x}) \in Nat
      BY <3>2, SumRemove, <1>1
    <3> QED
      BY <3>3
  <2> QED
    BY <2>1, <2>2
<1>2. SUBSET S \subseteq Q
  <2> HIDE DEF Q
  <2> QED
    BY <1>1, FiniteInduction
<1> QED
  BY <1>2

(* The terms may be added up under other names.                            *)
LEMMA SumRename ==
  ASSUME NEW f, NEW S, IsFiniteSet(S), NEW T, IsFiniteSet(T), NEW p \in [S -> T],
         \A x, y \in S : p[x] = p[y] => x = y, Numbers(f, T)
  PROVE  SumOver([x \in S |-> f[p[x]]], S) = SumOver(f, {p[x] : x \in S})
<1> DEFINE g == [x \in S |-> f[p[x]]]
           Of(s) == {p[x] : x \in s}
           Q == {s \in SUBSET S : SumOver(g, s) = SumOver(f, Of(s))}
<1>1. ASSUME NEW s \in SUBSET S, \A x \in s : s \ {x} \in Q PROVE s \in Q
  <2>1. CASE s = {}
    <3>1. Of(s) = {}
      BY <2>1
    <3> QED
      BY <2>1, <3>1, SumEmpty
  <2>2. CASE s # {}
    <3>1. PICK x \in s : TRUE
      BY <2>2
    <3>2. IsFiniteSet(s) /\ Numbers(g, s)
      BY FS_Subset DEF Numbers
    <3>3. Of(s) \subseteq T /\ p[x] \in Of(s)
      OBVIOUS
    <3>4. IsFiniteSet(Of(s)) /\ Numbers(f, Of(s))
      BY <3>3, FS_Subset DEF Numbers
    <3>5. Of(s \ {x}) = Of(s) \ {p[x]}
      OBVIOUS
    <3>6. SumOver(g, s \ {x}) = SumOver(f, Of(s \ {x}))
      BY <1>1
    <3>7. g[x] = f[p[x]]
      OBVIOUS
    <3> HIDE DEF g, Of
    <3>8. SumOver(g, s) = g[x] + SumOver(g, s \ {x})
      BY <3>2, SumRemove
    <3>9. SumOver(f, Of(s)) = f[p[x]] + SumOver(f, Of(s) \ {p[x]})
      BY <3>3, <3>4, SumRemove
    <3> QED
      BY <3>5, <3>6, <3>7, <3>8, <3>9
  <2> QED
    BY <2>1, <2>2
<1>2. SUBSET S \subseteq Q
  <2> HIDE DEF Q
  <2> QED
    BY <1>1, FiniteInduction
<1> QED
  BY <1>2

(* The sum of one term.                                                    *)
LEMMA SumSingle ==
  ASSUME NEW f, NEW x, f[x] \in Int
  PROVE  SumOver(f, {x}) = f[x]
<1>1. IsFiniteSet({x}) /\ Numbers(f, {x}) /\ {x} \ {x} = {}
  BY FS_Singleton DEF Numbers
<1>2. SumOver(f, {x}) = f[x] + SumOver(f, {x} \ {x})
  BY <1>1, SumRemove
<1> QED
  BY <1>1, <1>2, SumEmpty

(* The sum over two parts.                                                 *)
LEMMA SumDisjoint ==
  ASSUME NEW f, NEW S, NEW T, IsFiniteSet(S), IsFiniteSet(T), S \cap T = {}, Numbers(f, S), Numbers(f, T)
  PROVE  SumOver(f, S \cup T) = SumOver(f, S) + SumOver(f, T)
<1> DEFINE U == S \cup T
           g == [x \in U |-> IF x \in S THEN f[x] ELSE 0]
           h == [x \in U |-> IF x \in S THEN 0 ELSE f[x]]
<1>1. IsFiniteSet(U) /\ S \in SUBSET U /\ T \in SUBSET U
  BY FS_Union
<1>2. Numbers(g, U) /\ Numbers(h, U) /\ \A x \in U : f[x] = g[x] + h[x]
  BY DEF Numbers
<1>3. \A x \in U \ S : g[x] = 0
  OBVIOUS
<1>4. \A x \in U \ T : h[x] = 0
  OBVIOUS
<1>5. (\A x \in S : g[x] = f[x]) /\ (\A x \in T : h[x] = f[x])
  OBVIOUS
<1> HIDE DEF g, h, U
<1>6. SumOver(f, U) = SumOver(g, U) + SumOver(h, U)
  BY <1>1, <1>2, SumAdd
<1>7. SumOver(g, U) = SumOver(g, S) /\ SumOver(h, U) = SumOver(h, T)
  BY <1>1, <1>2, <1>3, <1>4, SumWithin
<1>8. SumOver(g, S) = SumOver(f, S)
  BY <1>5, SumCongruence
<1>9. SumOver(h, T) = SumOver(f, T)
  BY <1>5, SumCongruence
<1> QED
  BY <1>6, <1>7, <1>8, <1>9 DEF U

(* A sum of natural numbers is at least each of them: it is zero only if   *)
(* they all are.                                                           *)
LEMMA SumIsZero ==
  ASSUME NEW f, NEW S, IsFiniteSet(S), \A x \in S : f[x] \in Nat
  PROVE  SumOver(f, S) = 0 <=> \A x \in S : f[x] = 0
<1>1. ASSUME SumOver(f, S) = 0, NEW x \in S PROVE f[x] = 0
  <2>1. Numbers(f, S) /\ IsFiniteSet(S \ {x})
    BY FS_Subset DEF Numbers
  <2>2. SumOver(f, S) = f[x] + SumOver(f, S \ {x})
    BY <2>1, SumRemove
  <2>3. SumOver(f, S \ {x}) \in Nat
    BY <2>1, SumNat
  <2> QED
    BY <1>1, <2>2, <2>3
<1>2. ASSUME \A x \in S : f[x] = 0 PROVE SumOver(f, S) = 0
  BY <1>2, SumZero
<1> QED
  BY <1>1, <1>2

(* Terms that are at most others have at most their sum, and the same sum  *)
(* only if they are the same.                                              *)
LEMMA SumAtMost ==
  ASSUME NEW f, NEW g, NEW S, IsFiniteSet(S), Numbers(f, S), Numbers(g, S),
         \A x \in S : f[x] <= g[x]
  PROVE  /\ SumOver(f, S) \in Int /\ SumOver(g, S) \in Int
         /\ SumOver(f, S) <= SumOver(g, S)
         /\ SumOver(f, S) = SumOver(g, S) <=> \A x \in S : f[x] = g[x]
<1> DEFINE h == [x \in S |-> g[x] - f[x]]
<1>1. ASSUME NEW x \in S PROVE /\ h[x] \in Nat /\ g[x] = f[x] + h[x]
                               /\ h[x] = 0 <=> f[x] = g[x]
  <2>1. f[x] \in Int /\ g[x] \in Int /\ f[x] <= g[x] /\ h[x] = g[x] - f[x]
    BY DEF Numbers
  <2> QED
    BY <2>1
<1> HIDE DEF h
<1>2. Numbers(h, S)
  BY <1>1 DEF Numbers
<1>3. SumOver(g, S) = SumOver(f, S) + SumOver(h, S)
  BY <1>1, <1>2, SumAdd
<1>4. SumOver(h, S) \in Nat /\ SumOver(f, S) \in Int
  BY <1>1, SumNat, SumType
<1>5. SumOver(h, S) = 0 <=> \A x \in S : h[x] = 0
  BY <1>1, SumIsZero
<1> QED
  BY <1>1, <1>3, <1>4, <1>5

(* The sum of the opposites.                                               *)
LEMMA SumNegated ==
  ASSUME NEW f, NEW g, NEW S, IsFiniteSet(S), Numbers(f, S), \A x \in S : g[x] = -f[x]
  PROVE  SumOver(g, S) = -SumOver(f, S)
<1> DEFINE h == [x \in S |-> 0]
<1>1. Numbers(g, S) /\ \A x \in S : h[x] = f[x] + g[x]
  BY DEF Numbers
<1>2. \A x \in S : h[x] = 0
  OBVIOUS
<1> HIDE DEF h
<1>3. SumOver(h, S) = SumOver(f, S) + SumOver(g, S)
  BY <1>1, SumAdd
<1>4. SumOver(h, S) = 0
  BY <1>2, SumZero
<1>5. SumOver(f, S) \in Int /\ SumOver(g, S) \in Int
  BY <1>1, SumType
<1> QED
  BY <1>3, <1>4, <1>5

(* sums[x] is the sum of row x of the table f, and col is the table turned *)
(* over.                                                                   *)
RowSums(sums, f, S, T) == \A x \in S : Numbers(f[x], T) /\ sums[x] = SumOver(f[x], T)

Transposed(col, f, S, T) == \A y \in T : \A x \in S : col[y][x] = f[x][y]

(* A table has one sum, by rows and by columns.                            *)
LEMMA SumSwap ==
  ASSUME NEW S, NEW T, IsFiniteSet(S), IsFiniteSet(T), NEW f, NEW rows, RowSums(rows, f, S, T),
         NEW col, Transposed(col, f, S, T), NEW columns, RowSums(columns, col, T, S)
  PROVE  Numbers(rows, S) /\ Numbers(columns, T) /\ SumOver(rows, S) = SumOver(columns, T)
<1> USE DEF RowSums, Transposed
<1> DEFINE part(s) == [y \in T |-> SumOver(col[y], s)]
           Q == {s \in SUBSET S : SumOver(rows, s) = SumOver(part(s), T)}
<1>1. Numbers(rows, S)
  BY SumType DEF Numbers
<1>2. \A y \in T : Numbers(col[y], S)
  BY DEF Numbers
<1>3. Numbers(columns, T)
  BY <1>2, SumType DEF Numbers
<1>4. ASSUME NEW s \in SUBSET S, \A x \in s : s \ {x} \in Q PROVE s \in Q
  <2>1. CASE s = {}
    <3>1. \A y \in T : part(s)[y] = 0
      BY <2>1, SumEmpty
    <3>2. SumOver(part(s), T) = 0
      <4> HIDE DEF part
      <4> QED
        BY <3>1, SumZero
    <3> QED
      BY <2>1, <3>2, SumEmpty
  <2>2. CASE s # {}
    <3>1. PICK x \in s : TRUE
      BY <2>2
    <3> DEFINE rest == s \ {x}
    <3>2. IsFiniteSet(s) /\ IsFiniteSet(rest) /\ Numbers(rows, s)
      BY <1>1, FS_Subset DEF Numbers
    <3>3. SumOver(rows, s) = rows[x] + SumOver(rows, rest)
      BY <3>2, SumRemove
    <3>4. ASSUME NEW y \in T
          PROVE  /\ part(rest)[y] \in Int /\ part(s)[y] = f[x][y] + part(rest)[y]
      <4>1. Numbers(col[y], s) /\ Numbers(col[y], rest) /\ col[y][x] = f[x][y]
        BY <1>2 DEF Numbers
      <4>2. part(rest)[y] = SumOver(col[y], rest) /\ part(s)[y] = SumOver(col[y], s)
        OBVIOUS
      <4> HIDE DEF part
      <4>3. SumOver(col[y], s) = col[y][x] + SumOver(col[y], rest)
        BY <3>2, <4>1, SumRemove
      <4>4. SumOver(col[y], rest) \in Int
        BY <3>2, <4>1, SumType
      <4> QED
        BY <4>1, <4>2, <4>3, <4>4
    <3>5. Numbers(f[x], T) /\ rows[x] = SumOver(f[x], T)
      OBVIOUS
    <3>6. SumOver(rows, rest) = SumOver(part(rest), T)
      BY <1>4
    <3> HIDE DEF part, rest
    <3>7. Numbers(part(rest), T)
      BY <3>4 DEF Numbers
    <3>8. SumOver(part(s), T) = SumOver(f[x], T) + SumOver(part(rest), T)
      BY <3>4, <3>5, <3>7, SumAdd
    <3> QED
      BY <3>3, <3>5, <3>6, <3>8
  <2> QED
    BY <2>1, <2>2
<1>5. SUBSET S \subseteq Q
  <2> HIDE DEF Q
  <2> QED
    BY <1>4, FiniteInduction
<1>6. SumOver(rows, S) = SumOver(part(S), T)
  BY <1>5
<1>7. \A y \in T : part(S)[y] = columns[y]
  OBVIOUS
<1>8. SumOver(part(S), T) = SumOver(columns, T)
  <2> HIDE DEF part
  <2> QED
    BY <1>3, <1>7, SumCongruence
<1> QED
  BY <1>1, <1>3, <1>6, <1>8

(* groups[k] is the sum of the terms with key k.                           *)
WithKey(key, k, S) == {x \in S : key[x] = k}

GroupSums(groups, f, key, S, K) == \A k \in K : groups[k] = SumOver(f, WithKey(key, k, S))

(* The terms may be added up key by key.                                   *)
LEMMA SumByKey ==
  ASSUME NEW S, NEW K, IsFiniteSet(S), IsFiniteSet(K), NEW f, Numbers(f, S), NEW key,
         \A x \in S : key[x] \in K, NEW groups, GroupSums(groups, f, key, S, K)
  PROVE  Numbers(groups, K) /\ SumOver(groups, K) = SumOver(f, S)
<1> DEFINE m == [x \in S |-> [k \in K |-> IF key[x] = k THEN f[x] ELSE 0]]
           rows == [x \in S |-> SumOver(m[x], K)]
           col == [k \in K |-> [x \in S |-> m[x][k]]]
           cols == [k \in K |-> SumOver(col[k], S)]
           Of(k) == WithKey(key, k, S)
<1>1. \A x \in S, k \in K : m[x][k] = IF key[x] = k THEN f[x] ELSE 0
  OBVIOUS
<1>2. \A k \in K : \A x \in S : col[k][x] = m[x][k]
  OBVIOUS
<1> HIDE DEF m
<1>3. \A x \in S : Numbers(m[x], K)
  BY <1>1 DEF Numbers
<1>4. SumOver(rows, S) = SumOver(cols, K)
  <2>1. \A k \in K : Numbers(col[k], S)
    BY <1>1, <1>3 DEF Numbers
  <2>2. RowSums(rows, m, S, K) /\ RowSums(cols, col, K, S) /\ Transposed(col, m, S, K)
    BY <1>2, <1>3, <2>1 DEF RowSums, Transposed
  <2> HIDE DEF rows, col, cols
  <2> QED
    BY <2>2, SumSwap
<1>5. ASSUME NEW x \in S PROVE rows[x] = f[x]
  <2>1. m[x][key[x]] = f[x] /\ \A k \in K \ {key[x]} : m[x][k] = 0
    BY <1>1
  <2>2. SumOver(m[x], K) = SumOver(m[x], {key[x]})
    BY <1>3, <2>1, SumWithin
  <2>3. m[x][key[x]] \in Int
    BY <2>1 DEF Numbers
  <2>4. SumOver(m[x], {key[x]}) = m[x][key[x]]
    BY <2>3, SumSingle
  <2> QED
    BY <2>1, <2>2, <2>4
<1>6. ASSUME NEW k \in K PROVE cols[k] = groups[k] /\ groups[k] \in Int
  <2>1. Numbers(col[k], S)
    BY <1>2, <1>3 DEF Numbers
  <2>2. Of(k) \in SUBSET S /\ (\A x \in S \ Of(k) : col[k][x] = 0)
        /\ \A x \in Of(k) : col[k][x] = f[x]
    BY <1>1 DEF WithKey
  <2>3. IsFiniteSet(Of(k)) /\ Numbers(f, Of(k))
    BY <2>2, FS_Subset DEF Numbers
  <2>4. cols[k] = SumOver(col[k], S) /\ groups[k] = SumOver(f, Of(k))
    BY DEF GroupSums
  <2> HIDE DEF col, cols, Of
  <2>5. SumOver(col[k], S) = SumOver(col[k], Of(k))
    BY <2>1, <2>2, SumWithin
  <2>6. SumOver(col[k], Of(k)) = SumOver(f, Of(k))
    BY <2>2, <2>3, SumCongruence
  <2> QED
    BY <2>3, <2>4, <2>5, <2>6, SumType
<1> HIDE DEF rows, cols
<1>7. SumOver(rows, S) = SumOver(f, S)
  BY <1>5, SumCongruence
<1>8. Numbers(groups, K)
  BY <1>6 DEF Numbers
<1>9. SumOver(cols, K) = SumOver(groups, K)
  BY <1>6, <1>8, SumCongruence
<1> QED
  BY <1>4, <1>7, <1>8, <1>9
-----------------------------------------------------------------------------
Distinct(charges) ==
  /\ IsFiniteSet(charges)
  /\ \A c \in charges : c.id \in Int /\ c.due \in Int /\ c.outstanding \in Int
  /\ \A c, d \in charges : c.id = d.id => c = d

(* Charges with ids of their own are totally ordered by either rule of     *)
(* sortCharges: the id breaks the ties.                                    *)
LEMMA SortsBeforeIsAnOrder ==
  ASSUME NEW charges, Distinct(charges), NEW rule
  PROVE  /\ \A a \in charges : ~SortsBefore(rule, a, a)
         /\ \A a, b \in charges : a # b => SortsBefore(rule, a, b) \/ SortsBefore(rule, b, a)
         /\ \A a, b, c \in charges :
              SortsBefore(rule, a, b) /\ SortsBefore(rule, b, c) => SortsBefore(rule, a, c)
<1>1. \A a \in charges : Rank(a) \in Int
  BY DEF Rank
<1>2. \A a \in charges : ~SortsBefore(rule, a, a)
  BY DEF Distinct, SortsBefore, Older
<1>3. ASSUME NEW a \in charges, NEW b \in charges, a # b
      PROVE  SortsBefore(rule, a, b) \/ SortsBefore(rule, b, a)
  <2>1. /\ Rank(a) \in Int /\ Rank(b) \in Int /\ a.due \in Int /\ b.due \in Int
        /\ a.id \in Int /\ b.id \in Int /\ a.id # b.id
    BY <1>1, <1>3 DEF Distinct
  <2> QED
    BY <2>1 DEF SortsBefore, Older
<1>4. ASSUME NEW a \in charges, NEW b \in charges, NEW c \in charges,
             SortsBefore(rule, a, b), SortsBefore(rule, b, c)
      PROVE  SortsBefore(rule, a, c)
  <2>1. /\ Rank(a) \in Int /\ Rank(b) \in Int /\ Rank(c) \in Int
        /\ a.due \in Int /\ b.due \in Int /\ c.due \in Int
        /\ a.id \in Int /\ b.id \in Int /\ c.id \in Int
    BY <1>1 DEF Distinct
  <2> QED
    BY <2>1, <1>4 DEF SortsBefore, Older
<1> QED
  BY <1>2, <1>3, <1>4

(* One of the charges comes after all the others.                          *)
LEMMA SomeSortsLast ==
  ASSUME NEW charges, Distinct(charges), NEW rule, NEW T \in SUBSET charges, T # {}
  PROVE  \E m \in T : \A d \in T \ {m} : SortsBefore(rule, d, m)
<1> DEFINE IsLast(s, m) == \A d \in s \ {m} : SortsBefore(rule, d, m)
           Q == {s \in SUBSET T : s = {} \/ \E m \in s : IsLast(s, m)}
<1>1. ASSUME NEW s \in SUBSET T, \A x \in s : s \ {x} \in Q PROVE s \in Q
  <2> SUFFICES ASSUME s # {} PROVE \E m \in s : IsLast(s, m)
    OBVIOUS
  <2>1. PICK x \in s : TRUE
    OBVIOUS
  <2>2. CASE s \ {x} = {}
    BY <2>1, <2>2
  <2>3. CASE s \ {x} # {}
    <3>1. PICK m \in s \ {x} : IsLast(s \ {x}, m)
      BY <2>3, <1>1
    <3>2. SortsBefore(rule, x, m) \/ SortsBefore(rule, m, x)
      BY <3>1, SortsBeforeIsAnOrder
    <3>3. CASE SortsBefore(rule, x, m)
      BY <3>1, <3>3
    <3>4. CASE SortsBefore(rule, m, x)
      <4>1. \A d \in s \ {x} : SortsBefore(rule, d, x)
        BY <3>1, <3>4, SortsBeforeIsAnOrder
      <4> QED
        BY <2>1, <4>1
    <3> QED
      BY <3>2, <3>3, <3>4
  <2> QED
    BY <2>2, <2>3
<1>2. SUBSET T \subseteq Q
  <2>1. IsFiniteSet(T)
    BY FS_Subset DEF Distinct
  <2> HIDE DEF Q
  <2> QED
    BY <1>1, <2>1, FiniteInduction
<1> QED
  BY <1>2

Sorted(s, charges, rule) ==
  /\ s \in [1..Cardinality(charges) -> charges]
  /\ \A i, j \in DOMAIN s : i < j => SortsBefore(rule, s[i], s[j])

(* sortCharges returns each charge once, in the order of the rule.         *)
LEMMA SortedExists ==
  ASSUME NEW charges, Distinct(charges), NEW rule
  PROVE  Sorted(SortCharges(charges, rule), charges, rule)
<1> DEFINE Q == {T \in SUBSET charges : \E s : Sorted(s, T, rule)}
<1>0. IsFiniteSet(charges)
  BY DEF Distinct
<1>1. ASSUME NEW T \in SUBSET charges, \A x \in T : T \ {x} \in Q PROVE T \in Q
  <2>1. CASE T = {}
    <3>1. Cardinality(T) = 0
      BY <2>1, FS_EmptySet
    <3>2. [i \in 1..0 |-> 0] \in [1..0 -> T] /\ 1..0 = {}
      OBVIOUS
    <3>3. Sorted([i \in 1..0 |-> 0], T, rule)
      BY <3>1, <3>2 DEF Sorted
    <3> QED
      BY <3>3
  <2>2. CASE T # {}
    <3>1. PICK m \in T : \A d \in T \ {m} : SortsBefore(rule, d, m)
      BY <2>2, SomeSortsLast
    <3>2. PICK s : Sorted(s, T \ {m}, rule)
      BY <1>1
    <3> DEFINE n == Cardinality(T)
               e == [i \in 1..n |-> IF i = n THEN m ELSE s[i]]
    <3>3. n \in Nat /\ Cardinality(T \ {m}) = n - 1
      BY <1>0, FS_Subset, FS_RemoveElement, FS_CardinalityType
    <3> HIDE DEF n
    <3>4. s \in [1..(n - 1) -> T \ {m}]
      BY <3>2, <3>3 DEF Sorted
    <3>5. e \in [1..n -> T]
      BY <3>3, <3>4
    <3>6. ASSUME NEW i \in 1..n, NEW j \in 1..n, i < j PROVE SortsBefore(rule, e[i], e[j])
      <4>1. i \in 1..(n - 1) /\ e[i] = s[i] /\ e[i] \in T \ {m}
        BY <3>3, <3>4, <3>6
      <4>2. CASE j = n
        BY <3>1, <4>1, <4>2
      <4>3. CASE j # n
        <5>1. j \in 1..(n - 1) /\ e[j] = s[j]
          BY <3>3, <4>3
        <5> QED
          BY <3>2, <3>4, <3>6, <4>1, <5>1 DEF Sorted
      <4> QED
        BY <4>2, <4>3
    <3>7. Sorted(e, T, rule)
      BY <3>5, <3>6 DEF Sorted, n
    <3> QED
      BY <3>7
  <2> QED
    BY <2>1, <2>2
<1>2. charges \in Q
  <2> HIDE DEF Q
  <2> QED
    BY <1>0, <1>1, FiniteInduction
<1> QED
  BY <1>2 DEF SortCharges, Sorted

(* A nonempty set of positions has a last one.                             *)
LEMMA MaxIsIn ==
  ASSUME NEW n \in Nat, NEW T \in SUBSET (1..n), T # {}
  PROVE  Max(T) \in T /\ \A y \in T : Max(T) >= y
<1> DEFINE Q == {s \in SUBSET T : s = {} \/ \E m \in s : \A y \in s : m >= y}
<1>1. ASSUME NEW s \in SUBSET T, \A x \in s : s \ {x} \in Q PROVE s \in Q
  <2> SUFFICES ASSUME s # {} PROVE \E m \in s : \A y \in s : m >= y
    OBVIOUS
  <2>1. PICK x \in s : TRUE
    OBVIOUS
  <2>2. CASE s \ {x} = {}
    BY <2>1, <2>2
  <2>3. CASE s \ {x} # {}
    <3>1. PICK m \in s \ {x} : \A y \in s \ {x} : m >= y
      BY <2>3, <1>1
    <3>2. CASE m >= x
      BY <3>1, <3>2
    <3>3. CASE ~(m >= x)
      <4>1. \A y \in s : y \in Int
        OBVIOUS
      <4>2. \A y \in s : x >= y
        BY <3>1, <3>3, <4>1
      <4> QED
        BY <2>1, <4>2
    <3> QED
      BY <3>2, <3>3
  <2> QED
    BY <2>2, <2>3
<1>2. SUBSET T \subseteq Q
  <2>1. IsFiniteSet(1..n)
    BY FS_Interval
  <2>2. IsFiniteSet(T)
    BY <2>1, FS_Subset
  <2> HIDE DEF Q
  <2> QED
    BY <1>1, <2>2, FiniteInduction
<1> QED
  BY <1>2 DEF Max

Shares == [amount : Nat, fromCredit : Int]
Purses == [credit : Int, payment : Nat, allocs : UNION {[I -> Shares] : I \in SUBSET Int}]

(* One turn of the allocation loop takes no more from the credit and the   *)
(* payment than they hold, and no more than the charge owes.               *)
LEMMA AllocateToType ==
  ASSUME NEW p \in Purses, NEW c, c.id \in Int, c.outstanding \in Nat
  PROVE  LET a == Lesser(p.credit, c.outstanding)
             b == Lesser(p.payment, c.outstanding - a)
             q == AllocateTo(p, c)
         IN  /\ a \in Int /\ b \in Nat /\ a <= c.outstanding /\ a <= p.credit
             /\ a + b <= c.outstanding /\ b <= p.payment
             /\ q \in Purses
             /\ q.credit = p.credit - a /\ q.payment = p.payment - b
             /\ q.allocs = IF a > 0 \/ b > 0
                           THEN [id \in DOMAIN p.allocs \cup {c.id} |->
                                   IF id = c.id THEN [amount |-> b, fromCredit |-> a]
                                                ELSE p.allocs[id]]
                           ELSE p.allocs
<1> DEFINE a == Lesser(p.credit, c.outstanding)
           b == Lesser(p.payment, c.outstanding - a)
           q == AllocateTo(p, c)
           new == [id \in DOMAIN p.allocs \cup {c.id} |->
                     IF id = c.id THEN [amount |-> b, fromCredit |-> a] ELSE p.allocs[id]]
<1>1. p.credit \in Int /\ p.payment \in Nat
  BY DEF Purses
<1>2. PICK I \in SUBSET Int : p.allocs \in [I -> Shares]
  BY DEF Purses
<1>3. a \in Int /\ a <= c.outstanding /\ a <= p.credit
  BY <1>1 DEF Lesser
<1>4. b \in Nat /\ a + b <= c.outstanding /\ b <= p.payment
  <2> HIDE DEF a
  <2> QED
    BY <1>1, <1>3 DEF Lesser
<1> HIDE DEF a, b
<1>5. new \in [I \cup {c.id} -> Shares]
  <2>1. [amount |-> b, fromCredit |-> a] \in Shares
    BY <1>3, <1>4 DEF Shares
  <2> QED
    BY <1>2, <2>1
<1>6. q = [credit |-> p.credit - a, payment |-> p.payment - b,
           allocs |-> IF a > 0 \/ b > 0 THEN new ELSE p.allocs]
  BY DEF AllocateTo, a, b
<1>7. q.allocs \in UNION {[J -> Shares] : J \in SUBSET Int}
  <2>1. I \cup {c.id} \in SUBSET Int
    OBVIOUS
  <2> HIDE DEF new
  <2> QED
    BY <1>2, <1>5, <1>6, <2>1
<1>8. p.credit - a \in Int /\ p.payment - b \in Nat
  BY <1>1, <1>3, <1>4
<1>9. q \in Purses
  <2> HIDE DEF new
  <2> QED
    BY <1>6, <1>7, <1>8 DEF Purses
<1> QED
  BY <1>3, <1>4, <1>6, <1>9 DEF a, b

(* A finite set of positions, with a last one in each part of it.          *)
Positions(D) ==
  /\ IsFiniteSet(D)
  /\ \A t \in SUBSET D : t # {} => Max(t) \in t /\ \A x \in t : Max(t) >= x

(* g holds the purse after each set of turns.                              *)
Turns(g, D, s, base) ==
  \A t \in SUBSET D :
    g[t] = IF t = {} THEN base ELSE AllocateTo(g[t \ {Max(t)}], s[Max(t)])

Allocatable(charges) == \A c \in charges : c.id \in Int /\ c.outstanding \in Nat

(* The positions of a sequence are what the fold runs over.                *)
LEMMA IntervalPositions == \A n \in Nat : Positions(1..n)
<1> SUFFICES ASSUME NEW n \in Nat PROVE Positions(1..n)
  OBVIOUS
<1>1. IsFiniteSet(1..n)
  BY FS_Interval
<1> QED
  BY <1>1, MaxIsIn DEF Positions

(* The purse stays a purse through the turns of the loop.                  *)
LEMMA AllocationValues ==
  ASSUME NEW charges, Allocatable(charges), NEW D, Positions(D), NEW s \in [D -> charges],
         NEW base \in Purses, NEW G, Turns(G, D, s, base)
  PROVE  \A t \in SUBSET D : G[t] \in Purses
<1> DEFINE Q == {t \in SUBSET D : G[t] \in Purses}
<1>1. ASSUME NEW t \in SUBSET D, \A x \in t : t \ {x} \in Q PROVE t \in Q
  <2>0. G[t] = IF t = {} THEN base ELSE AllocateTo(G[t \ {Max(t)}], s[Max(t)])
    BY DEF Turns
  <2>1. CASE t = {}
    BY <2>0, <2>1
  <2>2. CASE t # {}
    <3>1. Max(t) \in t
      BY <2>2 DEF Positions
    <3>2. G[t \ {Max(t)}] \in Purses
      BY <1>1, <3>1
    <3>3. s[Max(t)].id \in Int /\ s[Max(t)].outstanding \in Nat
      BY <3>1 DEF Allocatable
    <3>4. AllocateTo(G[t \ {Max(t)}], s[Max(t)]) \in Purses
      BY <3>2, <3>3, AllocateToType
    <3> QED
      BY <2>0, <2>2, <3>4
  <2> QED
    BY <2>1, <2>2
<1>2. SUBSET D \subseteq Q
  <2>1. IsFiniteSet(D)
    BY DEF Positions
  <2> HIDE DEF Q
  <2> QED
    BY <1>1, <2>1, FiniteInduction
<1> QED
  BY <1>2

(* The fold, one charge at a time.                                         *)
LEMMA AllocationFold ==
  ASSUME NEW charges, Allocatable(charges), NEW D, Positions(D), NEW s \in [D -> charges],
         NEW base \in Purses
  PROVE  \E g \in [SUBSET D -> Purses] :
           g[D] = FoldLeft(AllocateTo, base, s) /\ Turns(g, D, s, base)
<1> DEFINE pick == [t \in SUBSET D |-> Max(t)]
           F == [p \in D \X Purses |-> AllocateTo(p[2], s[p[1]])]
           IsG(g) == g = [t \in SUBSET D |->
                            IF t = {} THEN base ELSE AllocateTo(g[t \ {Max(t)}], s[Max(t)])]
<1>0. IsFiniteSet(D) /\ \A t \in SUBSET D : t # {} => Max(t) \in t
  BY DEF Positions
<1>3. F \in [D \X Purses -> Purses]
  <2>1. ASSUME NEW i \in D, NEW p \in Purses PROVE AllocateTo(p, s[i]) \in Purses
    <3>1. s[i].id \in Int /\ s[i].outstanding \in Nat
      BY DEF Allocatable
    <3> QED
      BY <3>1, AllocateToType
  <2> QED
    BY <2>1
<1>4. \A i \in D, p \in Purses : F[<<i, p>>] = AllocateTo(p, s[i])
  OBVIOUS
<1>5. PICK g \in [SUBSET D -> Purses] : IsFold(g, D, base, F, pick)
  <2>1. \A t \in SUBSET D : t # {} => pick[t] \in t
    BY <1>0
  <2> HIDE DEF F, pick
  <2> QED
    BY <1>0, <1>3, <2>1, FoldExists
<1>6. IsG(g)
  <2> DEFINE h == [t \in SUBSET D |->
                     IF t = {} THEN base ELSE AllocateTo(g[t \ {Max(t)}], s[Max(t)])]
  <2>1. \A t \in SUBSET D : g[t] = h[t]
    <3> SUFFICES ASSUME NEW t \in SUBSET D PROVE g[t] = h[t]
      OBVIOUS
    <3>1. g[t] = IF t = {} THEN base ELSE F[<<pick[t], g[t \ {pick[t]}]>>]
      BY <1>5 DEF IsFold
    <3>2. CASE t = {}
      BY <3>1, <3>2
    <3>3. CASE t # {}
      <4>1. Max(t) \in D /\ g[t \ {Max(t)}] \in Purses /\ pick[t] = Max(t)
        BY <1>0, <3>3
      <4> HIDE DEF F, pick
      <4> QED
        BY <1>4, <3>1, <3>3, <4>1
    <3> QED
      BY <3>2, <3>3
  <2>2. g = [t \in SUBSET D |-> g[t]] /\ h = [t \in SUBSET D |-> h[t]]
    OBVIOUS
  <2> HIDE DEF h
  <2>3. g = h
    BY <2>1, <2>2
  <2> QED
    BY <2>3 DEF h
<1> DEFINE G == CHOOSE k : IsG(k)
<1>7. FoldLeft(AllocateTo, base, s) = G[D]
  <2>1. DOMAIN s = D
    OBVIOUS
  <2> QED
    BY <2>1 DEF FoldLeft, MapThenFoldSet
<1>8. IsG(G)
  <2> HIDE DEF IsG
  <2> QED
    BY <1>6
<1> HIDE DEF G
<1>9. Turns(G, D, s, base)
  BY <1>8 DEF Turns
<1>10. \A t \in SUBSET D : G[t] \in Purses
  <2> HIDE DEF IsG, F, pick
  <2> QED
    BY <1>9, AllocationValues
<1>11. G = [t \in SUBSET D |-> G[t]]
  BY <1>8
<1>12. G \in [SUBSET D -> Purses]
  BY <1>10, <1>11
<1> QED
  BY <1>7, <1>9, <1>12
-----------------------------------------------------------------------------
(* What each charge gets, and what the allocation leaves.                  *)
Amounts(allocs, ids) == [id \in ids |-> IF id \in DOMAIN allocs THEN allocs[id].amount ELSE 0]
Credits(allocs, ids) == [id \in ids |-> IF id \in DOMAIN allocs THEN allocs[id].fromCredit ELSE 0]

IdsOf(charges) == {c.id : c \in charges}

(* What the engine may hand out for the charges: money of the payment and, *)
(* if there is any, of the credit.                                         *)
Allocated(charges, ids, amount, credit, p) ==
  /\ p \in Purses
  /\ DOMAIN p.allocs \subseteq IdsOf(charges)
  /\ SumOver(Amounts(p.allocs, ids), ids) + p.payment = amount
  /\ credit >= 0 =>
       /\ p.credit >= 0
       /\ SumOver(Credits(p.allocs, ids), ids) + p.credit = credit
       /\ \A c \in charges : c.id \in DOMAIN p.allocs =>
            /\ p.allocs[c.id].fromCredit >= 0
            /\ p.allocs[c.id].amount + p.allocs[c.id].fromCredit <= c.outstanding

(* One turn of the loop hands out what it takes from the purse, and the    *)
(* charge it serves has not been served.                                   *)
LEMMA AllocatedStep ==
  ASSUME NEW charges, Distinct(charges), \A c \in charges : c.outstanding \in Nat,
         NEW ids, IsFiniteSet(ids), IdsOf(charges) \subseteq ids,
         NEW amount \in Nat, NEW credit \in Int, NEW c \in charges, NEW p,
         Allocated(charges \ {c}, ids, amount, credit, p)
  PROVE  Allocated(charges, ids, amount, credit, AllocateTo(p, c))
<1> DEFINE a == Lesser(p.credit, c.outstanding)
           b == Lesser(p.payment, c.outstanding - a)
           q == AllocateTo(p, c)
<1>1. p \in Purses /\ DOMAIN p.allocs \subseteq IdsOf(charges \ {c})
  BY DEF Allocated
<1>2. c.id \in Int /\ c.outstanding \in Nat /\ c.id \in ids
  BY DEF Distinct, IdsOf
<1>3. c.id \notin DOMAIN p.allocs
  BY <1>1 DEF IdsOf, Distinct
<1>4. /\ a \in Int /\ b \in Nat /\ a <= c.outstanding /\ a <= p.credit
      /\ a + b <= c.outstanding /\ b <= p.payment
      /\ q \in Purses
      /\ q.credit = p.credit - a /\ q.payment = p.payment - b
      /\ q.allocs = IF a > 0 \/ b > 0
                    THEN [id \in DOMAIN p.allocs \cup {c.id} |->
                            IF id = c.id THEN [amount |-> b, fromCredit |-> a]
                                         ELSE p.allocs[id]]
                    ELSE p.allocs
  BY <1>1, <1>2, AllocateToType
<1>5. p.credit \in Int /\ p.payment \in Nat /\ p.credit >= 0 => a >= 0
  BY <1>1, <1>2 DEF Purses, Lesser
<1>6. /\ p.credit \in Int /\ p.payment \in Nat
      /\ \A id \in DOMAIN p.allocs : p.allocs[id].amount \in Nat /\ p.allocs[id].fromCredit \in Int
  <2> HIDE DEF a, b, q
  <2>1. PICK I \in SUBSET Int : p.allocs \in [I -> Shares]
    BY <1>1 DEF Purses
  <2>2. \A id \in DOMAIN p.allocs : p.allocs[id] \in Shares
    BY <2>1
  <2> QED
    BY <1>1, <2>2 DEF Purses, Shares
<1> HIDE DEF a, b, q
<1>7. DOMAIN q.allocs \subseteq IdsOf(charges)
  BY <1>1, <1>4 DEF IdsOf
<1> DEFINE A == Amounts(p.allocs, ids)
           B == Amounts(q.allocs, ids)
           C == Credits(p.allocs, ids)
           E == Credits(q.allocs, ids)
<1>8. Numbers(A, ids) /\ Numbers(C, ids)
  BY <1>6 DEF Numbers, Amounts, Credits
<1>9. /\ A[c.id] = 0 /\ C[c.id] = 0
      /\ \A id \in ids \ {c.id} : B[id] = A[id] /\ E[id] = C[id]
  BY <1>2, <1>3, <1>4 DEF Amounts, Credits
<1>10. B[c.id] = b
  BY <1>2, <1>3, <1>4 DEF Amounts
<1>11. E[c.id] = IF a > 0 \/ b > 0 THEN a ELSE 0
  BY <1>2, <1>3, <1>4 DEF Credits
<1> HIDE DEF A, B, C, E
<1>12. SumOver(B, ids) = SumOver(A, ids) - A[c.id] + B[c.id] /\ SumOver(A, ids) \in Int
  <2>1. B[c.id] \in Int
    BY <1>4, <1>10
  <2> QED
    BY <1>2, <1>8, <1>9, <2>1, SumUpdate, SumType
<1>13. SumOver(E, ids) = SumOver(C, ids) - C[c.id] + E[c.id] /\ SumOver(C, ids) \in Int
  <2>1. E[c.id] \in Int
    BY <1>4, <1>11
  <2> QED
    BY <1>2, <1>8, <1>9, <2>1, SumUpdate, SumType
<1>14. SumOver(B, ids) + q.payment = amount
  <2>1. SumOver(A, ids) + p.payment = amount
    BY DEF Allocated, A
  <2> QED
    BY <2>1, <1>4, <1>6, <1>9, <1>10, <1>12
<1>15. ASSUME credit >= 0
       PROVE  /\ q.credit >= 0
              /\ SumOver(E, ids) + q.credit = credit
              /\ \A d \in charges : d.id \in DOMAIN q.allocs =>
                   /\ q.allocs[d.id].fromCredit >= 0
                   /\ q.allocs[d.id].amount + q.allocs[d.id].fromCredit <= d.outstanding
  <2>1. /\ p.credit >= 0 /\ SumOver(C, ids) + p.credit = credit
        /\ \A d \in charges \ {c} : d.id \in DOMAIN p.allocs =>
             /\ p.allocs[d.id].fromCredit >= 0
             /\ p.allocs[d.id].amount + p.allocs[d.id].fromCredit <= d.outstanding
    BY <1>15 DEF Allocated, C
  <2>2. a >= 0
    BY <1>5, <1>6, <2>1
  <2>3. q.credit >= 0
    BY <1>4, <1>6
  <2>4. E[c.id] = a
    BY <1>4, <1>11, <2>2
  <2>5. SumOver(E, ids) + q.credit = credit
    BY <2>1, <2>4, <1>4, <1>6, <1>9, <1>13
  <2>6. ASSUME NEW d \in charges, d.id \in DOMAIN q.allocs
        PROVE  /\ q.allocs[d.id].fromCredit >= 0
               /\ q.allocs[d.id].amount + q.allocs[d.id].fromCredit <= d.outstanding
    <3>1. CASE d = c
      <4>1. a > 0 \/ b > 0
        BY <1>3, <1>4, <2>6, <3>1
      <4>2. q.allocs[d.id] = [amount |-> b, fromCredit |-> a]
        BY <1>4, <3>1, <4>1
      <4> QED
        BY <1>4, <2>2, <3>1, <4>2
    <3>2. CASE d # c
      <4>1. d.id # c.id
        BY <3>2 DEF Distinct
      <4>2. d.id \in DOMAIN p.allocs /\ q.allocs[d.id] = p.allocs[d.id]
        BY <1>4, <2>6, <4>1
      <4> QED
        BY <2>1, <3>2, <4>2
    <3> QED
      BY <3>1, <3>2
  <2> QED
    BY <2>3, <2>5, <2>6
<1> QED
  BY <1>4, <1>7, <1>14, <1>15 DEF Allocated, q, B, E

(* The charges of some turns.                                              *)
Taken(s, t) == {s[i] : i \in t}

OneToOne(s, D) == \A i, j \in D : i # j => s[i] # s[j]

(* So does each prefix of the turns of the loop.                           *)
LEMMA AllocatedAlong ==
  ASSUME NEW charges, Distinct(charges), Allocatable(charges),
         NEW ids, IsFiniteSet(ids), IdsOf(charges) \subseteq ids,
         NEW amount \in Nat, NEW credit \in Int,
         NEW D, Positions(D), NEW s \in [D -> charges], OneToOne(s, D),
         NEW base \in Purses, base = [credit |-> credit, payment |-> amount, allocs |-> << >>],
         NEW g, Turns(g, D, s, base)
  PROVE  \A t \in SUBSET D : Allocated(Taken(s, t), ids, amount, credit, g[t])
<1> DEFINE Of(t) == Taken(s, t)
           Good(t) == Allocated(Of(t), ids, amount, credit, g[t])
           Q == {t \in SUBSET D : Good(t)}
<1>1. Good({})
  <2>0. g[{}] = base
    BY DEF Turns
  <2>1. /\ g[{}].credit = credit /\ g[{}].payment = amount /\ g[{}].allocs = << >>
        /\ Of({}) = {} /\ DOMAIN << >> = {}
    BY <2>0 DEF Taken
  <2>2. SumOver(Amounts(<< >>, ids), ids) = 0 /\ SumOver(Credits(<< >>, ids), ids) = 0
    <3>1. \A id \in ids : Amounts(<< >>, ids)[id] = 0 /\ Credits(<< >>, ids)[id] = 0
      BY <2>1 DEF Amounts, Credits
    <3> QED
      BY <3>1, SumZero
  <2> HIDE DEF Of
  <2> QED
    BY <2>0, <2>1, <2>2 DEF Allocated
<1>2. ASSUME NEW t \in SUBSET D, \A x \in t : t \ {x} \in Q PROVE t \in Q
  <2>1. CASE t = {}
    BY <1>1, <2>1
  <2>2. CASE t # {}
    <3> DEFINE m == Max(t)
               c == s[m]
    <3>1. m \in t /\ m \in D /\ g[t] = AllocateTo(g[t \ {m}], c) /\ c \in Of(t)
      BY <2>2 DEF Positions, Turns, Taken
    <3>2. Of(t \ {m}) = Of(t) \ {c}
      BY <3>1 DEF OneToOne, Taken
    <3>3. Good(t \ {m})
      BY <1>2, <3>1
    <3>4. Allocated(Of(t) \ {c}, ids, amount, credit, g[t \ {m}])
      BY <3>2, <3>3
    <3>5. Of(t) \subseteq charges
      BY DEF Taken
    <3>6. /\ Distinct(Of(t)) /\ \A d \in Of(t) : d.outstanding \in Nat
          /\ IdsOf(Of(t)) \subseteq ids
      BY <3>5, FS_Subset DEF Distinct, IdsOf, Allocatable
    <3> HIDE DEF Of, m, c
    <3>7. Allocated(Of(t), ids, amount, credit, AllocateTo(g[t \ {m}], c))
      BY <3>1, <3>4, <3>6, AllocatedStep
    <3> QED
      BY <3>1, <3>7
  <2> QED
    BY <2>1, <2>2
<1>3. SUBSET D \subseteq Q
  <2>1. IsFiniteSet(D)
    BY DEF Positions
  <2> HIDE DEF Q
  <2> QED
    BY <1>2, <2>1, FiniteInduction
<1> QED
  BY <1>3

(* What was handed to some of the charges was handed to the charges.       *)
LEMMA AllocatedOfAll ==
  ASSUME NEW some, NEW charges, some \subseteq charges, Distinct(charges), NEW ids,
         NEW amount, NEW credit, NEW p, Allocated(some, ids, amount, credit, p)
  PROVE  Allocated(charges, ids, amount, credit, p)
<1>1. IdsOf(some) \subseteq IdsOf(charges)
  BY DEF IdsOf
<1>2. \A c \in charges : c.id \in IdsOf(some) => c \in some
  BY DEF IdsOf, Distinct
<1> QED
  BY <1>1, <1>2 DEF Allocated

(* The loop hands out money of the payment and of the credit, each kobo    *)
(* once, and never more than is owed.                                      *)
LEMMA AllocateAllocates ==
  ASSUME NEW in, Distinct(in.charges), NEW ids, IsFiniteSet(ids),
         IdsOf(in.charges) \subseteq ids, in.amount \in Nat, in.credit \in Int
  PROVE  Allocated({c \in in.charges : c.outstanding > 0}, ids, in.amount, in.credit, Allocate(in))
<1> DEFINE open == {c \in in.charges : c.outstanding > 0}
           s == SortCharges(open, in.rule)
           n == Cardinality(open)
           D == 1..n
           base == [credit |-> in.credit, payment |-> in.amount, allocs |-> << >>]
           Of(t) == Taken(s, t)
<1>1. Distinct(open) /\ IdsOf(open) \subseteq ids /\ Allocatable(open)
  BY FS_Subset DEF Distinct, IdsOf, Allocatable
<1>2. Sorted(s, open, in.rule)
  BY <1>1, SortedExists
<1>3. n \in Nat
  BY <1>1, FS_CardinalityType DEF Distinct
<1>4. s \in [D -> open]
  BY <1>2 DEF Sorted
<1>m. Positions(D)
  BY <1>3, IntervalPositions
<1>5. base \in Purses
  <2>1. << >> \in [{} -> Shares] /\ {} \in SUBSET Int
    OBVIOUS
  <2>2. << >> \in UNION {[I -> Shares] : I \in SUBSET Int}
    BY <2>1
  <2> QED
    BY <2>2 DEF Purses
<1>6. Allocate(in) = FoldLeft(AllocateTo, base, s)
  BY DEF Allocate
<1> HIDE DEF open, s, D, base
<1>7. PICK g \in [SUBSET D -> Purses] : 
             g[D] = FoldLeft(AllocateTo, base, s) /\ Turns(g, D, s, base)
  BY <1>1, <1>m, <1>4, <1>5, AllocationFold
<1>8. \A i, j \in D : i # j => s[i] # s[j]
  <2>1. ASSUME NEW i \in D, NEW j \in D, i < j PROVE s[i] # s[j]
    <3>1. s[i] \in open /\ s[j] \in open /\ DOMAIN s = D
      BY <1>4
    <3>2. SortsBefore(in.rule, s[i], s[j])
      BY <1>2, <2>1, <3>1 DEF Sorted
    <3>3. ~SortsBefore(in.rule, s[i], s[i])
      BY <1>1, <3>1, SortsBeforeIsAnOrder
    <3> QED
      BY <3>2, <3>3
  <2>2. \A i, j \in D : i # j => i < j \/ j < i
    BY <1>3 DEF D
  <2> QED
    BY <2>1, <2>2
<1>9. \A t \in SUBSET D : Allocated(Of(t), ids, in.amount, in.credit, g[t])
  <2>1. OneToOne(s, D)
    BY <1>8 DEF OneToOne
  <2>2. base = [credit |-> in.credit, payment |-> in.amount, allocs |-> << >>]
    BY DEF base
  <2> QED
    BY <1>1, <1>m, <1>4, <1>5, <1>7, <2>1, <2>2, AllocatedAlong
<1>10. Of(D) \subseteq open
  BY <1>4 DEF Taken
<1>11. Allocated(open, ids, in.amount, in.credit, g[D])
  BY <1>1, <1>9, <1>10, AllocatedOfAll
<1> QED
  BY <1>6, <1>7, <1>11 DEF open

(* What the engine is called with: open charges with ids of their own.     *)
ValidInput(in, ids) ==
  /\ Distinct(in.charges)
  /\ IsFiniteSet(ids) /\ IdsOf(in.charges) \subseteq ids
  /\ in.amount \in Nat /\ in.credit \in Int /\ in.threshold \in Nat

OpenOf(in) == {c \in in.charges : c.outstanding > 0}

MustHold(in) ==
  \/ ~in.unitMatched
  \/ ~in.forceApply /\ (IsDuplicate(in) \/ SendersDiffer(in.source, in.occupant))

(* The payment is held and no money is touched.                            *)
HoldsAll(in, result) ==
  /\ result.status = "EXCEPTION"
  /\ result.exceptionType = IF ~in.unitMatched THEN "MISDIRECTED"
                            ELSE IF IsDuplicate(in) THEN "DUPLICATE" ELSE "THIRD_PARTY"
  /\ result.allocs = << >> /\ result.creditApplied = 0 /\ result.creditAdded = 0

(* The payment is applied: p is what the allocation leaves.                *)
Settles(in, p, result) ==
  /\ result.allocs = p.allocs /\ result.creditApplied = in.credit - p.credit
  /\ IF p.payment > in.threshold
     THEN /\ result.status = "EXCEPTION" /\ result.exceptionType = "OVERPAYMENT"
          /\ result.creditAdded = 0
     ELSE /\ result.status \in {"OVERPAYMENT", "PARTIAL", "MATCHED"}
          /\ result.exceptionType = NotAnException
          /\ result.creditAdded = p.payment

(* What every result is made of.                                           *)
ResultOK(result) ==
  /\ result.status \in {"EXCEPTION", "OVERPAYMENT", "PARTIAL", "MATCHED"}
  /\ result.exceptionType \in
       {NotAnException, "MISDIRECTED", "DUPLICATE", "THIRD_PARTY", "OVERPAYMENT"}
  /\ result.allocs \in UNION {[I -> Shares] : I \in SUBSET Int}
  /\ result.creditApplied \in Int /\ result.creditAdded \in Int

(* Either the engine holds the payment and moves nothing, or it settles    *)
(* it: what the charges get and the surplus that becomes credit add up to  *)
(* the payment and the credit used.                                        *)
THEOREM ReconcileResult ==
  ASSUME NEW in, NEW ids, ValidInput(in, ids)
  PROVE  LET result == Reconcile(in)
             p == Allocate(in)
         IN  /\ ResultOK(result)
             /\ DOMAIN result.allocs \subseteq IdsOf(OpenOf(in))
             /\ MustHold(in) => HoldsAll(in, result)
             /\ ~MustHold(in) => /\ Allocated(OpenOf(in), ids, in.amount, in.credit, p)
                                 /\ Settles(in, p, result)
<1> DEFINE result == Reconcile(in)
           p == Allocate(in)
<1>1. << >> \in UNION {[I -> Shares] : I \in SUBSET Int} /\ DOMAIN << >> = {}
  <2>1. << >> \in [{} -> Shares] /\ {} \in SUBSET Int /\ DOMAIN << >> = {}
    OBVIOUS
  <2> QED
    BY <2>1
<1>2. in.credit \in Int /\ in.threshold \in Nat
  BY DEF ValidInput
<1>3. CASE MustHold(in)
  <2>1. HoldsAll(in, result)
    BY <1>3 DEF Reconcile, MustHold, HoldsAll, Held
  <2>3. ResultOK(result)
    <3> HIDE DEF result
    <3> QED
      BY <1>1, <2>1 DEF HoldsAll, ResultOK
  <2>4. DOMAIN result.allocs = {}
    BY <1>1, <2>1 DEF HoldsAll
  <2> QED
    BY <1>3, <2>1, <2>3, <2>4
<1>4. CASE ~MustHold(in)
  <2>1. Allocated(OpenOf(in), ids, in.amount, in.credit, p)
    BY AllocateAllocates DEF ValidInput, OpenOf
  <2>2. p \in Purses /\ DOMAIN p.allocs \subseteq IdsOf(OpenOf(in))
    BY <2>1 DEF Allocated
  <2>3. /\ p.credit \in Int /\ p.payment \in Nat
        /\ p.allocs \in UNION {[I -> Shares] : I \in SUBSET Int}
    BY <2>2 DEF Purses
  <2>4. result = Classify(in, p)
    BY <1>4 DEF Reconcile, MustHold
  <2> HIDE DEF p, result
  <2>5. Settles(in, p, result)
    BY <1>2, <2>3, <2>4 DEF Classify, Held, OverThreshold, Settles, NotAnException
  <2>6. ResultOK(result)
    BY <1>2, <2>3, <2>5 DEF Settles, ResultOK
  <2>7. DOMAIN result.allocs \subseteq IdsOf(OpenOf(in))
    BY <2>2, <2>5 DEF Settles
  <2> QED
    BY <1>4, <2>1, <2>5, <2>6, <2>7 DEF p, result
<1> QED
  BY <1>3, <1>4
=============================================================================
