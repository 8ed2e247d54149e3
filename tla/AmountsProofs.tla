--------------------------- MODULE AmountsProofs ---------------------------
(***************************************************************************)
(* Facts about sums of Credits (Total) and about one account row, used by  *)
(* the proofs of the components.                                           *)
(***************************************************************************)
EXTENDS Amounts, FiniteSetTheorems, TLAPS

\* The units of every amount but f[x].
UnitsBut(f, x) == UNION {{y} \X (1..f[y]) : y \in DOMAIN f \ {x}}

\* A finite family of amounts has finitely many units.
LEMMA UnitsFinite ==
  ASSUME NEW S, IsFiniteSet(S), NEW f \in [S -> Nat], NEW T \in SUBSET S
  PROVE  IsFiniteSet(UNION {{y} \X (1..f[y]) : y \in T})
<1> DEFINE F == [y \in T |-> {y} \X (1..f[y])]
           U == {{y} \X (1..f[y]) : y \in T}
<1>1. IsFiniteSet(T)
  BY FS_Subset
<1>2. F \in Surjection(T, U)
  BY DEF Surjection
<1>3. IsFiniteSet(U)
  BY <1>1, <1>2, FS_Surjection
<1>4. \A u \in U : IsFiniteSet(u)
  <2>1. TAKE u \in U
  <2>2. PICK y \in T : u = {y} \X (1..f[y])
    BY <2>1
  <2>3. f[y] \in Int
    OBVIOUS
  <2>4. IsFiniteSet({y})
    BY FS_Singleton
  <2>5. IsFiniteSet(1..f[y])
    BY <2>3, FS_Interval
  <2> QED
    BY <2>2, <2>4, <2>5, FS_Product
<1> QED
  BY <1>3, <1>4, FS_UNION

\* The sum is one amount more than the sum of the others.
LEMMA TotalSplit ==
  ASSUME NEW S, IsFiniteSet(S), NEW f \in [S -> Nat], NEW x \in S
  PROVE  /\ Cardinality(UnitsBut(f, x)) \in Nat
         /\ Total(f) = Cardinality(UnitsBut(f, x)) + f[x]
<1> DEFINE R == UnitsBut(f, x)
           X == {x} \X (1..f[x])
<1>1. IsFiniteSet(R) /\ Cardinality(R) \in Nat
  BY UnitsFinite, FS_CardinalityType, Zenon DEF UnitsBut
<1>2. IsFiniteSet(X) /\ Cardinality(X) = f[x]
  <2>1. IsFiniteSet({x}) /\ Cardinality({x}) = 1
    BY FS_Singleton
  <2>2. IsFiniteSet(1..f[x]) /\ Cardinality(1..f[x]) = f[x]
    BY FS_Interval
  <2>3. IsFiniteSet(X) /\ Cardinality(X) = Cardinality({x}) * Cardinality(1..f[x])
    BY <2>1, <2>2, FS_Product
  <2> QED
    BY <2>1, <2>2, <2>3
<1>3. Units(f) = R \cup X
  BY DEF Units, UnitsBut
<1>4. R \cap X = {}
  BY DEF UnitsBut
<1>5. Cardinality(R \cup X) = Cardinality(R) + Cardinality(X) - Cardinality(R \cap X)
  BY <1>1, <1>2, FS_Union
<1>6. Cardinality({}) = 0
  BY FS_EmptySet
<1>7. Cardinality(R \cap X) = 0
  BY <1>4, <1>6, Zenon
<1>8. Cardinality(Units(f)) = Cardinality(R \cup X)
  BY <1>3, Zenon
<1>9. f[x] \in Nat
  OBVIOUS
<1>10. Total(f) = Cardinality(R) + f[x]
  <2> HIDE DEF R, X
  <2> QED
    BY <1>1, <1>2, <1>5, <1>7, <1>8, <1>9 DEF Total
<1> QED
  BY <1>1, <1>10

\* The sum is a number no smaller than any of its amounts.
LEMMA TotalBounds ==
  ASSUME NEW S, IsFiniteSet(S), NEW f \in [S -> Nat]
  PROVE  Total(f) \in Nat /\ \A x \in S : f[x] <= Total(f)
<1>1. Total(f) \in Nat
  BY UnitsFinite, FS_CardinalityType DEF Total, Units
<1>2. ASSUME NEW x \in S PROVE f[x] <= Total(f)
  BY TotalSplit
<1> QED
  BY <1>1, <1>2

\* Changing one amount changes the sum by the difference.
LEMMA TotalUpdate ==
  ASSUME NEW S, IsFiniteSet(S), NEW f \in [S -> Nat], NEW g \in [S -> Nat],
         NEW x \in S, \A y \in S \ {x} : f[y] = g[y]
  PROVE  Total(g) + f[x] = Total(f) + g[x]
<1>1. UnitsBut(f, x) = UnitsBut(g, x)
  BY DEF UnitsBut
<1> QED
  BY <1>1, TotalSplit

\* One amount more makes the sum that much larger.
LEMMA TotalExtend ==
  ASSUME NEW S, IsFiniteSet(S), NEW x, x \notin S, NEW f \in [S -> Nat], NEW g \in [S \cup {x} -> Nat],
         \A y \in S : f[y] = g[y]
  PROVE  Total(g) = Total(f) + g[x]
<1>1. IsFiniteSet(S \cup {x})
  BY FS_AddElement
<1>2. UnitsBut(g, x) = Units(f)
  BY DEF UnitsBut, Units
<1>3. Total(f) = Cardinality(UnitsBut(g, x))
  BY <1>2, Zenon DEF Total
<1>4. Total(g) = Cardinality(UnitsBut(g, x)) + g[x]
  <2> DEFINE T == S \cup {x}
  <2>1. IsFiniteSet(T) /\ g \in [T -> Nat] /\ x \in T
    BY <1>1
  <2> HIDE DEF T
  <2> QED
    BY <2>1, TotalSplit
<1> QED
  BY <1>3, <1>4

\* Some of the amounts make a sum no larger than all of them.
LEMMA TotalSubset ==
  ASSUME NEW S, IsFiniteSet(S), NEW T \in SUBSET S, NEW f \in [S -> Nat], NEW g \in [T -> Nat],
         \A y \in T : f[y] = g[y]
  PROVE  Total(g) <= Total(f) /\ Total(g) \in Nat /\ Total(f) \in Nat
<1>1. IsFiniteSet(Units(f))
  BY UnitsFinite DEF Units
<1>2. Units(g) \subseteq Units(f)
  BY DEF Units
<1>3. IsFiniteSet(Units(g)) /\ Cardinality(Units(g)) <= Cardinality(Units(f))
  BY <1>1, <1>2, FS_Subset
<1> QED
  BY <1>1, <1>3, FS_CardinalityType DEF Total

\* The sum of a family of zeros is zero.
LEMMA TotalZero ==
  ASSUME NEW S, NEW f \in [S -> Nat], \A x \in S : f[x] = 0
  PROVE  Total(f) = 0
<1>1. Units(f) = {}
  BY DEF Units
<1> QED
  BY <1>1, FS_EmptySet DEF Total

\* Reserving adds to the locked part of an account row and to nothing else.
LEMMA ReserveTyped ==
  ASSUME NEW a \in Accounts, NEW amount \in Nat
  PROVE  /\ Reserve(a, amount) \in Accounts
         /\ Reserve(a, amount).balance = a.balance
         /\ Reserve(a, amount).locked = a.locked + amount
BY DEF Accounts, Reserve

\* Releasing takes the hold out of the locked part, never below zero.
LEMMA ReleaseTyped ==
  ASSUME NEW a \in Accounts, NEW hold \in Nat
  PROVE  /\ Release(a, hold) \in Accounts
         /\ Release(a, hold).balance = a.balance
         /\ Release(a, hold).locked = IF hold <= a.locked THEN a.locked - hold ELSE 0
BY DEF Accounts, Release

\* A charge is at most what is available, so it leaves the locked part covered.
LEMMA ChargeBounds ==
  ASSUME NEW a \in Accounts, NEW computed \in Nat
  PROVE  /\ ChargeOf(a, computed) \in Nat
         /\ ChargeOf(a, computed) <= Available(a)
         /\ ChargeOf(a, computed) <= a.balance
BY DEF Accounts, ChargeOf, Available

\* A debit within the balance leaves an account row.
LEMMA DebitTyped ==
  ASSUME NEW a \in Accounts, NEW amount \in Nat, amount <= a.balance
  PROVE  /\ Debit(a, amount) \in Accounts
         /\ Debit(a, amount).balance = a.balance - amount
         /\ Debit(a, amount).locked = a.locked
BY DEF Accounts, Debit
=============================================================================
