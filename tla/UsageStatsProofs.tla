--------------------------- MODULE UsageStatsProofs ---------------------------
(***************************************************************************)
(* What holds of the usage statistics whatever the batches, the claims and *)
(* the interleaving of the two workers: the tables hold every aggregated   *)
(* call once, under its keys, the series of the dashboards sum them, and   *)
(* the snapshots of a project that is not dirty show them ranked and in    *)
(* histograms.                                                             *)
(***************************************************************************)
EXTENDS UsageStats, AmountsProofs, SequenceTheorems, WellFoundedInduction

-----------------------------------------------------------------------------
(* Finite sets, from small to large. *)

Lower == {p \in Nat \X Nat : p[1] < p[2]}

\* A nonempty set of numbers has a least member.
LEMMA Least ==
  ASSUME NEW T \in SUBSET Nat, T # {}
  PROVE  \E x \in T : \A y \in T : x <= y
<1>1. IsWellFoundedOn(Lower, Nat)
  BY NatLessThanWellFounded DEF OpToRel, Lower
<1>2. PICK x \in T : \A y \in T : ~(<<y, x>> \in Lower)
  BY <1>1, WFMin
<1>3. ASSUME NEW y \in T PROVE x <= y
  <2>1. <<y, x>> \notin Lower /\ <<y, x>> \in Nat \X Nat
    BY <1>2
  <2>2. ~(y < x)
    BY <2>1 DEF Lower
  <2> QED
    BY <2>2
<1> QED
  BY <1>3

\* What passes from the proper subsets of a finite set to the set itself holds of all its subsets.
LEMMA SetsGrow ==
  ASSUME NEW S, IsFiniteSet(S), NEW T,
         \A A \in SUBSET S : (\A B \in SUBSET A : B # A => B \in T) => A \in T
  PROVE  \A A \in SUBSET S : A \in T
<1> DEFINE Bad == (SUBSET S) \ T
           Sizes == {Cardinality(A) : A \in Bad}
<1> SUFFICES ASSUME Bad # {} PROVE FALSE
  OBVIOUS
<1>1. \A A \in SUBSET S : IsFiniteSet(A) /\ Cardinality(A) \in Nat
  BY FS_Subset, FS_CardinalityType
<1>2. Sizes \in SUBSET Nat /\ Sizes # {}
  BY <1>1
<1>3. PICK n \in Sizes : \A k \in Sizes : n <= k
  <2> HIDE DEF Sizes
  <2> QED
    BY <1>2, Least
<1>4. PICK A \in Bad : n = Cardinality(A)
  BY <1>3
<1>5. ASSUME NEW B \in SUBSET A, B # A PROVE B \in T
  <2>1. IsFiniteSet(A) /\ Cardinality(B) <= Cardinality(A) /\ (Cardinality(B) = Cardinality(A) => B = A)
    BY <1>1, FS_Subset
  <2>2. ~(n <= Cardinality(B)) /\ B \in SUBSET S
    BY <1>1, <1>4, <1>5, <2>1
  <2> QED
    BY <1>3, <2>2
<1>6. A \in SUBSET S /\ A \notin T
  BY <1>4
<1> HIDE DEF Bad, Sizes
<1> QED
  BY <1>5, <1>6

-----------------------------------------------------------------------------
(* Uses: a number for each counter. *)

Fields == DOMAIN NoUse
Uses == [Fields -> Nat]

\* The amounts of one counter, and the sum of every counter.
Part(w, f) == [x \in DOMAIN w |-> w[x][f]]
UseSum(w) == [f \in Fields |-> Total(Part(w, f))]

\* A part of a family.
Only(w, A) == [x \in A |-> w[x]]

\* Uses are added counter by counter.
LEMMA UsesAdd ==
  /\ NoUse \in Uses /\ \A f \in Fields : NoUse[f] = 0
  /\ \A u, v \in Uses : Plus(u, v) \in Uses /\ \A f \in Fields : Plus(u, v)[f] = u[f] + v[f]
  /\ \A u \in Uses : Plus(u, NoUse) = u /\ Plus(NoUse, u) = u
  /\ \A u, v \in Uses : Plus(u, v) = Plus(v, u)
<1>1. NoUse \in Uses /\ \A f \in Fields : NoUse[f] = 0
  BY DEF NoUse, Uses, Fields
<1>2. ASSUME NEW u \in Uses, NEW v \in Uses
      PROVE Plus(u, v) \in Uses /\ (\A f \in Fields : Plus(u, v)[f] = u[f] + v[f]) /\ Plus(u, v) = Plus(v, u)
  BY DEF Plus, Uses
<1>3. ASSUME NEW u \in Uses PROVE Plus(u, NoUse) = u /\ Plus(NoUse, u) = u
  <2>1. \A f \in Fields : u[f] \in Nat /\ Plus(u, NoUse)[f] = u[f] /\ Plus(NoUse, u)[f] = u[f]
    <3>1. \A f \in Fields : u[f] \in Nat
      BY DEF Uses
    <3> QED
      BY <3>1, <1>1, <1>2
  <2>2. Plus(u, NoUse) \in Uses /\ Plus(NoUse, u) \in Uses
    BY <1>1, <1>2
  <2> QED
    BY <2>1, <2>2 DEF Uses
<1> QED
  BY <1>1, <1>2, <1>3

\* Uses that agree on every counter.
LEMMA SameUse ==
  ASSUME NEW u \in Uses, NEW v \in Uses, \A f \in Fields : u[f] = v[f]
  PROVE  u = v
BY DEF Uses

\* A sum of uses is one, and the sum of none is NoUse.
LEMMA SumTyped ==
  ASSUME NEW S, IsFiniteSet(S), NEW w \in [S -> Uses]
  PROVE  /\ UseSum(w) \in Uses
         /\ \A f \in Fields : Part(w, f) \in [S -> Nat] /\ UseSum(w)[f] = Total(Part(w, f))
<1>1. \A f \in Fields : Part(w, f) \in [S -> Nat] /\ UseSum(w)[f] = Total(Part(w, f))
  BY DEF Part, Uses, UseSum
<1>2. \A f \in Fields : Total(Part(w, f)) \in Nat
  BY <1>1, TotalBounds
<1> QED
  BY <1>1, <1>2 DEF UseSum, Uses

LEMMA SumOfNone ==
  ASSUME NEW w, DOMAIN w = {}
  PROVE  UseSum(w) = NoUse
<1>1. \A f \in Fields : Part(w, f) \in [{} -> Nat]
  BY DEF Part
<1>2. \A f \in Fields : Total(Part(w, f)) = 0
  BY <1>1, TotalZero
<1>3. UseSum(w) \in Uses /\ \A f \in Fields : UseSum(w)[f] = 0
  BY <1>2 DEF UseSum, Uses
<1> QED
  BY <1>3, UsesAdd, SameUse

\* The sum of two families that share nothing.
LEMMA TotalOfParts ==
  ASSUME NEW S, IsFiniteSet(S), NEW f \in [S -> Nat], NEW A, NEW B, S = A \cup B, A \cap B = {}
  PROVE  Total(f) = Total(Only(f, A)) + Total(Only(f, B))
<1> DEFINE a == Only(f, A)
           b == Only(f, B)
<1>1. a \in [A -> Nat] /\ b \in [B -> Nat] /\ IsFiniteSet(A) /\ IsFiniteSet(B)
  BY FS_Subset DEF Only
<1>2. Units(f) = Units(a) \cup Units(b) /\ Units(a) \cap Units(b) = {}
  BY DEF Units, Only
<1>3. IsFiniteSet(Units(a)) /\ IsFiniteSet(Units(b))
  <2>1. \A g \in [A -> Nat] : IsFiniteSet(Units(g))
    BY <1>1, UnitsFinite DEF Units
  <2>2. \A g \in [B -> Nat] : IsFiniteSet(Units(g))
    BY <1>1, UnitsFinite DEF Units
  <2> HIDE DEF a, b
  <2> QED
    BY <1>1, <2>1, <2>2
<1>4. Cardinality(Units(a) \cap Units(b)) = 0
  BY <1>2, FS_EmptySet
<1>5. Cardinality(Units(a) \cup Units(b)) = Cardinality(Units(a)) + Cardinality(Units(b)) - Cardinality(Units(a) \cap Units(b))
  BY <1>3, FS_Union
<1>6. Cardinality(Units(a)) \in Nat /\ Cardinality(Units(b)) \in Nat
  BY <1>3, FS_CardinalityType
<1> QED
  BY <1>2, <1>4, <1>5, <1>6 DEF Total

LEMMA SumOfParts ==
  ASSUME NEW S, IsFiniteSet(S), NEW w \in [S -> Uses], NEW A, NEW B, S = A \cup B, A \cap B = {}
  PROVE  /\ UseSum(w) = Plus(UseSum(Only(w, A)), UseSum(Only(w, B)))
         /\ UseSum(Only(w, A)) \in Uses /\ UseSum(Only(w, B)) \in Uses
<1>1. Only(w, A) \in [A -> Uses] /\ Only(w, B) \in [B -> Uses] /\ IsFiniteSet(A) /\ IsFiniteSet(B)
  BY FS_Subset DEF Only
<1>2. UseSum(w) \in Uses /\ UseSum(Only(w, A)) \in Uses /\ UseSum(Only(w, B)) \in Uses
  BY <1>1, SumTyped
<1>3. ASSUME NEW f \in Fields
      PROVE UseSum(w)[f] = UseSum(Only(w, A))[f] + UseSum(Only(w, B))[f]
  <2> DEFINE p == Part(w, f)
  <2>1. p \in [S -> Nat] /\ UseSum(w)[f] = Total(p)
    BY SumTyped
  <2>2. Part(Only(w, A), f) = Only(p, A) /\ Part(Only(w, B), f) = Only(p, B)
    BY DEF Part, Only
  <2>3. UseSum(Only(w, A))[f] = Total(Only(p, A)) /\ UseSum(Only(w, B))[f] = Total(Only(p, B))
    BY <1>1, <2>2, SumTyped
  <2> HIDE DEF p
  <2> QED
    BY <2>1, <2>3, TotalOfParts
<1> QED
  BY <1>2, <1>3, UsesAdd, SameUse

\* The sum of one.
LEMMA SumOfOne ==
  ASSUME NEW x, NEW w \in [{x} -> Uses]
  PROVE  UseSum(w) = w[x]
<1>1. IsFiniteSet({x}) /\ IsFiniteSet({})
  BY FS_Singleton, FS_EmptySet
<1>2. ASSUME NEW f \in Fields PROVE UseSum(w)[f] = w[x][f]
  <2> DEFINE p == Part(w, f)
  <2>1. p \in [{x} -> Nat] /\ UseSum(w)[f] = Total(p) /\ p[x] = w[x][f]
    BY <1>1, SumTyped DEF Part
  <2> HIDE DEF p
  <2>2. UnitsBut(p, x) = {}
    BY <2>1 DEF UnitsBut
  <2>3. Total(p) = Cardinality(UnitsBut(p, x)) + p[x]
    BY <1>1, <2>1, TotalSplit
  <2>4. p[x] \in Nat /\ Cardinality({}) = 0
    BY <2>1, FS_EmptySet
  <2> QED
    BY <2>1, <2>2, <2>3, <2>4
<1> QED
  BY <1>1, <1>2, SumTyped, SameUse

\* A sum is any of its uses and the sum of the others.
LEMMA SumAdds ==
  ASSUME NEW S, IsFiniteSet(S), NEW w \in [S -> Uses], NEW x \in S
  PROVE  UseSum(w) = Plus(w[x], UseSum(Only(w, S \ {x}))) /\ UseSum(Only(w, S \ {x})) \in Uses
<1>1. S = {x} \cup (S \ {x}) /\ {x} \cap (S \ {x}) = {}
  OBVIOUS
<1>2. Only(w, {x}) \in [{x} -> Uses] /\ Only(w, {x})[x] = w[x]
  BY DEF Only
<1>3. UseSum(Only(w, {x})) = w[x]
  BY <1>2, SumOfOne
<1> QED
  BY <1>1, <1>3, SumOfParts


-----------------------------------------------------------------------------
(* Folds of the model are sums. *)

AnyOf(s) == CHOOSE x \in s : TRUE
Sums(S, w, iter) == iter = [s \in SUBSET S |-> IF s = {} THEN NoUse ELSE Plus(w[AnyOf(s)], iter[s \ {AnyOf(s)}])]

\* A recursion that adds one use after the other, in whatever order, arrives at the sum.
LEMMA FoldIsSum ==
  ASSUME NEW S, IsFiniteSet(S), NEW w \in [S -> Uses], NEW iter, Sums(S, w, iter)
  PROVE  iter[S] = UseSum(w)
<1> DEFINE T == {s \in SUBSET S : iter[s] = UseSum(Only(w, s))}
<1>1. ASSUME NEW A \in SUBSET S, \A B \in SUBSET A : B # A => B \in T PROVE A \in T
  <2>1. CASE A = {}
    BY <2>1, SumOfNone DEF Only, Sums
  <2>2. CASE A # {}
    <3> DEFINE x == AnyOf(A)
    <3>1. x \in A /\ A \ {x} \in SUBSET A /\ A \ {x} # A
      BY <2>2 DEF AnyOf
    <3> HIDE DEF x
    <3>2. iter[A \ {x}] = UseSum(Only(w, A \ {x}))
      BY <1>1, <3>1
    <3>3. iter[A] = Plus(w[x], iter[A \ {x}])
      BY <2>2 DEF x, Sums
    <3>4. IsFiniteSet(A) /\ Only(w, A) \in [A -> Uses] /\ Only(w, A)[x] = w[x]
          /\ Only(Only(w, A), A \ {x}) = Only(w, A \ {x})
      BY <3>1, FS_Subset DEF Only
    <3>5. UseSum(Only(w, A)) = Plus(Only(w, A)[x], UseSum(Only(Only(w, A), A \ {x})))
      BY <3>1, <3>4, SumAdds
    <3> QED
      BY <3>2, <3>3, <3>4, <3>5
  <2> QED
    BY <2>1, <2>2
<1> HIDE DEF T
<1>2. S \in T
  BY <1>1, SetsGrow
<1>3. Only(w, S) = w
  BY DEF Only
<1> QED
  BY <1>2, <1>3 DEF T

\* There is such a recursion.
LEMMA FoldExists ==
  ASSUME NEW S, IsFiniteSet(S), NEW w \in [S -> Uses]
  PROVE  \E iter : Sums(S, w, iter)
<1> DEFINE iter == [s \in SUBSET S |-> UseSum(Only(w, s))]
           next == [s \in SUBSET S |-> IF s = {} THEN NoUse ELSE Plus(w[AnyOf(s)], iter[s \ {AnyOf(s)}])]
<1>1. ASSUME NEW s \in SUBSET S PROVE iter[s] = next[s]
  <2>1. CASE s = {}
    BY <2>1, SumOfNone DEF Only
  <2>2. CASE s # {}
    <3> DEFINE x == AnyOf(s)
    <3>1. x \in s /\ s \ {x} \in SUBSET S
      BY <2>2 DEF AnyOf
    <3>2. next[s] = Plus(w[x], UseSum(Only(w, s \ {x})))
      BY <2>2, <3>1
    <3> HIDE DEF x, next
    <3>3. IsFiniteSet(s) /\ Only(w, s) \in [s -> Uses] /\ Only(w, s)[x] = w[x]
          /\ Only(Only(w, s), s \ {x}) = Only(w, s \ {x})
      BY <3>1, FS_Subset DEF Only
    <3>4. UseSum(Only(w, s)) = Plus(Only(w, s)[x], UseSum(Only(Only(w, s), s \ {x})))
      BY <3>1, <3>3, SumAdds
    <3>5. iter[s] = UseSum(Only(w, s))
      OBVIOUS
    <3> QED
      BY <3>2, <3>3, <3>4, <3>5
  <2> QED
    BY <2>1, <2>2
<1>2. iter = next
  BY <1>1
<1> QED
  BY <1>2 DEF Sums

\* The sum of the rows of a table under given keys.
LEMMA SumRowsIs ==
  ASSUME NEW table, NEW keys, IsFiniteSet(DOMAIN table), \A k \in DOMAIN table : table[k] \in Uses
  PROVE  SumRows(table, keys) = UseSum(Only(table, DOMAIN table \cap keys))
<1> DEFINE S == DOMAIN table \cap keys
           w == Only(table, S)
           Body(iter) == [s \in SUBSET S |-> IF s = {} THEN NoUse ELSE Plus(table[AnyOf(s)], iter[s \ {AnyOf(s)}])]
           g == CHOOSE iter : iter = Body(iter)
<1>1. SumRows(table, keys) = g[S]
  BY DEF SumRows, FoldFunctionOnSet, MapThenFoldSet, AnyOf
<1>2. \A iter : iter = Body(iter) <=> Sums(S, w, iter)
  BY DEF AnyOf, Only, Sums
<1>3. IsFiniteSet(S) /\ w \in [S -> Uses]
  BY FS_Subset DEF Only
<1> HIDE DEF S, w
<1>4. \E iter : Sums(S, w, iter)
  BY <1>3, FoldExists
<1>5. Sums(S, w, g)
  <2> HIDE DEF Body
  <2>1. \E iter : iter = Body(iter)
    BY <1>2, <1>4
  <2>2. g = Body(g)
    BY <2>1
  <2> QED
    BY <1>2, <2>2
<1> HIDE DEF g, Body
<1>6. g[S] = UseSum(w)
  BY <1>3, <1>5, FoldIsSum
<1> QED
  BY <1>1, <1>6 DEF w, S

\* What is tallied is the sum of what the calls add.
Added(rows, ids) == [i \in ids |-> Increment(rows[i])]
TallyOf(rows, ids) == FoldSet(LAMBDA i, acc : Plus(Increment(rows[i]), acc), NoUse, ids)
LEMMA TallyIs ==
  ASSUME NEW rows, NEW ids, IsFiniteSet(ids), \A i \in ids : Increment(rows[i]) \in Uses
  PROVE  TallyOf(rows, ids) = UseSum(Added(rows, ids))
<1> DEFINE w == Added(rows, ids)
           Body(iter) == [s \in SUBSET ids |-> IF s = {} THEN NoUse
                                               ELSE Plus(Increment(rows[AnyOf(s)]), iter[s \ {AnyOf(s)}])]
           g == CHOOSE iter : iter = Body(iter)
<1>1. TallyOf(rows, ids) = g[ids]
  BY DEF TallyOf, FoldSet, MapThenFoldSet, AnyOf
<1>2. \A iter : iter = Body(iter) <=> Sums(ids, w, iter)
  BY DEF AnyOf, Added, Sums
<1>3. w \in [ids -> Uses]
  BY DEF Added
<1> HIDE DEF w
<1>4. \E iter : Sums(ids, w, iter)
  BY <1>3, FoldExists
<1>5. Sums(ids, w, g)
  <2> HIDE DEF Body
  <2>1. \E iter : iter = Body(iter)
    BY <1>2, <1>4
  <2>2. g = Body(g)
    BY <2>1
  <2> QED
    BY <1>2, <2>2
<1> HIDE DEF g, Body
<1>6. g[ids] = UseSum(w)
  BY <1>3, <1>5, FoldIsSum
<1> QED
  BY <1>1, <1>6 DEF w


-----------------------------------------------------------------------------
(* Sums of sums. *)

\* Adding up by keys, and then the keys, adds up everything under these keys.
LEMMA SumByKey ==
  ASSUME NEW ids, IsFiniteSet(ids), NEW w \in [ids -> Uses], NEW K, NEW Keys, IsFiniteSet(Keys)
  PROVE  UseSum([k \in Keys |-> UseSum(Only(w, {i \in ids : K[i] = k}))]) = UseSum(Only(w, {i \in ids : K[i] \in Keys}))
<1> DEFINE Under(A) == {i \in ids : K[i] \in A}
           v == [k \in Keys |-> UseSum(Only(w, {i \in ids : K[i] = k}))]
           T == {A \in SUBSET Keys : UseSum(Only(v, A)) = UseSum(Only(w, Under(A)))}
<1>1. ASSUME NEW A \in SUBSET ids PROVE IsFiniteSet(A) /\ Only(w, A) \in [A -> Uses] /\ UseSum(Only(w, A)) \in Uses
  <2>1. IsFiniteSet(A) /\ Only(w, A) \in [A -> Uses]
    BY FS_Subset DEF Only
  <2> QED
    BY <2>1, SumTyped
<1>2. v \in [Keys -> Uses]
  <2>1. \A k \in Keys : {i \in ids : K[i] = k} \in SUBSET ids
    OBVIOUS
  <2> QED
    BY <1>1, <2>1
<1>3. \A k \in Keys : v[k] = UseSum(Only(w, {i \in ids : K[i] = k}))
  OBVIOUS
<1> HIDE DEF v
<1>4. ASSUME NEW A \in SUBSET Keys, \A B \in SUBSET A : B # A => B \in T PROVE A \in T
  <2>1. CASE A = {}
    BY <2>1, SumOfNone DEF Only
  <2>2. CASE A # {}
    <3> DEFINE x == AnyOf(A)
               X == {i \in ids : K[i] = x}
               R == A \ {x}
    <3>1. x \in A /\ R \in SUBSET A /\ R # A
      BY <2>2 DEF AnyOf
    <3> HIDE DEF x
    <3>2. UseSum(Only(v, R)) = UseSum(Only(w, Under(R)))
      BY <1>4, <3>1
    <3>3. IsFiniteSet(A) /\ Only(v, A) \in [A -> Uses] /\ Only(v, A)[x] = v[x] /\ Only(Only(v, A), R) = Only(v, R)
      BY <1>2, <3>1, FS_Subset DEF Only
    <3>4. UseSum(Only(v, A)) = Plus(v[x], UseSum(Only(v, R)))
      <4>1. UseSum(Only(v, A)) = Plus(Only(v, A)[x], UseSum(Only(Only(v, A), R)))
        BY <3>1, <3>3, SumAdds
      <4> QED
        BY <3>3, <4>1
    <3>5. v[x] = UseSum(Only(w, X))
      BY <1>3, <3>1
    <3>6. Under(A) = X \cup Under(R) /\ X \cap Under(R) = {} /\ Under(A) \in SUBSET ids /\ X \in SUBSET ids /\ Under(R) \in SUBSET ids
      BY <3>1
    <3>7. Only(Only(w, Under(A)), X) = Only(w, X) /\ Only(Only(w, Under(A)), Under(R)) = Only(w, Under(R))
      BY <3>6 DEF Only
    <3> DEFINE a == Under(A)
               r == Under(R)
               y == Only(w, a)
    <3>8. IsFiniteSet(a) /\ y \in [a -> Uses] /\ a = X \cup r /\ X \cap r = {} /\ Only(y, X) = Only(w, X) /\ Only(y, r) = Only(w, r)
      BY <1>1, <3>6, <3>7
    <3>9. UseSum(y) = Plus(UseSum(Only(w, X)), UseSum(Only(w, r)))
      <4> HIDE DEF X, r, a, y
      <4> QED
        BY <3>8, SumOfParts
    <3>10. UseSum(Only(v, A)) = UseSum(Only(w, Under(A)))
      BY <3>2, <3>4, <3>5, <3>9
    <3> QED
      BY <3>10
  <2> QED
    BY <2>1, <2>2
<1> HIDE DEF T
<1>5. Keys \in T
  BY <1>4, SetsGrow
<1>6. Only(v, Keys) = v
  BY <1>2 DEF Only
<1> QED
  BY <1>5, <1>6 DEF T, v

-----------------------------------------------------------------------------
(* The calls, and what they add up to. *)

CallRows == [at : Nat, job : Nat, project : Projects, model : Models, success : BOOLEAN, age : Nat,
             tokens : Nat, credits : Nat, bucket : 1..Buckets]

\* What a call adds is a use.
LEMMA IncrementTyped == \A call \in CallRows : Increment(call) \in Uses
BY DEF CallRows, Increment, Uses, Fields, NoUse

\* Every set of calls is finite and adds up.
LEMMA CallsAdd ==
  ASSUME NEW rows \in Seq(CallRows)
  PROVE  /\ IsFiniteSet(DOMAIN rows) /\ \A i \in DOMAIN rows : rows[i] \in CallRows
         /\ \A A \in SUBSET DOMAIN rows : /\ IsFiniteSet(A) /\ Added(rows, A) \in [A -> Uses]
                                           /\ TallyOf(rows, A) = UseSum(Added(rows, A)) /\ TallyOf(rows, A) \in Uses
<1>1. Len(rows) \in Nat /\ DOMAIN rows = 1..Len(rows) /\ \A i \in DOMAIN rows : rows[i] \in CallRows
  BY LenProperties, ElementOfSeq
<1>2. IsFiniteSet(DOMAIN rows)
  BY <1>1, FS_Interval
<1>3. ASSUME NEW A \in SUBSET DOMAIN rows
      PROVE IsFiniteSet(A) /\ Added(rows, A) \in [A -> Uses] /\ TallyOf(rows, A) = UseSum(Added(rows, A)) /\ TallyOf(rows, A) \in Uses
  <2>1. IsFiniteSet(A)
    BY <1>2, FS_Subset
  <2>2. \A i \in A : Increment(rows[i]) \in Uses
    BY <1>1, IncrementTyped
  <2>3. Added(rows, A) \in [A -> Uses]
    BY <2>2 DEF Added
  <2>4. TallyOf(rows, A) = UseSum(Added(rows, A))
    BY <2>1, <2>2, TallyIs
  <2> QED
    BY <2>1, <2>3, <2>4, SumTyped
<1> QED
  BY <1>1, <1>2, <1>3

\* One call more adds what it is.
LEMMA TallyAdds ==
  ASSUME NEW rows \in Seq(CallRows), NEW A \in SUBSET DOMAIN rows, NEW x \in DOMAIN rows \ A
  PROVE  TallyOf(rows, A \cup {x}) = Plus(TallyOf(rows, A), Increment(rows[x]))
<1> DEFINE B == A \cup {x}
<1>1. Added(rows, B)[x] = Increment(rows[x]) /\ Only(Added(rows, B), B \ {x}) = Added(rows, A)
  BY DEF Added, Only
<1>2. B \in SUBSET DOMAIN rows /\ x \in B
  OBVIOUS
<1> HIDE DEF B
<1>3. IsFiniteSet(B) /\ Added(rows, B) \in [B -> Uses] /\ TallyOf(rows, B) = UseSum(Added(rows, B)) /\ TallyOf(rows, A) = UseSum(Added(rows, A)) /\ TallyOf(rows, A) \in Uses
  BY <1>2, CallsAdd
<1>4. UseSum(Added(rows, B)) = Plus(Added(rows, B)[x], UseSum(Only(Added(rows, B), B \ {x})))
  BY <1>2, <1>3, SumAdds
<1>5. Added(rows, B)[x] \in Uses
  BY <1>2, <1>3
<1>6. TallyOf(rows, B) = Plus(Increment(rows[x]), TallyOf(rows, A)) /\ Increment(rows[x]) \in Uses
  BY <1>1, <1>3, <1>4, <1>5
<1>7. TallyOf(rows, B) = Plus(TallyOf(rows, A), Increment(rows[x]))
  BY <1>3, <1>6, UsesAdd
<1> QED
  BY <1>7 DEF B

\* No calls, no use.
LEMMA TallyOfNone == \A rows \in Seq(CallRows) : TallyOf(rows, {}) = NoUse
<1> SUFFICES ASSUME NEW rows \in Seq(CallRows) PROVE TallyOf(rows, {}) = NoUse
  OBVIOUS
<1>1. TallyOf(rows, {}) = UseSum(Added(rows, {})) /\ DOMAIN Added(rows, {}) = {}
  BY CallsAdd DEF Added
<1> QED
  BY <1>1, SumOfNone

-----------------------------------------------------------------------------
(* The rows of a table: one for every key of the calls that were aggregated. *)

AccountKey(rows) == [i \in DOMAIN rows |-> <<Owner[rows[i].project], HourStart(rows[i].at)>>]
ProjectKey(rows) == [i \in DOMAIN rows |-> <<rows[i].project, HourStart(rows[i].at)>>]
ModelKey(rows) == [i \in DOMAIN rows |-> <<rows[i].project, rows[i].model, rows[i].at>>]
DurationKey(rows) == [i \in DOMAIN rows |-> <<rows[i].project, rows[i].bucket, rows[i].at>>]

With(ids, K, k) == {i \in ids : K[i] = k}
RowsOf(rows, ids, K) == [k \in {K[i] : i \in ids} |-> TallyOf(rows, With(ids, K, k))]
CountsOf(ids, K) == [k \in {K[i] : i \in ids} |-> Cardinality(With(ids, K, k))]
Stats(rows, ids) ==
  [account |-> RowsOf(rows, ids, AccountKey(rows)), project |-> RowsOf(rows, ids, ProjectKey(rows)),
   model |-> RowsOf(rows, ids, ModelKey(rows)), duration |-> CountsOf(ids, DurationKey(rows))]

\* An upsert adds a call to the row of its key.
LEMMA UpsertAdds ==
  ASSUME NEW rows \in Seq(CallRows), NEW ids \in SUBSET DOMAIN rows, NEW x \in DOMAIN rows \ ids, NEW K
  PROVE  /\ Upsert(RowsOf(rows, ids, K), K[x], Increment(rows[x])) = RowsOf(rows, ids \cup {x}, K)
         /\ UpsertCount(CountsOf(ids, K), K[x]) = CountsOf(ids \cup {x}, K)
<1> DEFINE more == ids \cup {x}
           key == K[x]
           use == Increment(rows[x])
<1>1. {K[i] : i \in more} = {key} \cup {K[i] : i \in ids}
  OBVIOUS
<1>2. With(more, K, key) = With(ids, K, key) \cup {x} /\ With(ids, K, key) \in SUBSET DOMAIN rows /\ x \notin With(ids, K, key)
  BY DEF With
<1>3. \A k : k # key => With(more, K, k) = With(ids, K, k)
  BY DEF With
<1>4. TallyOf(rows, With(more, K, key)) = Plus(TallyOf(rows, With(ids, K, key)), use)
  BY <1>2, TallyAdds
<1>5. Cardinality(With(more, K, key)) = Cardinality(With(ids, K, key)) + 1
  BY <1>2, CallsAdd, FS_AddElement
<1>6. key \notin {K[i] : i \in ids} => With(ids, K, key) = {}
  BY DEF With
<1>7. Row(RowsOf(rows, ids, K), key, NoUse) = TallyOf(rows, With(ids, K, key))
  BY <1>6, TallyOfNone DEF Row, RowsOf
<1>8. Row(CountsOf(ids, K), key, 0) = Cardinality(With(ids, K, key))
  BY <1>6, FS_EmptySet DEF Row, CountsOf
<1> HIDE DEF more, key, use
<1>9. Upsert(RowsOf(rows, ids, K), key, use) = RowsOf(rows, more, K)
  <2> DEFINE old == RowsOf(rows, ids, K)
             new == RowsOf(rows, more, K)
             up == Upsert(old, key, use)
  <2>1. /\ DOMAIN old = {K[i] : i \in ids} /\ \A k \in DOMAIN old : old[k] = TallyOf(rows, With(ids, K, k))
        /\ new = [k \in {K[i] : i \in more} |-> TallyOf(rows, With(more, K, k))]
    BY DEF RowsOf
  <2>2. Row(old, key, NoUse) = TallyOf(rows, With(ids, K, key))
    BY <1>7
  <2> HIDE DEF old, new
  <2>3. up = [k \in DOMAIN old \cup {key} |-> IF k = key THEN Plus(TallyOf(rows, With(ids, K, key)), use) ELSE old[k]]
    BY <2>2 DEF Put, Upsert
  <2>4. \A k \in DOMAIN old \cup {key} : TallyOf(rows, With(more, K, k)) = IF k = key THEN Plus(TallyOf(rows, With(ids, K, key)), use) ELSE old[k]
    BY <1>3, <1>4, <2>1
  <2>5. {K[i] : i \in more} = DOMAIN old \cup {key}
    BY <1>1, <2>1
  <2> HIDE DEF up
  <2>6. up = new
    BY <2>1, <2>3, <2>4, <2>5
  <2> QED
    BY <2>6 DEF up, new, old
<1>10. UpsertCount(CountsOf(ids, K), key) = CountsOf(more, K)
  <2> DEFINE old == CountsOf(ids, K)
             new == CountsOf(more, K)
             up == UpsertCount(old, key)
  <2>1. /\ DOMAIN old = {K[i] : i \in ids} /\ \A k \in DOMAIN old : old[k] = Cardinality(With(ids, K, k))
        /\ new = [k \in {K[i] : i \in more} |-> Cardinality(With(more, K, k))]
    BY DEF CountsOf
  <2>2. Row(old, key, 0) = Cardinality(With(ids, K, key))
    BY <1>8
  <2> HIDE DEF old, new
  <2>3. up = [k \in DOMAIN old \cup {key} |-> IF k = key THEN Cardinality(With(ids, K, key)) + 1 ELSE old[k]]
    BY <2>2 DEF Put, UpsertCount
  <2>4. \A k \in DOMAIN old \cup {key} : Cardinality(With(more, K, k)) = IF k = key THEN Cardinality(With(ids, K, key)) + 1 ELSE old[k]
    BY <1>3, <1>5, <2>1
  <2>5. {K[i] : i \in more} = DOMAIN old \cup {key}
    BY <1>1, <2>1
  <2> HIDE DEF up
  <2>6. up = new
    BY <2>1, <2>3, <2>4, <2>5
  <2> QED
    BY <2>6 DEF up, new, old
<1> QED
  BY <1>9, <1>10 DEF more, key, use

\* Applying a call to the tables of some calls makes them the tables of one more.
LEMMA CallApplies ==
  ASSUME calls \in Seq(CallRows), NEW ids \in SUBSET DOMAIN calls, NEW x \in DOMAIN calls \ ids
  PROVE  ApplyCall(Stats(calls, ids), x) = Stats(calls, ids \cup {x})
<1>1. /\ AccountKey(calls)[x] = <<Owner[calls[x].project], HourStart(calls[x].at)>>
      /\ ProjectKey(calls)[x] = <<calls[x].project, HourStart(calls[x].at)>>
      /\ ModelKey(calls)[x] = <<calls[x].project, calls[x].model, calls[x].at>>
      /\ DurationKey(calls)[x] = <<calls[x].project, calls[x].bucket, calls[x].at>>
  BY DEF AccountKey, ProjectKey, ModelKey, DurationKey
<1>2. /\ Upsert(RowsOf(calls, ids, AccountKey(calls)), AccountKey(calls)[x], Increment(calls[x])) = RowsOf(calls, ids \cup {x}, AccountKey(calls))
      /\ Upsert(RowsOf(calls, ids, ProjectKey(calls)), ProjectKey(calls)[x], Increment(calls[x])) = RowsOf(calls, ids \cup {x}, ProjectKey(calls))
      /\ Upsert(RowsOf(calls, ids, ModelKey(calls)), ModelKey(calls)[x], Increment(calls[x])) = RowsOf(calls, ids \cup {x}, ModelKey(calls))
      /\ UpsertCount(CountsOf(ids, DurationKey(calls)), DurationKey(calls)[x]) = CountsOf(ids \cup {x}, DurationKey(calls))
  BY UpsertAdds
<1> QED
  BY <1>1, <1>2 DEF ApplyCall, Stats

\* A batch, applied call by call in any order, makes them the tables of all its calls.
LEMMA BatchApplies ==
  ASSUME calls \in Seq(CallRows), NEW ids \in SUBSET DOMAIN calls, NEW batch \in SUBSET DOMAIN calls, batch \cap ids = {}
  PROVE  FoldSet(LAMBDA i, acc : ApplyCall(acc, i), Stats(calls, ids), batch) = Stats(calls, ids \cup batch)
<1> DEFINE Body(iter) == [s \in SUBSET batch |-> IF s = {} THEN Stats(calls, ids)
                                                 ELSE ApplyCall(iter[s \ {AnyOf(s)}], AnyOf(s))]
           after == [s \in SUBSET batch |-> Stats(calls, ids \cup s)]
           g == CHOOSE iter : iter = Body(iter)
           T == {s \in SUBSET batch : g[s] = Stats(calls, ids \cup s)}
<1>1. FoldSet(LAMBDA i, acc : ApplyCall(acc, i), Stats(calls, ids), batch) = g[batch]
  BY DEF FoldSet, MapThenFoldSet, AnyOf
<1>2. ASSUME NEW s \in SUBSET batch, s # {}
      PROVE  /\ AnyOf(s) \in s /\ s \ {AnyOf(s)} \in SUBSET s /\ s \ {AnyOf(s)} # s
             /\ ApplyCall(Stats(calls, ids \cup (s \ {AnyOf(s)})), AnyOf(s)) = Stats(calls, ids \cup s)
  <2> DEFINE x == AnyOf(s)
             A == ids \cup (s \ {x})
  <2>1. x \in s
    BY <1>2 DEF AnyOf
  <2> HIDE DEF x
  <2>2. A \in SUBSET DOMAIN calls /\ x \in DOMAIN calls \ A /\ A \cup {x} = ids \cup s
    BY <2>1
  <2>3. ApplyCall(Stats(calls, A), x) = Stats(calls, A \cup {x})
    BY <2>2, CallApplies
  <2> QED
    BY <2>1, <2>2, <2>3 DEF x
<1>3. after = Body(after)
  <2>1. ASSUME NEW s \in SUBSET batch PROVE after[s] = Body(after)[s]
    <3>1. CASE s = {}
      BY <3>1
    <3>2. CASE s # {}
      <4>1. after[s \ {AnyOf(s)}] = Stats(calls, ids \cup (s \ {AnyOf(s)})) /\ after[s] = Stats(calls, ids \cup s)
        BY <1>2, <3>2
      <4>2. Body(after)[s] = ApplyCall(after[s \ {AnyOf(s)}], AnyOf(s))
        BY <3>2
      <4> HIDE DEF after, Body
      <4> QED
        BY <1>2, <3>2, <4>1, <4>2
    <3> QED
      BY <3>1, <3>2
  <2> QED
    BY <2>1
<1>4. g = Body(g)
  <2> HIDE DEF Body, after
  <2> QED
    BY <1>3
<1>5. \A s \in SUBSET batch : g[s] = IF s = {} THEN Stats(calls, ids) ELSE ApplyCall(g[s \ {AnyOf(s)}], AnyOf(s))
  <2> HIDE DEF g
  <2> QED
    BY <1>4
<1> HIDE DEF g, Body, after
<1>6. ASSUME NEW A \in SUBSET batch, \A B \in SUBSET A : B # A => B \in T PROVE A \in T
  <2>1. CASE A = {}
    BY <1>5, <2>1
  <2>2. CASE A # {}
    <3> DEFINE r == A \ {AnyOf(A)}
    <3>1. r \in SUBSET A /\ r # A /\ ApplyCall(Stats(calls, ids \cup r), AnyOf(A)) = Stats(calls, ids \cup A)
      BY <1>2, <2>2
    <3>2. g[r] = Stats(calls, ids \cup r)
      BY <1>6, <3>1
    <3>3. g[A] = ApplyCall(g[r], AnyOf(A))
      BY <1>5, <2>2
    <3>4. g[A] = Stats(calls, ids \cup A)
      BY <3>1, <3>2, <3>3
    <3> QED
      BY <3>4
  <2> QED
    BY <2>1, <2>2
<1> HIDE DEF T
<1>7. IsFiniteSet(batch)
  BY CallsAdd
<1>8. batch \in T
  BY <1>6, <1>7, SetsGrow
<1> QED
  BY <1>1, <1>8 DEF T


-----------------------------------------------------------------------------
(* The invariant of the base worker: the tables are those of the calls it has aggregated. *)

Tables == [account |-> accountHour, project |-> projectHour, model |-> modelUse, duration |-> durationUse]

CallsKept == now \in Nat /\ calls \in Seq(CallRows) /\ \A i \in DOMAIN calls : calls[i].at <= now
StatsInv ==
  /\ CallsKept
  /\ pending \subseteq DOMAIN calls
  /\ Tables = Stats(calls, Done)

\* At first nothing was called.
LEMMA StatsBegin == Init => StatsInv
<1> SUFFICES ASSUME Init PROVE StatsInv
  OBVIOUS
<1>1. now \in Nat /\ calls = <<>> /\ pending = {} /\ DOMAIN calls = {} /\ Done = {}
  BY UsageStatsAssumption DEF Init, Done
<1>2. calls \in Seq(CallRows)
  BY <1>1, EmptySeq
<1>3. \A K : RowsOf(calls, {}, K) = NoRows /\ CountsOf({}, K) = NoRows
  BY DEF RowsOf, CountsOf, NoRows
<1>4. Tables = Stats(calls, Done)
  BY <1>1, <1>3 DEF Tables, Stats, Init
<1> QED
  BY <1>1, <1>2, <1>4 DEF StatsInv, CallsKept

\* What is recorded is a call that is still to be aggregated.
LEMMA FinishKeeps ==
  ASSUME StatsInv, NEW call \in Calls, Finish(call)
  PROVE  StatsInv'
<1> DEFINE row == Put(call, "at", now - call.age)
<1>1. now \in Nat /\ calls \in Seq(CallRows) /\ (\A i \in DOMAIN calls : calls[i].at <= now) /\ pending \subseteq DOMAIN calls
  BY DEF StatsInv, CallsKept
<1>2. /\ calls' = Append(calls, row) /\ pending' = pending \cup {Len(calls')} /\ now' = now /\ call.age <= now
      /\ accountHour' = accountHour /\ projectHour' = projectHour /\ modelUse' = modelUse /\ durationUse' = durationUse
  BY DEF Finish, tables
<1>3. call \in [job : Nat, project : Projects, model : Models, success : BOOLEAN, age : Nat,
                tokens : Nat, credits : Nat, bucket : 1..Buckets]
  BY UsageStatsAssumption
<1>4. now - call.age \in Nat /\ now - call.age <= now
  BY <1>1, <1>2, <1>3
<1>5. row \in CallRows /\ row.at <= now
  <2>1. row = [at |-> now - call.age, job |-> call.job, project |-> call.project, model |-> call.model,
               success |-> call.success, age |-> call.age, tokens |-> call.tokens, credits |-> call.credits,
               bucket |-> call.bucket]
    BY <1>3 DEF Put
  <2> HIDE DEF row
  <2> QED
    BY <1>3, <1>4, <2>1 DEF CallRows
<1> DEFINE n == Len(calls)
<1>6. /\ n \in Nat /\ DOMAIN calls = 1..n /\ calls' \in Seq(CallRows) /\ Len(calls') = n + 1 /\ DOMAIN calls' = 1..(n + 1)
      /\ (\A i \in 1..n : calls'[i] = calls[i]) /\ calls'[n + 1] = row
  <2> HIDE DEF row
  <2> QED
    BY <1>1, <1>2, <1>5, AppendProperties, LenProperties
<1>7. CallsKept'
  BY <1>1, <1>2, <1>5, <1>6 DEF CallsKept
<1> HIDE DEF n, row
<1>8. pending' \subseteq DOMAIN calls' /\ Done' = Done /\ Done \subseteq DOMAIN calls
  BY <1>1, <1>2, <1>6 DEF Done
<1>9. ASSUME NEW A \in SUBSET DOMAIN calls PROVE TallyOf(calls', A) = TallyOf(calls, A)
  <2>1. TallyOf(calls, A) = UseSum(Added(calls, A)) /\ A \in SUBSET DOMAIN calls'
    BY <1>1, <1>6, CallsAdd
  <2>2. TallyOf(calls', A) = UseSum(Added(calls', A))
    BY <1>6, <2>1, CallsAdd
  <2>3. Added(calls', A) = Added(calls, A)
    BY <1>6 DEF Added
  <2> QED
    BY <2>1, <2>2, <2>3
<1>10. ASSUME NEW K, NEW L, \A i \in DOMAIN calls : K[i] = L[i], NEW A \in SUBSET DOMAIN calls
       PROVE RowsOf(calls', A, K) = RowsOf(calls, A, L) /\ CountsOf(A, K) = CountsOf(A, L)
  <2>1. {K[i] : i \in A} = {L[i] : i \in A} /\ \A k : With(A, K, k) = With(A, L, k) /\ With(A, L, k) \in SUBSET DOMAIN calls
    BY <1>10 DEF With
  <2>2. \A k : TallyOf(calls', With(A, K, k)) = TallyOf(calls, With(A, L, k))
    BY <1>9, <2>1
  <2> QED
    BY <2>1, <2>2 DEF RowsOf, CountsOf
<1>11. \A i \in DOMAIN calls : /\ AccountKey(calls')[i] = AccountKey(calls)[i] /\ ProjectKey(calls')[i] = ProjectKey(calls)[i]
                               /\ ModelKey(calls')[i] = ModelKey(calls)[i] /\ DurationKey(calls')[i] = DurationKey(calls)[i]
  BY <1>6 DEF AccountKey, ProjectKey, ModelKey, DurationKey
<1>12. Stats(calls', Done) = Stats(calls, Done)
  BY <1>8, <1>10, <1>11 DEF Stats
<1>13. Tables' = Tables
  BY <1>2 DEF Tables
<1>14. Tables' = Stats(calls', Done')
  BY <1>8, <1>12, <1>13 DEF StatsInv
<1> QED
  BY <1>7, <1>8, <1>14 DEF StatsInv

\* The base worker aggregates a batch of what is pending.
LEMMA AggregationKeeps ==
  ASSUME StatsInv, RunUsageStatsBaseAggregation
  PROVE  StatsInv'
<1> DEFINE batch == FirstOf(pending, BatchSize)
           stats == FoldSet(LAMBDA i, acc : ApplyCall(acc, i),
                            [account |-> accountHour, project |-> projectHour,
                             model |-> modelUse, duration |-> durationUse], batch)
<1>1. /\ accountHour' = stats.account /\ projectHour' = stats.project
      /\ modelUse' = stats.model /\ durationUse' = stats.duration
      /\ pending' = pending \ batch /\ now' = now /\ calls' = calls
  BY DEF RunUsageStatsBaseAggregation, LeftPending
<1>2. batch \subseteq pending /\ pending \subseteq DOMAIN calls /\ calls \in Seq(CallRows)
  BY DEF FirstOf, StatsInv, CallsKept
<1>3. stats = FoldSet(LAMBDA i, acc : ApplyCall(acc, i), Stats(calls, Done), batch)
  BY DEF StatsInv, Tables
<1> HIDE DEF batch, stats
<1>4. Done \in SUBSET DOMAIN calls /\ batch \in SUBSET DOMAIN calls /\ batch \cap Done = {} /\ Done' = Done \cup batch
  BY <1>1, <1>2 DEF Done
<1>5. stats = Stats(calls, Done \cup batch)
  BY <1>2, <1>3, <1>4, BatchApplies
<1>6. Tables' = stats
  BY <1>1, <1>5 DEF Tables, Stats
<1>7. CallsKept' /\ pending' \subseteq DOMAIN calls'
  BY <1>1, <1>2 DEF StatsInv, CallsKept
<1> QED
  BY <1>1, <1>4, <1>5, <1>6, <1>7 DEF StatsInv

\* The snapshot worker and the time leave the tables alone.
Beside == UNCHANGED <<calls, pending, accountHour, projectHour, modelUse, durationUse, lastRequest>>

LEMMA NextIs ==
  ASSUME [Next]_vars
  PROVE  \/ \E call \in Calls : Finish(call)
         \/ RunUsageStatsBaseAggregation
         \/ Beside /\ (now' = now \/ now' = now + 1)
<1> USE DEF Beside, base
<1>1. CASE \E call \in Calls : Finish(call)
  BY <1>1
<1>2. CASE RunUsageStatsBaseAggregation
  BY <1>2
<1>3. CASE Work
  BY <1>3 DEF Work, ClaimDirtyProjectsForSnapshot, ReadForRefresh, CommitRefresh, ClearStaleProjectDaySummaries,
              RefreshRecentFailureWindowCounts
<1>4. CASE RefreshFails
  BY <1>4 DEF RefreshFails
<1>5. CASE AgingFails
  BY <1>5 DEF AgingFails
<1>6. CASE Crash
  BY <1>6 DEF Crash
<1>7. CASE Tick
  BY <1>7 DEF Tick
<1>8. CASE UNCHANGED vars
  BY <1>8 DEF vars
<1> QED
  BY <1>1, <1>2, <1>3, <1>4, <1>5, <1>6, <1>7, <1>8 DEF Next

LEMMA StatsInvStep == StatsInv /\ [Next]_vars => StatsInv'
<1> SUFFICES ASSUME StatsInv, [Next]_vars PROVE StatsInv'
  OBVIOUS
<1>1. CASE \E call \in Calls : Finish(call)
  BY <1>1, FinishKeeps
<1>2. CASE RunUsageStatsBaseAggregation
  BY <1>2, AggregationKeeps
<1>3. CASE Beside /\ (now' = now \/ now' = now + 1)
  <2>1. calls' = calls /\ pending' = pending /\ Tables' = Tables /\ Done' = Done
    BY <1>3 DEF Beside, Tables, Done
  <2>2. CallsKept'
    <3>1. now \in Nat /\ calls \in Seq(CallRows) /\ \A i \in DOMAIN calls : calls[i] \in CallRows /\ calls[i].at <= now
      BY CallsAdd DEF StatsInv, CallsKept
    <3>2. \A i \in DOMAIN calls : calls[i].at \in Nat
      BY <3>1 DEF CallRows
    <3> QED
      BY <1>3, <2>1, <3>1, <3>2 DEF CallsKept
  <2> QED
    BY <2>1, <2>2 DEF StatsInv
<1> QED
  BY <1>1, <1>2, <1>3, NextIs


-----------------------------------------------------------------------------
(* Hours and days are grids on the periods. *)

Grid(L) == {k * L : k \in Int}
FloorTo(t, L) == t - (t % L)

LEMMA Widths ==
  /\ SlotsPerHour \in Nat \ {0} /\ HoursPerDay \in Nat \ {0} /\ SlotsPerDay \in Nat \ {0}
  /\ \A t : HourStart(t) = FloorTo(t, SlotsPerHour) /\ DayStart(t) = FloorTo(t, SlotsPerDay)
<1>1. SlotsPerHour \in Nat \ {0} /\ HoursPerDay \in Nat \ {0}
  BY UsageStatsAssumption
<1>2. \A a, b \in Nat \ {0} : a * b \in Nat \ {0}
  OBVIOUS
<1>3. SlotsPerDay \in Nat \ {0}
  BY <1>1, <1>2 DEF SlotsPerDay
<1> QED
  BY <1>1, <1>3 DEF HourStart, DayStart, FloorTo

\* Two points of a grid are at least its width apart.
LEMMA GridGap ==
  ASSUME NEW L \in Nat \ {0}, NEW a \in Grid(L), NEW b \in Grid(L), a < b
  PROVE  a \in Int /\ b \in Int /\ a + L <= b
<1>1. PICK k \in Int : a = k * L
  BY DEF Grid
<1>2. PICK m \in Int : b = m * L
  BY DEF Grid
<1>3. k < m
  <2> SUFFICES ASSUME m <= k PROVE FALSE
    BY <1>1, <1>2
  <2>1. m * L <= k * L
    BY <1>1, <1>2
  <2> QED
    BY <1>1, <1>2, <2>1
<1>4. (k + 1) * L <= m * L /\ (k + 1) * L = k * L + L
  BY <1>1, <1>2, <1>3
<1> QED
  BY <1>1, <1>2, <1>4

\* The point below a period, and no other, has the period within its width.
LEMMA FloorIs ==
  ASSUME NEW L \in Nat \ {0}, NEW t \in Int
  PROVE  /\ FloorTo(t, L) \in Grid(L) /\ FloorTo(t, L) \in Int /\ FloorTo(t, L) <= t /\ t < FloorTo(t, L) + L
         /\ \A s \in Grid(L) : s \in Int /\ (s <= t /\ t < s + L <=> s = FloorTo(t, L)) /\ (s <= t => s <= FloorTo(t, L))
<1>1. t = L * (t \div L) + (t % L) /\ t % L \in 0..(L - 1) /\ t \div L \in Int
  OBVIOUS
<1>2. FloorTo(t, L) = (t \div L) * L /\ FloorTo(t, L) <= t /\ t < FloorTo(t, L) + L /\ FloorTo(t, L) \in Int
  BY <1>1 DEF FloorTo
<1>3. FloorTo(t, L) \in Grid(L)
  BY <1>1, <1>2 DEF Grid
<1>4. ASSUME NEW s \in Grid(L)
      PROVE s \in Int /\ (s <= t /\ t < s + L <=> s = FloorTo(t, L)) /\ (s <= t => s <= FloorTo(t, L))
  <2>1. s \in Int
    BY DEF Grid
  <2> DEFINE f == FloorTo(t, L)
  <2>2. (s < f => s + L <= f) /\ (f < s => f + L <= s)
    BY <1>3, GridGap
  <2> QED
    BY <1>2, <2>1, <2>2
<1> QED
  BY <1>2, <1>3, <1>4

\* Steps on a grid.
LEMMA GridSteps ==
  ASSUME NEW L \in Nat \ {0}, NEW a \in Grid(L), NEW k \in Int
  PROVE  a + k * L \in Grid(L) /\ a - k * L \in Grid(L) /\ a + k * L \in Int /\ a - k * L \in Int /\ a \in Int
<1>1. PICK m \in Int : a = m * L
  BY DEF Grid
<1>2. a + k * L = (m + k) * L /\ a - k * L = (m - k) * L /\ m + k \in Int /\ m - k \in Int
  BY <1>1
<1>3. a + k * L \in Grid(L) /\ a - k * L \in Grid(L)
  BY <1>2 DEF Grid
<1>4. k * L \in Int /\ a \in Int
  BY <1>1
<1> QED
  BY <1>3, <1>4

\* The difference of two points is a number of steps.
LEMMA GridDistance ==
  ASSUME NEW L \in Nat \ {0}, NEW a \in Grid(L), NEW b \in Grid(L), NEW n \in Nat, a <= b, b < a + n * L
  PROVE  \E k \in 0..(n - 1) : b = a + k * L
<1>1. PICK m \in Int : a = m * L
  BY DEF Grid
<1>2. PICK j \in Int : b = j * L
  BY DEF Grid
<1> DEFINE k == j - m
<1>3. k \in Int /\ b = a + k * L
  BY <1>1, <1>2
<1> HIDE DEF k
<1>4. a \in Int /\ 0 <= k * L /\ k * L < n * L
  BY <1>1, <1>2, <1>3
<1>5. 0 <= k
  <2> SUFFICES ASSUME k <= -1 PROVE FALSE
    BY <1>3
  <2>1. k * L <= (-1) * L
    BY <1>3
  <2> QED
    BY <1>3, <1>4, <2>1
<1>6. k < n
  <2> SUFFICES ASSUME n <= k PROVE FALSE
    BY <1>3
  <2>1. n * L <= k * L
    BY <1>3
  <2> QED
    BY <1>3, <1>4, <2>1
<1> QED
  BY <1>3, <1>5, <1>6

\* Every day is a whole number of hours.
LEMMA DaysAreHours ==
  ASSUME NEW b \in Grid(SlotsPerDay)
  PROVE  /\ b \in Grid(SlotsPerHour) /\ b \in Int /\ b + SlotsPerDay \in Grid(SlotsPerDay) /\ b + SlotsPerDay \in Grid(SlotsPerHour)
         /\ \A k \in 0..(HoursPerDay - 1) : /\ b + k * SlotsPerHour \in Grid(SlotsPerHour) /\ b + k * SlotsPerHour \in Int
                                            /\ DayStart(b + k * SlotsPerHour) = b
<1>1. PICK m \in Int : b = m * SlotsPerDay
  BY DEF Grid
<1>2. SlotsPerHour \in Nat \ {0} /\ HoursPerDay \in Nat \ {0} /\ SlotsPerDay \in Nat \ {0} /\ SlotsPerDay = SlotsPerHour * HoursPerDay
  BY Widths DEF SlotsPerDay
<1>3. /\ b = (m * HoursPerDay) * SlotsPerHour /\ b + SlotsPerDay = (m * HoursPerDay + HoursPerDay) * SlotsPerHour
      /\ b + SlotsPerDay = (m + 1) * SlotsPerDay
      /\ m * HoursPerDay \in Int
  BY <1>1, <1>2
<1>4. b \in Grid(SlotsPerHour) /\ b \in Int /\ b + SlotsPerDay \in Grid(SlotsPerDay) /\ b + SlotsPerDay \in Grid(SlotsPerHour)
  BY <1>1, <1>2, <1>3 DEF Grid
<1>5. ASSUME NEW k \in 0..(HoursPerDay - 1)
      PROVE b + k * SlotsPerHour \in Grid(SlotsPerHour) /\ b + k * SlotsPerHour \in Int /\ DayStart(b + k * SlotsPerHour) = b
  <2> DEFINE h == b + k * SlotsPerHour
  <2>1. h \in Grid(SlotsPerHour) /\ h \in Int
    BY <1>2, <1>4, GridSteps
  <2>2. 0 <= k * SlotsPerHour /\ k * SlotsPerHour <= (HoursPerDay - 1) * SlotsPerHour
        /\ (HoursPerDay - 1) * SlotsPerHour = SlotsPerDay - SlotsPerHour
    BY <1>2
  <2>3. b <= h /\ h < b + SlotsPerDay
    BY <1>2, <1>4, <2>1, <2>2
  <2> HIDE DEF h
  <2>4. b = FloorTo(h, SlotsPerDay)
    BY <1>2, <2>1, <2>3, FloorIs
  <2> QED
    BY <2>1, <2>4, Widths DEF h
<1> QED
  BY <1>4, <1>5


-----------------------------------------------------------------------------
(* The series: sums of rows are sums of calls. *)

\* The rows under some keys add up to the calls under these keys.
LEMMA RowsSum ==
  ASSUME NEW rows \in Seq(CallRows), NEW ids \in SUBSET DOMAIN rows, NEW K, NEW keys
  PROVE  SumRows(RowsOf(rows, ids, K), keys) = TallyOf(rows, {i \in ids : K[i] \in keys})
<1> DEFINE table == RowsOf(rows, ids, K)
           all == {K[i] : i \in ids}
           Keys == all \cap keys
           w == Added(rows, ids)
           U == {i \in ids : K[i] \in Keys}
<1>1. IsFiniteSet(ids) /\ w \in [ids -> Uses]
  BY CallsAdd
<1>2. IsFiniteSet(all) /\ IsFiniteSet(Keys)
  <2> DEFINE h == [i \in ids |-> K[i]]
  <2>1. IsFiniteSet(all)
    <3>1. h \in Surjection(ids, all)
      BY DEF Surjection
    <3> HIDE DEF h, all
    <3> QED
      BY <1>1, <3>1, FS_Surjection
  <2> QED
    BY <2>1, FS_Subset
<1>3. DOMAIN table = all /\ \A k \in all : table[k] = TallyOf(rows, With(ids, K, k))
  BY DEF RowsOf
<1>4. \A A \in SUBSET ids : TallyOf(rows, A) = UseSum(Only(w, A)) /\ TallyOf(rows, A) \in Uses
  <2>1. \A A \in SUBSET ids : TallyOf(rows, A) = UseSum(Added(rows, A)) /\ TallyOf(rows, A) \in Uses
    BY CallsAdd
  <2>2. \A A \in SUBSET ids : Added(rows, A) = Only(w, A)
    BY DEF Added, Only
  <2> QED
    BY <2>1, <2>2
<1>5. \A k : With(ids, K, k) \in SUBSET ids /\ With(ids, K, k) = {i \in ids : K[i] = k}
  BY DEF With
<1>6. Only(table, DOMAIN table \cap keys) = [k \in Keys |-> UseSum(Only(w, {i \in ids : K[i] = k}))]
  BY <1>3, <1>4, <1>5 DEF Only
<1>7. \A k \in DOMAIN table : table[k] \in Uses
  BY <1>3, <1>4, <1>5
<1>8. {i \in ids : K[i] \in keys} = U
  OBVIOUS
<1> HIDE DEF table, all, Keys, w, U
<1>9. SumRows(table, keys) = UseSum([k \in Keys |-> UseSum(Only(w, {i \in ids : K[i] = k}))])
  BY <1>2, <1>3, <1>6, <1>7, SumRowsIs
<1>10. UseSum([k \in Keys |-> UseSum(Only(w, {i \in ids : K[i] = k}))]) = UseSum(Only(w, U))
  BY <1>1, <1>2, SumByKey DEF U
<1>11. UseSum(Only(w, U)) = TallyOf(rows, U)
  BY <1>4 DEF U
<1> QED
  BY <1>8, <1>9, <1>10, <1>11 DEF table

\* The totals of a series add up its points.
LEMMA TotalsAre ==
  ASSUME NEW series, IsFiniteSet(DOMAIN series), \A s \in DOMAIN series : series[s].use \in Uses
  PROVE  Totals(series) = UseSum([s \in DOMAIN series |-> series[s].use])
<1> DEFINE S == DOMAIN series
           w == [s \in S |-> series[s].use]
           Body(iter) == [s \in SUBSET S |-> IF s = {} THEN NoUse ELSE Plus(series[AnyOf(s)].use, iter[s \ {AnyOf(s)}])]
           g == CHOOSE iter : iter = Body(iter)
<1>1. Totals(series) = g[S]
  BY DEF Totals, FoldFunctionOnSet, MapThenFoldSet, AnyOf
<1>2. \A iter : iter = Body(iter) <=> Sums(S, w, iter)
  BY DEF AnyOf, Sums
<1>3. IsFiniteSet(S) /\ w \in [S -> Uses]
  OBVIOUS
<1> HIDE DEF S, w
<1>4. \E iter : Sums(S, w, iter)
  BY <1>3, FoldExists
<1>5. Sums(S, w, g)
  <2> HIDE DEF Body
  <2>1. \E iter : iter = Body(iter)
    BY <1>2, <1>4
  <2>2. g = Body(g)
    BY <2>1
  <2> QED
    BY <1>2, <2>2
<1> HIDE DEF g, Body
<1>6. g[S] = UseSum(w)
  BY <1>3, <1>5, FoldIsSum
<1> QED
  BY <1>1, <1>6 DEF w, S

\* The points of a series: the last n of a grid.
Points(n, L) == {FloorTo(now, L) - k * L : k \in 0..(n - 1)}

LEMMA PointsAre ==
  ASSUME CallsKept, NEW n \in Nat \ {0}, NEW L \in Nat \ {0}
  PROVE  /\ IsFiniteSet(Points(n, L)) /\ Points(n, L) \subseteq Grid(L)
         /\ \A t \in Int : t <= now => (FloorTo(t, L) \in Points(n, L) <=> t >= Min(Points(n, L)))
<1> DEFINE f == FloorTo(now, L)
           X == Points(n, L)
           m == f - (n - 1) * L
<1>1. now \in Int
  BY DEF CallsKept
<1>2. f \in Grid(L) /\ f \in Int /\ f <= now /\ now < f + L
  BY <1>1, FloorIs
<1>3. IsFiniteSet(X)
  <2> DEFINE S == 0..(n - 1)
             h == [k \in S |-> f - k * L]
  <2>1. IsFiniteSet(S)
    BY FS_Interval
  <2>2. h \in Surjection(S, X)
    BY DEF Surjection, Points
  <2> HIDE DEF S, X, h
  <2> QED
    BY <2>1, <2>2, FS_Surjection
<1>4. \A k \in 0..(n - 1) : f - k * L \in Grid(L) /\ f - k * L \in Int
  <2> HIDE DEF f
  <2> QED
    BY <1>2, GridSteps
<1>5. X \subseteq Grid(L)
  BY <1>4 DEF Points
<1>6. m \in X /\ m \in Grid(L) /\ m \in Int /\ \A x \in X : x \in Int /\ m <= x
  <2>1. \A k \in 0..(n - 1) : k * L <= (n - 1) * L /\ k * L \in Int
    OBVIOUS
  <2>2. n - 1 \in 0..(n - 1)
    OBVIOUS
  <2> QED
    BY <1>2, <1>4, <2>1, <2>2 DEF Points
<1>7. Min(X) = m
  <2> DEFINE y == Min(X)
  <2>1. y \in X /\ \A x \in X : y <= x
    BY <1>6 DEF Min
  <2> QED
    BY <1>6, <2>1
<1>8. ASSUME NEW t \in Int, t <= now PROVE FloorTo(t, L) \in X <=> t >= m
  <2> DEFINE g == FloorTo(t, L)
  <2>1. g \in Grid(L) /\ g \in Int /\ g <= t /\ t < g + L
    BY FloorIs
  <2>2. g \in X => t >= m
    BY <1>6, <2>1
  <2>3. ASSUME t >= m PROVE g \in X
    <3>1. m <= g
      BY <1>6, <2>3, FloorIs
    <3>2. g <= f
      <4>1. g <= now
        BY <1>1, <1>8, <2>1
      <4> QED
        BY <1>1, <2>1, <4>1, FloorIs
    <3>3. (n - 1) * L \in Int /\ n * L = (n - 1) * L + L
      OBVIOUS
    <3>4. f < g + n * L
      BY <1>2, <2>1, <3>1, <3>2, <3>3
    <3> HIDE DEF f, g
    <3>5. PICK k \in 0..(n - 1) : f = g + k * L
      BY <1>2, <2>1, <3>2, <3>4, GridDistance
    <3>6. k * L \in Int
      OBVIOUS
    <3>7. g = f - k * L
      BY <2>1, <3>5, <3>6
    <3> QED
      BY <3>7 DEF Points, f
  <2> QED
    BY <2>2, <2>3
<1> QED
  BY <1>3, <1>5, <1>7, <1>8

\* A series whose points hold the calls of their time holds all calls since its first point.
LEMMA TotalsCount ==
  ASSUME CallsKept, NEW mine \in SUBSET DOMAIN calls, NEW n \in Nat \ {0}, NEW L \in Nat \ {0}, NEW series,
         DOMAIN series = Points(n, L),
         \A s \in DOMAIN series : series[s].use = Tally({i \in mine : calls[i].at \in s..(s + L - 1)})
  PROVE  Totals(series) = Tally({i \in mine : calls[i].at >= Min(DOMAIN series)})
<1> DEFINE X == Points(n, L)
           w == Added(calls, mine)
           K == [i \in DOMAIN calls |-> FloorTo(calls[i].at, L)]
           v == [s \in X |-> UseSum(Only(w, {i \in mine : K[i] = s}))]
<1>1. calls \in Seq(CallRows) /\ \A i \in DOMAIN calls : calls[i] \in CallRows /\ calls[i].at <= now
  BY CallsAdd DEF CallsKept
<1>2. \A i \in DOMAIN calls : calls[i].at \in Int
  BY <1>1 DEF CallRows
<1>3. IsFiniteSet(mine) /\ w \in [mine -> Uses] /\ IsFiniteSet(X) /\ X \subseteq Grid(L)
  BY <1>1, CallsAdd, PointsAre
<1>4. \A A \in SUBSET mine : Tally(A) = UseSum(Only(w, A)) /\ Tally(A) \in Uses
  <2>1. \A A \in SUBSET mine : TallyOf(calls, A) = UseSum(Added(calls, A)) /\ TallyOf(calls, A) \in Uses
    BY <1>1, CallsAdd
  <2>2. \A A \in SUBSET mine : Added(calls, A) = Only(w, A) /\ Tally(A) = TallyOf(calls, A)
    BY DEF Added, Only, Tally, TallyOf
  <2> QED
    BY <2>1, <2>2
<1>5. ASSUME NEW s \in X PROVE {i \in mine : calls[i].at \in s..(s + L - 1)} = {i \in mine : K[i] = s}
  <2>1. s \in Int /\ s \in Grid(L)
    BY <1>3, FloorIs
  <2>2. \A i \in mine : calls[i].at \in s..(s + L - 1) <=> s <= calls[i].at /\ calls[i].at < s + L
    BY <1>2, <2>1
  <2>3. \A i \in mine : s <= calls[i].at /\ calls[i].at < s + L <=> s = K[i]
    BY <1>2, <2>1, FloorIs
  <2> QED
    BY <2>2, <2>3
<1>6. \A s \in X : series[s].use = v[s] /\ series[s].use \in Uses
  BY <1>4, <1>5
<1>7. [s \in DOMAIN series |-> series[s].use] = v
  BY <1>6
<1>8. Totals(series) = UseSum(v)
  <2>1. DOMAIN series = X
    OBVIOUS
  <2> HIDE DEF v, X
  <2> QED
    BY <2>1, <1>3, <1>6, <1>7, TotalsAre
<1>9. UseSum(v) = UseSum(Only(w, {i \in mine : K[i] \in X}))
  <2> HIDE DEF w, K, X
  <2> QED
    BY <1>3, SumByKey
<1>10. \A i \in mine : K[i] \in X <=> calls[i].at >= Min(X)
  BY <1>1, <1>2, PointsAre
<1>11. {i \in mine : K[i] \in X} = {i \in mine : calls[i].at >= Min(X)}
  BY <1>10
<1> HIDE DEF w, K, v
<1> QED
  BY <1>4, <1>8, <1>9, <1>11


\* The calls of an owner, and those of some hours.
Mine(O, owner) == {i \in Done : O[i] = owner}
Held(O, owner, hours) == {i \in Done : O[i] = owner /\ HourStart(calls[i].at) \in hours}

\* A table keyed by its owners and the hours of the calls.
Keyed(O, K) == \A i \in DOMAIN calls : K[i] = <<O[i], HourStart(calls[i].at)>>

\* A point of a series holds the calls of its owner in its hours.
LEMMA PointIs ==
  ASSUME StatsInv, NEW O, NEW K, Keyed(O, K), NEW owner, NEW hours
  PROVE  SumRows(RowsOf(calls, Done, K), {owner} \X hours) =
           Tally(Held(O, owner, hours))
<1>1. calls \in Seq(CallRows) /\ Done \in SUBSET DOMAIN calls
  BY DEF StatsInv, CallsKept, Done
<1>2. SumRows(RowsOf(calls, Done, K), {owner} \X hours) = TallyOf(calls, {i \in Done : K[i] \in {owner} \X hours})
  BY <1>1, RowsSum
<1>3. {i \in Done : K[i] \in {owner} \X hours} = {i \in Done : O[i] = owner /\ HourStart(calls[i].at) \in hours}
  <2>1. ASSUME NEW i \in Done
        PROVE K[i] \in {owner} \X hours <=> O[i] = owner /\ HourStart(calls[i].at) \in hours
    <3> DEFINE h == HourStart(calls[i].at)
    <3>1. K[i] = <<O[i], h>>
      BY <1>1 DEF Keyed
    <3> HIDE DEF h
    <3>2. <<O[i], h>> \in {owner} \X hours <=> O[i] = owner /\ h \in hours
      OBVIOUS
    <3> QED
      BY <3>1, <3>2 DEF h
  <2> QED
    BY <2>1
<1> QED
  <2> DEFINE X == {i \in Done : K[i] \in {owner} \X hours}
             Y == {i \in Done : O[i] = owner /\ HourStart(calls[i].at) \in hours}
  <2>1. TallyOf(calls, X) = Tally(X)
    BY DEF Tally, TallyOf
  <2>2. X = Y /\ Y = Held(O, owner, hours)
    BY <1>3 DEF Held
  <2> QED
    BY <1>2, <2>1, <2>2

\* What a point shows.
LEMMA PointHolds ==
  ASSUME NEW table, NEW owner, NEW hours, NEW at
  PROVE  /\ Point(table, owner, hours, at).use = SumRows(table, {owner} \X hours)
         /\ Point(table, owner, hours, at).complete <=> \A h \in hours : h < HourStart(at)
<1> DEFINE u == SumRows(table, {owner} \X hours)
           c == \A h \in hours : h < HourStart(at)
<1>1. Point(table, owner, hours, at) = [use |-> u, complete |-> c]
  BY DEF Point
<1> HIDE DEF u, c
<1>2. [use |-> u, complete |-> c].use = u /\ [use |-> u, complete |-> c].complete = c
  OBVIOUS
<1> QED
  BY <1>1, <1>2 DEF u, c

\* When calls were accepted.
LEMMA TimesAre ==
  ASSUME StatsInv
  PROVE  /\ now \in Int /\ Done \subseteq DOMAIN calls
         /\ \A i \in DOMAIN calls : calls[i].at \in Int /\ calls[i].at <= now /\ calls[i] \in CallRows
<1>1. now \in Int /\ calls \in Seq(CallRows) /\ \A i \in DOMAIN calls : calls[i] \in CallRows /\ calls[i].at <= now
  BY CallsAdd DEF StatsInv, CallsKept
<1> QED
  BY <1>1 DEF CallRows, Done

\* The hourly series of an owner counts its calls, hour by hour.
LEMMA HoursCount ==
  ASSUME StatsInv, NEW O, NEW K, Keyed(O, K), NEW owner
  PROVE  /\ DOMAIN HourSeries(RowsOf(calls, Done, K), owner, now) = Points(HoursPerDay, SlotsPerHour)
         /\ Counted(HourSeries(RowsOf(calls, Done, K), owner, now), Mine(O, owner), SlotsPerHour)
<1>0. \A hours : SumRows(RowsOf(calls, Done, K), {owner} \X hours) = Tally(Held(O, owner, hours))
  <2>1. ASSUME NEW hours PROVE SumRows(RowsOf(calls, Done, K), {owner} \X hours) = Tally(Held(O, owner, hours))
    BY PointIs
  <2> QED
    BY <2>1
<1> DEFINE table == RowsOf(calls, Done, K)
           series == HourSeries(table, owner, now)
           mine == Mine(O, owner)
           f == HourStart(now)
<1>1. now \in Int /\ Done \subseteq DOMAIN calls /\ \A i \in DOMAIN calls : calls[i].at \in Int
  BY TimesAre
<1>2. /\ SlotsPerHour \in Nat \ {0} /\ HoursPerDay \in Nat \ {0} /\ SlotsPerDay \in Nat \ {0}
      /\ \A t : HourStart(t) = FloorTo(t, SlotsPerHour)
  BY Widths
<1>3. LastHours(now) = Points(HoursPerDay, SlotsPerHour)
  BY <1>2 DEF LastHours, Points
<1>4. DOMAIN series = LastHours(now) /\ \A s \in LastHours(now) : series[s] = Point(table, owner, {s}, now)
  BY DEF HourSeries
<1>5. LastHours(now) \subseteq Grid(SlotsPerHour)
  BY <1>2, <1>3, PointsAre DEF StatsInv
<1> HIDE DEF table, series
<1>6. ASSUME NEW s \in DOMAIN series
      PROVE  /\ series[s].use = Tally({i \in mine : calls[i].at \in s..(s + SlotsPerHour - 1)})
             /\ series[s].complete <=> s + SlotsPerHour <= f \/ (SlotsPerHour = SlotsPerDay /\ s + SlotsPerHour <= now)
  <2>1. s \in Grid(SlotsPerHour) /\ s \in Int /\ f \in Grid(SlotsPerHour) /\ f \in Int /\ f <= now /\ now < f + SlotsPerHour
    BY <1>1, <1>2, <1>4, <1>5, FloorIs
  <2>2. series[s].use = Tally({i \in Done : O[i] = owner /\ HourStart(calls[i].at) \in {s}})
    <3> DEFINE p == Point(table, owner, {s}, now)
    <3>1. series[s] = p
      BY <1>4
    <3>2. p.use = SumRows(table, {owner} \X {s})
      BY PointHolds
    <3>3. SumRows(table, {owner} \X {s}) = Tally(Held(O, owner, {s}))
      BY <1>0 DEF table
    <3> HIDE DEF p
    <3> QED
      BY <3>1, <3>2, <3>3 DEF Held
  <2>3. \A i \in Done : HourStart(calls[i].at) = s <=> calls[i].at \in s..(s + SlotsPerHour - 1)
    <3>1. ASSUME NEW i \in Done PROVE HourStart(calls[i].at) = s <=> calls[i].at \in s..(s + SlotsPerHour - 1)
      <4>1. calls[i].at \in Int
        BY <1>1
      <4>2. s <= calls[i].at /\ calls[i].at < s + SlotsPerHour <=> s = HourStart(calls[i].at)
        BY <1>2, <2>1, <4>1, FloorIs
      <4> QED
        BY <1>2, <2>1, <4>1, <4>2
    <3> QED
      BY <3>1
  <2>4. {i \in Done : O[i] = owner /\ HourStart(calls[i].at) \in {s}} = {i \in mine : calls[i].at \in s..(s + SlotsPerHour - 1)}
    BY <2>3 DEF Mine
  <2>5. series[s].complete <=> s < f
    <3>1. series[s].complete <=> \A h \in {s} : h < HourStart(now)
      <4> DEFINE p == Point(table, owner, {s}, now)
      <4>1. series[s] = p
        BY <1>4
      <4>2. p.complete <=> \A h \in {s} : h < HourStart(now)
        BY PointHolds
      <4> HIDE DEF p
      <4> QED
        BY <4>1, <4>2
    <3> QED
      BY <3>1
  <2>6. s < f <=> s + SlotsPerHour <= f
    BY <1>2, <2>1, GridGap
  <2>7. s + SlotsPerHour <= now => s < f
    BY <1>1, <1>2, <2>1
  <2> QED
    BY <2>2, <2>4, <2>5, <2>6, <2>7
<1> QED
  BY <1>3, <1>4, <1>6 DEF Counted, series, table

\* The hours of a day that have begun, and the calls of these hours.
LEMMA HoursOfDay ==
  ASSUME StatsInv, NEW n \in Nat \ {0}, NEW d \in Points(n, SlotsPerDay)
  PROVE  LET hours == {h \in HoursOfDays(n, now) : DayStart(h) = d} IN
         /\ d \in hours
         /\ \A i \in Done : HourStart(calls[i].at) \in hours <=> calls[i].at \in d..(d + SlotsPerDay - 1)
         /\ (\A h \in hours : h < HourStart(now)) <=> d + SlotsPerDay <= now
<1> DEFINE hours == {h \in HoursOfDays(n, now) : DayStart(h) = d}
           f == HourStart(now)
           b == DayStart(now)
<1>1. now \in Int /\ Done \subseteq DOMAIN calls /\ \A i \in DOMAIN calls : calls[i].at \in Int /\ calls[i].at <= now
  BY TimesAre
<1>2. /\ SlotsPerHour \in Nat \ {0} /\ HoursPerDay \in Nat \ {0} /\ SlotsPerDay \in Nat \ {0}
      /\ \A t : HourStart(t) = FloorTo(t, SlotsPerHour) /\ DayStart(t) = FloorTo(t, SlotsPerDay)
  BY Widths
<1>3. /\ f \in Grid(SlotsPerHour) /\ f \in Int /\ f <= now /\ now < f + SlotsPerHour
      /\ b \in Grid(SlotsPerDay) /\ b \in Int /\ b <= now /\ now < b + SlotsPerDay
  BY <1>1, <1>2, FloorIs
<1>4. PICK j \in 0..(n - 1) : d = b - j * SlotsPerDay
  BY <1>2 DEF Points
<1>5. d \in Grid(SlotsPerDay) /\ d \in Int /\ d <= b
  <2>1. d \in Grid(SlotsPerDay) /\ d \in Int
    BY <1>2, <1>3, <1>4, GridSteps
  <2>2. 0 <= j * SlotsPerDay /\ j * SlotsPerDay \in Int
    BY <1>2, <1>4
  <2> QED
    BY <1>3, <1>4, <2>1, <2>2
<1>6. /\ d \in Grid(SlotsPerHour) /\ d + SlotsPerDay \in Grid(SlotsPerDay) /\ d + SlotsPerDay \in Grid(SlotsPerHour)
      /\ \A k \in 0..(HoursPerDay - 1) : /\ d + k * SlotsPerHour \in Grid(SlotsPerHour) /\ d + k * SlotsPerHour \in Int
                                         /\ DayStart(d + k * SlotsPerHour) = d
  BY <1>5, DaysAreHours
<1>7. \A h : h \in hours <=> h <= f /\ \E k \in 0..(HoursPerDay - 1) : h = d + k * SlotsPerHour
  <2>1. \A h : h \in hours => h <= f
    BY DEF HoursOfDays
  <2>2. ASSUME NEW h \in hours PROVE \E k \in 0..(HoursPerDay - 1) : h = d + k * SlotsPerHour
    <3>1. PICK c \in 0..(n - 1), k \in 0..(HoursPerDay - 1) : h = b - c * SlotsPerDay + k * SlotsPerHour
      BY DEF HoursOfDays
    <3> DEFINE e == b - c * SlotsPerDay
    <3>2. e \in Grid(SlotsPerDay)
      BY <1>2, <1>3, GridSteps
    <3>3. h = e + k * SlotsPerHour
      BY <3>1
    <3> HIDE DEF e
    <3>4. DayStart(h) = e
      BY <3>2, <3>3, DaysAreHours
    <3> QED
      BY <3>3, <3>4
  <2>3. ASSUME NEW k \in 0..(HoursPerDay - 1), d + k * SlotsPerHour <= f PROVE d + k * SlotsPerHour \in hours
    <3>1. b - j * SlotsPerDay + k * SlotsPerHour \in HoursOfDays(n, now)
      BY <1>4, <2>3 DEF HoursOfDays
    <3> QED
      BY <1>4, <1>6, <3>1
  <2> QED
    BY <2>1, <2>2, <2>3
<1>8. d \in hours
  <2>1. d <= now
    BY <1>1, <1>3, <1>5
  <2>2. d <= f
    BY <1>1, <1>2, <1>6, <2>1, FloorIs
  <2>3. 0 \in 0..(HoursPerDay - 1) /\ d = d + 0 * SlotsPerHour
    BY <1>2, <1>5
  <2> QED
    BY <1>7, <2>2, <2>3
<1> HIDE DEF hours
<1>9. ASSUME NEW t \in Int, t <= now PROVE HourStart(t) \in hours <=> t \in d..(d + SlotsPerDay - 1)
  <2> DEFINE h == HourStart(t)
  <2>1. h \in Grid(SlotsPerHour) /\ h \in Int /\ h <= t /\ t < h + SlotsPerHour /\ \A s \in Grid(SlotsPerHour) : s <= t => s <= h
    BY <1>2, FloorIs
  <2>2. ASSUME h \in hours PROVE d <= t /\ t < d + SlotsPerDay
    <3>1. PICK k \in 0..(HoursPerDay - 1) : h = d + k * SlotsPerHour
      BY <1>7, <2>2
    <3>2. 0 <= k * SlotsPerHour /\ k * SlotsPerHour <= (HoursPerDay - 1) * SlotsPerHour /\ k * SlotsPerHour \in Int
          /\ (HoursPerDay - 1) * SlotsPerHour = SlotsPerDay - SlotsPerHour
      BY <1>2 DEF SlotsPerDay
    <3> HIDE DEF h
    <3> QED
      BY <1>2, <1>5, <1>9, <2>1, <3>1, <3>2
  <2>3. ASSUME d <= t, t < d + SlotsPerDay PROVE h \in hours
    <3>1. d <= h /\ h <= f
      <4>1. h <= now
        BY <1>1, <1>9, <2>1
      <4> QED
        BY <1>1, <1>2, <1>6, <2>1, <2>3, <4>1, FloorIs
    <3>2. h < d + HoursPerDay * SlotsPerHour
      <4>1. HoursPerDay * SlotsPerHour = SlotsPerDay
        BY <1>2 DEF SlotsPerDay
      <4> QED
        BY <1>2, <1>5, <2>1, <2>3, <4>1
    <3> HIDE DEF h
    <3>3. \E k \in 0..(HoursPerDay - 1) : h = d + k * SlotsPerHour
      BY <1>2, <1>6, <2>1, <3>1, <3>2, GridDistance
    <3> QED
      BY <1>7, <3>1, <3>3
  <2> QED
    BY <1>2, <1>5, <2>2, <2>3
<1>10. (\A h \in hours : h < f) <=> d + SlotsPerDay <= now
  <2>1. f \in hours <=> now \in d..(d + SlotsPerDay - 1)
    BY <1>1, <1>9
  <2>2. \A h \in hours : h <= f /\ h \in Int
    BY <1>6, <1>7
  <2>3. (\A h \in hours : h < f) <=> f \notin hours
    BY <1>3, <2>2
  <2>4. d <= now
    BY <1>1, <1>3, <1>5
  <2> QED
    BY <1>1, <1>2, <1>5, <2>1, <2>3, <2>4
<1>11. \A i \in Done : HourStart(calls[i].at) \in hours <=> calls[i].at \in d..(d + SlotsPerDay - 1)
  BY <1>1, <1>9
<1> QED
  BY <1>8, <1>10, <1>11 DEF hours

\* The daily series of an owner counts its calls, day by day.
LEMMA DaysCount ==
  ASSUME StatsInv, NEW O, NEW K, Keyed(O, K), NEW owner, NEW n \in Nat \ {0}
  PROVE  /\ DOMAIN DaySeries(RowsOf(calls, Done, K), owner, n, now) = Points(n, SlotsPerDay)
         /\ Counted(DaySeries(RowsOf(calls, Done, K), owner, n, now), Mine(O, owner), SlotsPerDay)
<1>0. \A hours : SumRows(RowsOf(calls, Done, K), {owner} \X hours) = Tally(Held(O, owner, hours))
  <2>1. ASSUME NEW hours PROVE SumRows(RowsOf(calls, Done, K), {owner} \X hours) = Tally(Held(O, owner, hours))
    BY PointIs
  <2> QED
    BY <2>1
<1> DEFINE table == RowsOf(calls, Done, K)
           series == DaySeries(table, owner, n, now)
           mine == Mine(O, owner)
           all == HoursOfDays(n, now)
           Of(d) == {h \in all : DayStart(h) = d}
<1>1. now \in Int /\ Done \subseteq DOMAIN calls /\ \A i \in DOMAIN calls : calls[i].at \in Int
  BY TimesAre
<1>2. /\ SlotsPerHour \in Nat \ {0} /\ HoursPerDay \in Nat \ {0} /\ SlotsPerDay \in Nat \ {0}
      /\ \A t : HourStart(t) = FloorTo(t, SlotsPerHour) /\ DayStart(t) = FloorTo(t, SlotsPerDay)
  BY Widths
<1>3. DOMAIN series = {DayStart(h) : h \in all} /\ \A d \in DOMAIN series : series[d] = Point(table, owner, Of(d), now)
  BY DEF DaySeries
<1>4. DOMAIN series = Points(n, SlotsPerDay)
  <2>1. ASSUME NEW d \in Points(n, SlotsPerDay) PROVE d \in DOMAIN series
    <3>1. d \in Of(d)
      BY HoursOfDay
    <3> QED
      BY <1>3, <3>1
  <2>2. ASSUME NEW h \in all PROVE DayStart(h) \in Points(n, SlotsPerDay)
    <3>1. PICK c \in 0..(n - 1), k \in 0..(HoursPerDay - 1) : h = DayStart(now) - c * SlotsPerDay + k * SlotsPerHour
      BY DEF HoursOfDays
    <3> DEFINE b == DayStart(now)
               e == b - c * SlotsPerDay
    <3>2. b \in Grid(SlotsPerDay)
      BY <1>1, <1>2, FloorIs
    <3>3. e \in Grid(SlotsPerDay)
      <4> HIDE DEF b
      <4> QED
        BY <1>2, <3>2, GridSteps
    <3>4. h = e + k * SlotsPerHour /\ e \in Points(n, SlotsPerDay)
      BY <1>2, <3>1 DEF Points
    <3> HIDE DEF e
    <3>5. DayStart(h) = e
      BY <3>3, <3>4, DaysAreHours
    <3> QED
      BY <3>4, <3>5
  <2> HIDE DEF series, all
  <2> QED
    BY <1>3, <2>1, <2>2
<1> HIDE DEF table, series
<1>5. ASSUME NEW d \in DOMAIN series
      PROVE  /\ series[d].use = Tally({i \in mine : calls[i].at \in d..(d + SlotsPerDay - 1)})
             /\ series[d].complete <=> d + SlotsPerDay <= HourStart(now) \/ (SlotsPerDay = SlotsPerDay /\ d + SlotsPerDay <= now)
  <2> DEFINE hours == Of(d)
  <2>1. /\ \A i \in Done : HourStart(calls[i].at) \in hours <=> calls[i].at \in d..(d + SlotsPerDay - 1)
        /\ (\A h \in hours : h < HourStart(now)) <=> d + SlotsPerDay <= now
    BY <1>4, HoursOfDay
  <2> HIDE DEF hours
  <2>2. series[d].use = Tally({i \in Done : O[i] = owner /\ HourStart(calls[i].at) \in hours})
    <3> DEFINE p == Point(table, owner, hours, now)
    <3>1. series[d] = p
      BY <1>3 DEF hours
    <3>2. p.use = SumRows(table, {owner} \X hours)
      BY PointHolds
    <3>3. SumRows(table, {owner} \X hours) = Tally(Held(O, owner, hours))
      BY <1>0 DEF table
    <3> HIDE DEF p
    <3> QED
      BY <3>1, <3>2, <3>3 DEF Held
  <2>3. {i \in Done : O[i] = owner /\ HourStart(calls[i].at) \in hours} = {i \in mine : calls[i].at \in d..(d + SlotsPerDay - 1)}
    BY <2>1 DEF Mine
  <2>4. series[d].complete <=> \A h \in hours : h < HourStart(now)
    <3> DEFINE p == Point(table, owner, hours, now)
    <3>1. series[d] = p
      BY <1>3 DEF hours
    <3>2. p.complete <=> \A h \in hours : h < HourStart(now)
      BY PointHolds
    <3> HIDE DEF p
    <3> QED
      BY <3>1, <3>2
  <2>5. d + SlotsPerDay <= HourStart(now) => d + SlotsPerDay <= now
    <3>1. HourStart(now) \in Int /\ HourStart(now) <= now
      BY <1>1, <1>2, FloorIs
    <3>2. d \in Int
      <4>1. d \in Grid(SlotsPerDay)
        BY <1>2, <1>4, PointsAre DEF StatsInv
      <4> QED
        BY <1>2, <4>1, DaysAreHours
    <3> QED
      BY <1>1, <1>2, <3>1, <3>2
  <2> QED
    BY <2>1, <2>2, <2>3, <2>4, <2>5
<1> QED
  BY <1>4, <1>5 DEF Counted, series, table

\* Every range of the dashboards.
Length(r) == IF r = "1d" THEN SlotsPerHour ELSE SlotsPerDay
Count(r) == IF r = "1d" THEN HoursPerDay ELSE SeriesDays[r]

LEMMA SeriesCount ==
  ASSUME StatsInv, NEW O, NEW K, Keyed(O, K),
         NEW owner, NEW r \in SeriesRanges \cup {"1d"}
  PROVE  /\ DOMAIN Series(RowsOf(calls, Done, K), owner, r, now) = Points(Count(r), Length(r))
         /\ Counted(Series(RowsOf(calls, Done, K), owner, r, now), Mine(O, owner), Length(r))
<1> DEFINE table == RowsOf(calls, Done, K)
           mine == Mine(O, owner)
<1>1. CASE r = "1d"
  <2>1. Count(r) = HoursPerDay /\ Length(r) = SlotsPerHour /\ Series(table, owner, r, now) = HourSeries(table, owner, now)
    BY <1>1 DEF Count, Length, Series
  <2>2. /\ DOMAIN HourSeries(table, owner, now) = Points(HoursPerDay, SlotsPerHour)
        /\ Counted(HourSeries(table, owner, now), mine, SlotsPerHour)
    BY HoursCount
  <2> HIDE DEF table, mine
  <2>3. /\ DOMAIN Series(table, owner, r, now) = Points(Count(r), Length(r))
        /\ Counted(Series(table, owner, r, now), mine, Length(r))
    BY <2>1, <2>2
  <2> QED
    BY <2>3 DEF table, mine
<1>2. CASE r # "1d"
  <2> DEFINE n == SeriesDays[r]
  <2>1. Count(r) = n /\ Length(r) = SlotsPerDay /\ Series(table, owner, r, now) = DaySeries(table, owner, n, now)
    BY <1>2 DEF Count, Length, Series
  <2>2. n \in Nat \ {0}
    BY <1>2, UsageStatsAssumption
  <2> HIDE DEF n
  <2>3. /\ DOMAIN DaySeries(RowsOf(calls, Done, K), owner, n, now) = Points(n, SlotsPerDay)
        /\ Counted(DaySeries(RowsOf(calls, Done, K), owner, n, now), Mine(O, owner), SlotsPerDay)
    BY <2>2, DaysCount
  <2> HIDE DEF table, mine
  <2>4. /\ DOMAIN Series(table, owner, r, now) = Points(Count(r), Length(r))
        /\ Counted(Series(table, owner, r, now), mine, Length(r))
    <3>1. /\ DOMAIN DaySeries(table, owner, n, now) = Points(n, SlotsPerDay)
          /\ Counted(DaySeries(table, owner, n, now), mine, SlotsPerDay)
      BY <2>3 DEF table, mine
    <3> QED
      BY <2>1, <3>1
  <2> QED
    BY <2>4 DEF table, mine
<1> QED
  BY <1>1, <1>2

\* The tables of the invariant give the series what they count.
LEMMA SeriesAreCounted == StatsInv => SeriesCountCalls
<1> SUFFICES ASSUME StatsInv, NEW r \in SeriesRanges \cup {"1d"}
             PROVE  LET length == IF r = "1d" THEN SlotsPerHour ELSE SlotsPerDay
                        OfAccount(u) == {i \in Done : Owner[calls[i].project] = u}
                        OfProject(p) == {i \in Done : calls[i].project = p}
                    IN /\ \A u \in Users :
                            LET series == GetAccountUsageStats(u, r, now) IN
                            /\ Counted(series, OfAccount(u), length)
                            /\ Totals(series) = Tally({i \in OfAccount(u) : calls[i].at >= Min(DOMAIN series)})
                       /\ \A p \in Projects : Counted(GetProjectUsageStats(p, r, now), OfProject(p), length)
  BY DEF SeriesCountCalls
<1> DEFINE L == IF r = "1d" THEN SlotsPerHour ELSE SlotsPerDay
           n == IF r = "1d" THEN HoursPerDay ELSE SeriesDays[r]
           A == [i \in DOMAIN calls |-> Owner[calls[i].project]]
           P == [i \in DOMAIN calls |-> calls[i].project]
<1>1. accountHour = RowsOf(calls, Done, AccountKey(calls)) /\ projectHour = RowsOf(calls, Done, ProjectKey(calls))
  BY DEF StatsInv, Tables, Stats
<1>2. Keyed(A, AccountKey(calls)) /\ Keyed(P, ProjectKey(calls))
  BY DEF AccountKey, ProjectKey, Keyed
<1>3. n \in Nat \ {0} /\ L \in Nat \ {0}
  BY Widths, UsageStatsAssumption
<1>4. Done \subseteq DOMAIN calls
  BY TimesAre
<1>5. \A u : {i \in Done : A[i] = u} = {i \in Done : Owner[calls[i].project] = u}
  BY <1>4
<1>6. \A p : {i \in Done : P[i] = p} = {i \in Done : calls[i].project = p}
  BY <1>4
<1>7. L = Length(r) /\ n = Count(r)
  BY DEF Length, Count
<1> HIDE DEF n, L, A, P
<1>8. ASSUME NEW u \in Users
      PROVE  LET series == GetAccountUsageStats(u, r, now)
                 mine == {i \in Done : Owner[calls[i].project] = u} IN
             Counted(series, mine, L) /\ Totals(series) = Tally({i \in mine : calls[i].at >= Min(DOMAIN series)})
  <2> DEFINE series == GetAccountUsageStats(u, r, now)
             mine == {i \in Done : Owner[calls[i].project] = u}
  <2>1. series = Series(RowsOf(calls, Done, AccountKey(calls)), u, r, now)
    BY <1>1 DEF GetAccountUsageStats
  <2>2. DOMAIN series = Points(n, L) /\ Counted(series, mine, L)
    <3>1. /\ DOMAIN Series(RowsOf(calls, Done, AccountKey(calls)), u, r, now) = Points(n, L)
          /\ Counted(Series(RowsOf(calls, Done, AccountKey(calls)), u, r, now), {i \in Done : A[i] = u}, L)
      <4> DEFINE W == AccountKey(calls)
      <4>1. Keyed(A, W)
        BY <1>2
      <4> HIDE DEF W
      <4>2. /\ DOMAIN Series(RowsOf(calls, Done, W), u, r, now) = Points(Count(r), Length(r))
            /\ Counted(Series(RowsOf(calls, Done, W), u, r, now), Mine(A, u), Length(r))
        BY <4>1, SeriesCount
      <4> QED
        BY <1>7, <4>2 DEF W, Mine
    <3> HIDE DEF series
    <3>2. mine = {i \in Done : A[i] = u}
      BY <1>5
    <3> HIDE DEF mine
    <3> QED
      BY <2>1, <3>1, <3>2
  <2>3. mine \in SUBSET DOMAIN calls
    BY <1>4
  <2> HIDE DEF series, mine
  <2>4. \A s \in DOMAIN series : series[s].use = Tally({i \in mine : calls[i].at \in s..(s + L - 1)})
    BY <2>2 DEF Counted
  <2>5. Totals(series) = Tally({i \in mine : calls[i].at >= Min(DOMAIN series)})
    BY <1>3, <2>2, <2>3, <2>4, TotalsCount DEF StatsInv
  <2> QED
    BY <2>2, <2>5 DEF series, mine
<1>9. ASSUME NEW p \in Projects
      PROVE  Counted(GetProjectUsageStats(p, r, now), {i \in Done : calls[i].project = p}, L)
  <2>1. GetProjectUsageStats(p, r, now) = Series(RowsOf(calls, Done, ProjectKey(calls)), p, r, now)
    BY <1>1 DEF GetProjectUsageStats
  <2>2. Counted(Series(RowsOf(calls, Done, ProjectKey(calls)), p, r, now), {i \in Done : P[i] = p}, L)
    <3>1. Counted(Series(RowsOf(calls, Done, ProjectKey(calls)), p, r, now), Mine(P, p), Length(r))
      BY <1>2, SeriesCount
    <3> QED
      BY <1>7, <3>1 DEF Mine
  <2>3. {i \in Done : P[i] = p} = {i \in Done : calls[i].project = p}
    BY <1>6
  <2> QED
    BY <2>1, <2>2, <2>3
<1> QED
  BY <1>8, <1>9 DEF L

\* In every reachable state the series of every user and project count every aggregated call of their
\* time once, in the point of its acceptance, and call a point complete only when no call can be
\* accepted in it any more: for every size of the batches, every order of the two workers, and hours
\* and days of any length.
THEOREM SeriesCorrect == Spec => []SeriesCountCalls
<1>1. Init => StatsInv
  BY StatsBegin
<1>2. StatsInv /\ [Next]_vars => StatsInv'
  BY StatsInvStep
<1>3. StatsInv => SeriesCountCalls
  BY SeriesAreCounted
<1> QED
  BY <1>1, <1>2, <1>3, PTL DEF Spec


-----------------------------------------------------------------------------
(* The ranking of a snapshot. *)

\* What holds of 0 and passes from a number to the next holds up to any number.
LEMMA NumbersGrow ==
  ASSUME NEW N \in Nat, NEW T, 0 \in T, \A n \in 0..(N - 1) : n \in T => n + 1 \in T
  PROVE  \A n \in 0..N : n \in T
<1> DEFINE Bad == {n \in 0..N : n \notin T}
<1> SUFFICES ASSUME Bad # {} PROVE FALSE
  OBVIOUS
<1>1. Bad \in SUBSET Nat
  OBVIOUS
<1>2. PICK x \in Bad : \A y \in Bad : x <= y
  <2> HIDE DEF Bad
  <2> QED
    BY <1>1, Least
<1>3. x \in 0..N /\ x \notin T /\ x # 0
  BY <1>2
<1>4. x - 1 \in 0..(N - 1) /\ x - 1 \notin Bad
  BY <1>1, <1>2, <1>3
<1>5. x - 1 \in T
  BY <1>4
<1> QED
  BY <1>3, <1>4, <1>5

RankRows == [model : Nat, use : Uses]

\* Ranked is a strict order of rows of different models.
LEMMA RankOrder ==
  ASSUME NEW x \in RankRows, NEW y \in RankRows, NEW z \in RankRows
  PROVE  /\ ~Ranked(x, x) /\ ~(Ranked(x, y) /\ Ranked(y, x))
         /\ Ranked(x, y) /\ Ranked(y, z) => Ranked(x, z)
         /\ x.model # y.model => Ranked(x, y) \/ Ranked(y, x)
<1>1. \A u \in RankRows : u.use.credits \in Nat /\ Requests(u.use) \in Nat /\ u.model \in Nat
  <2>1. \A u \in RankRows : u.use \in Uses /\ u.model \in Nat
    BY DEF RankRows
  <2>2. \A u \in Uses : u.credits \in Nat /\ u.success \in Nat /\ u.failure \in Nat
    BY DEF Uses, Fields, NoUse
  <2> QED
    BY <2>1, <2>2 DEF Requests
<1> QED
  BY <1>1 DEF Ranked

\* Rows, one for each model.
OnePerModel(S) == S \subseteq RankRows /\ \A x, y \in S : x.model = y.model => x = y

\* Some row of any set of them is the last.
LEMMA LastRanked ==
  ASSUME NEW S, IsFiniteSet(S), OnePerModel(S), S # {}
  PROVE  \E w \in S : \A y \in S \ {w} : Ranked(y, w)
<1> DEFINE T == {A \in SUBSET S : A # {} => \E w \in A : \A y \in A \ {w} : Ranked(y, w)}
<1>1. ASSUME NEW A \in SUBSET S, \A B \in SUBSET A : B # A => B \in T PROVE A \in T
  <2> SUFFICES ASSUME A # {} PROVE \E w \in A : \A y \in A \ {w} : Ranked(y, w)
    OBVIOUS
  <2>1. PICK x \in A : TRUE
    OBVIOUS
  <2> DEFINE B == A \ {x}
  <2>2. CASE B = {}
    BY <2>1, <2>2
  <2>3. CASE B # {}
    <3>1. B \in T
      BY <1>1, <2>1
    <3>2. PICK w \in B : \A y \in B \ {w} : Ranked(y, w)
      BY <2>3, <3>1
    <3>3. x \in RankRows /\ w \in RankRows /\ A \subseteq RankRows /\ x.model # w.model
      BY <2>1, <3>2 DEF OnePerModel
    <3>4. CASE Ranked(w, x)
      <4>1. \A y \in A \ {x} : Ranked(y, x)
        BY <3>2, <3>3, <3>4, RankOrder
      <4> QED
        BY <2>1, <4>1
    <3>5. CASE Ranked(x, w)
      <4>1. \A y \in A \ {w} : Ranked(y, w)
        BY <3>2, <3>5
      <4> QED
        BY <3>2, <4>1
    <3> QED
      BY <3>3, <3>4, <3>5, RankOrder
  <2> QED
    BY <2>2, <2>3
<1> HIDE DEF T
<1>2. S \in T
  BY <1>1, SetsGrow
<1> QED
  BY <1>2 DEF T

Ordered(list) == \A i, j \in DOMAIN list : i < j => Ranked(list[i], list[j])

\* Every set of rows can be ranked.
LEMMA RankingExists ==
  ASSUME NEW S, IsFiniteSet(S), OnePerModel(S)
  PROVE  \E list \in [1..Cardinality(S) -> S] : Ordered(list)
<1> DEFINE T == {A \in SUBSET S : \E list \in [1..Cardinality(A) -> A] : Ordered(list)}
<1>1. ASSUME NEW A \in SUBSET S, \A B \in SUBSET A : B # A => B \in T PROVE A \in T
  <2>1. CASE A = {}
    <3> DEFINE list == [i \in 1..0 |-> i]
    <3>1. Cardinality(A) = 0
      BY <2>1, FS_EmptySet
    <3>2. list \in [1..Cardinality(A) -> A] /\ Ordered(list)
      BY <2>1, <3>1 DEF Ordered
    <3> QED
      BY <3>2
  <2>2. CASE A # {}
    <3>1. IsFiniteSet(A) /\ OnePerModel(A)
      BY FS_Subset DEF OnePerModel
    <3>2. PICK w \in A : \A y \in A \ {w} : Ranked(y, w)
      BY <2>2, <3>1, LastRanked
    <3> DEFINE B == A \ {w}
               n == Cardinality(B)
    <3>3. B \in T
      BY <1>1, <3>2
    <3>4. PICK part \in [1..Cardinality(B) -> B] : Ordered(part)
      BY <3>3
    <3>5. IsFiniteSet(B) /\ n \in Nat /\ Cardinality(A) = n + 1
      <4>1. IsFiniteSet(B) /\ Cardinality(B) = Cardinality(A) - 1
        BY <3>1, <3>2, FS_RemoveElement
      <4>2. Cardinality(A) \in Nat /\ Cardinality(B) \in Nat
        BY <3>1, <4>1, FS_CardinalityType
      <4> QED
        BY <4>1, <4>2
    <3> DEFINE list == [i \in 1..(n + 1) |-> IF i = n + 1 THEN w ELSE part[i]]
    <3>6. \A i \in 1..n : part[i] \in A \ {w}
      BY <3>4
    <3> HIDE DEF n
    <3>7. list \in [1..(n + 1) -> A]
      <4>1. n \in Nat
        BY <3>5
      <4>2. ASSUME NEW i \in 1..(n + 1) PROVE (IF i = n + 1 THEN w ELSE part[i]) \in A
        <5>1. i # n + 1 => i \in 1..n
          BY <4>1
        <5> QED
          BY <3>2, <3>6, <5>1
      <4> QED
        BY <4>2
    <3>8. ASSUME NEW i \in 1..(n + 1), NEW j \in 1..(n + 1), i < j PROVE Ranked(list[i], list[j])
      <4>1. i \in 1..n /\ list[i] = part[i]
        BY <3>5, <3>8
      <4>2. CASE j = n + 1
        BY <3>2, <3>6, <4>1, <4>2
      <4>3. CASE j # n + 1
        <5>1. j \in 1..n /\ list[j] = part[j]
          BY <3>5, <4>3
        <5>2. DOMAIN part = 1..n
          BY <3>4 DEF n
        <5> QED
          BY <3>4, <3>8, <4>1, <5>1, <5>2 DEF Ordered
      <4> QED
        BY <4>2, <4>3
    <3>9. Ordered(list)
      BY <3>8 DEF Ordered
    <3> HIDE DEF list
    <3> QED
      BY <3>5, <3>7, <3>9
  <2> QED
    BY <2>1, <2>2
<1> HIDE DEF T
<1>2. S \in T
  BY <1>1, SetsGrow
<1> QED
  BY <1>2 DEF T

\* The ranking of a set of rows lists each of them once, in order.
LEMMA RankingIs ==
  ASSUME NEW S, IsFiniteSet(S), OnePerModel(S)
  PROVE  /\ Ranking(S) \in Seq(S) /\ Len(Ranking(S)) = Cardinality(S) /\ Cardinality(S) \in Nat
         /\ Ordered(Ranking(S)) /\ \A x \in S : \E i \in 1..Cardinality(S) : Ranking(S)[i] = x
<1> DEFINE n == Cardinality(S)
           list == Ranking(S)
           R == {list[i] : i \in 1..n}
<1>1. n \in Nat
  BY FS_CardinalityType
<1>2. list \in [1..n -> S] /\ Ordered(list)
  BY RankingExists DEF Ranking, Ordered
<1> HIDE DEF n, list
<1>3. list \in Seq(S) /\ Len(list) = n
  BY <1>1, <1>2 DEF Seq
<1>4. \A i, j \in 1..n : list[i] = list[j] => i = j
  <2>1. ASSUME NEW i \in 1..n, NEW j \in 1..n, i < j PROVE list[i] # list[j]
    <3>1. Ranked(list[i], list[j]) /\ list[i] \in RankRows
      BY <1>2, <2>1 DEF Ordered, OnePerModel
    <3> QED
      BY <3>1, RankOrder
  <2> QED
    BY <1>1, <2>1
<1>5. R \subseteq S
  BY <1>2
<1>6. IsFiniteSet(1..n) /\ Cardinality(1..n) = n
  BY <1>1, FS_Interval
<1>7. list \in Bijection(1..n, R)
  BY <1>2, <1>4 DEF Bijection, Injection, IsInjective, Surjection
<1>8. Cardinality(R) = n
  <2> HIDE DEF R
  <2> QED
    <3>1. ExistsBijection(1..n, R)
      BY <1>7 DEF ExistsBijection
    <3>2. Cardinality(R) = Cardinality(1..n)
      BY <1>6, <3>1, FS_Bijection
    <3> QED
      BY <1>6, <3>2
<1>9. R = S
  <2> HIDE DEF R
  <2> QED
    BY <1>5, <1>8, FS_Subset DEF n
<1> QED
  BY <1>1, <1>2, <1>3, <1>9 DEF n, list


-----------------------------------------------------------------------------
(* The histogram of a snapshot. *)

SumOver(f, S) == FoldFunctionOnSet(+, 0, f, S)

\* A fold that adds numbers arrives at a count that grows by each of them.
LEMMA FoldIsCount ==
  ASSUME NEW f, NEW S, IsFiniteSet(S), NEW c, c[{}] = 0,
         \A A \in SUBSET S : \A x \in A : c[A] = f[x] + c[A \ {x}]
  PROVE  SumOver(f, S) = c[S]
<1> DEFINE Body(iter) == [s \in SUBSET S |-> IF s = {} THEN 0 ELSE f[AnyOf(s)] + iter[s \ {AnyOf(s)}]]
           g == CHOOSE iter : iter = Body(iter)
           sums == [s \in SUBSET S |-> c[s]]
           T == {A \in SUBSET S : g[A] = c[A]}
<1>1. SumOver(f, S) = g[S]
  BY DEF SumOver, FoldFunctionOnSet, MapThenFoldSet, AnyOf
<1>2. \A s \in SUBSET S : s # {} => AnyOf(s) \in s /\ s \ {AnyOf(s)} \in SUBSET s /\ s \ {AnyOf(s)} # s
  BY DEF AnyOf
<1>3. sums = Body(sums)
  <2>1. ASSUME NEW s \in SUBSET S PROVE sums[s] = Body(sums)[s]
    <3>1. CASE s = {}
      BY <3>1
    <3>2. CASE s # {}
      <4>1. AnyOf(s) \in s /\ s \ {AnyOf(s)} \in SUBSET S
        BY <1>2, <3>2
      <4>2. sums[s] = c[s] /\ sums[s \ {AnyOf(s)}] = c[s \ {AnyOf(s)}]
        BY <4>1
      <4>3. Body(sums)[s] = f[AnyOf(s)] + sums[s \ {AnyOf(s)}]
        BY <3>2
      <4> HIDE DEF sums, Body
      <4> QED
        BY <4>1, <4>2, <4>3
    <3> QED
      BY <3>1, <3>2
  <2> QED
    BY <2>1
<1>4. g = Body(g)
  <2> HIDE DEF Body, sums
  <2> QED
    BY <1>3
<1>5. \A s \in SUBSET S : g[s] = IF s = {} THEN 0 ELSE f[AnyOf(s)] + g[s \ {AnyOf(s)}]
  <2> HIDE DEF g
  <2> QED
    BY <1>4
<1> HIDE DEF g, Body, sums
<1>6. ASSUME NEW A \in SUBSET S, \A B \in SUBSET A : B # A => B \in T PROVE A \in T
  <2>1. CASE A = {}
    BY <1>5, <2>1
  <2>2. CASE A # {}
    <3> DEFINE x == AnyOf(A)
    <3>1. x \in A /\ A \ {x} \in SUBSET A /\ A \ {x} # A /\ g[A] = f[x] + g[A \ {x}]
      BY <1>2, <1>5, <2>2
    <3> HIDE DEF x
    <3>2. g[A \ {x}] = c[A \ {x}]
      BY <1>6, <3>1
    <3>3. g[A] = c[A]
      BY <3>1, <3>2
    <3> QED
      BY <3>3
  <2> QED
    BY <2>1, <2>2
<1> HIDE DEF T
<1>7. S \in T
  BY <1>6, SetsGrow
<1> QED
  BY <1>1, <1>7 DEF T

\* What lies in two sets that share nothing.
LEMMA CardinalityAdds ==
  ASSUME NEW S, IsFiniteSet(S), NEW A, NEW B, S = A \cup B, A \cap B = {}
  PROVE  Cardinality(S) = Cardinality(A) + Cardinality(B) /\ Cardinality(A) \in Nat /\ Cardinality(B) \in Nat
<1>1. IsFiniteSet(A) /\ IsFiniteSet(B)
  BY FS_Subset
<1>2. Cardinality(A \cup B) = Cardinality(A) + Cardinality(B) - Cardinality(A \cap B) /\ Cardinality(A \cap B) = 0
  BY <1>1, FS_Union, FS_EmptySet
<1>3. Cardinality(A) \in Nat /\ Cardinality(B) \in Nat
  BY <1>1, FS_CardinalityType
<1> QED
  BY <1>2, <1>3

\* The rows of counts under some keys add up to the calls under these keys.
LEMMA CountsSum ==
  ASSUME NEW ids, IsFiniteSet(ids), NEW K, NEW keys
  PROVE  CountRows(CountsOf(ids, K), keys) = Cardinality({i \in ids : K[i] \in keys})
<1> DEFINE table == CountsOf(ids, K)
           all == {K[i] : i \in ids}
           S == all \cap keys
           Under(A) == {i \in ids : K[i] \in A}
           c == [A \in SUBSET S |-> Cardinality(Under(A))]
<1>1. DOMAIN table = all /\ \A k \in all : table[k] = Cardinality({i \in ids : K[i] = k})
  BY DEF CountsOf, With
<1>2. IsFiniteSet(S)
  <2> DEFINE h == [i \in ids |-> K[i]]
  <2>1. h \in Surjection(ids, all)
    BY DEF Surjection
  <2>2. IsFiniteSet(all)
    <3> HIDE DEF h, all
    <3> QED
      BY <2>1, FS_Surjection
  <2> QED
    BY <2>2, FS_Subset
<1>3. c[{}] = 0
  <2>1. Under({}) = {} /\ {} \in SUBSET S
    OBVIOUS
  <2> QED
    BY <2>1, FS_EmptySet
<1>4. ASSUME NEW A \in SUBSET S, NEW x \in A PROVE c[A] = table[x] + c[A \ {x}]
  <2> DEFINE U == Under(A)
             X == {i \in ids : K[i] = x}
             R == Under(A \ {x})
  <2>1. U = X \cup R /\ X \cap R = {} /\ IsFiniteSet(U)
    BY FS_Subset
  <2>2. Cardinality(U) = Cardinality(X) + Cardinality(R)
    <3> HIDE DEF U, X, R
    <3> QED
      BY <2>1, CardinalityAdds
  <2>3. c[A] = Cardinality(U) /\ c[A \ {x}] = Cardinality(R) /\ table[x] = Cardinality(X)
    BY <1>1
  <2> HIDE DEF U, X, R, c, table
  <2> QED
    BY <2>2, <2>3
<1>5. CountRows(table, keys) = SumOver(table, S)
  BY <1>1 DEF CountRows, SumOver
<1>6. c[S] = Cardinality({i \in ids : K[i] \in keys})
  <2>1. Under(S) = {i \in ids : K[i] \in keys}
    OBVIOUS
  <2>2. c[S] = Cardinality(Under(S))
    OBVIOUS
  <2> QED
    BY <2>1, <2>2
<1> HIDE DEF table, S, c
<1>7. SumOver(table, S) = c[S]
  BY <1>2, <1>3, <1>4, FoldIsCount
<1> QED
  BY <1>5, <1>6, <1>7 DEF table


\* The merging of the buckets, as a function of the last bucket that was taken.
NoBars == [bars |-> <<>>, from |-> 1, sum |-> 0]
MergedUpTo(g, n, count, total) ==
  g = [b \in 0..n |-> IF b = 0 THEN NoBars ELSE Absorb(g[b - 1], b, count, total)]

LEMMA MergeExists ==
  ASSUME NEW count, NEW total, NEW N \in Nat
  PROVE  \E g : MergedUpTo(g, N, count, total)
<1> DEFINE T == {n \in Nat : \E g : MergedUpTo(g, n, count, total)}
<1>1. 0 \in T
  <2> DEFINE g == [b \in 0..0 |-> NoBars]
  <2>1. MergedUpTo(g, 0, count, total)
    BY DEF MergedUpTo
  <2> QED
    BY <2>1
<1>2. ASSUME NEW n \in 0..(N - 1), n \in T PROVE n + 1 \in T
  <2>1. PICK g : MergedUpTo(g, n, count, total)
    BY <1>2
  <2> DEFINE h == [b \in 0..(n + 1) |-> IF b = n + 1 THEN Absorb(g[n], n + 1, count, total) ELSE g[b]]
             e == [b \in 0..(n + 1) |-> IF b = 0 THEN NoBars ELSE Absorb(h[b - 1], b, count, total)]
  <2>2. n \in Nat
    OBVIOUS
  <2>3. ASSUME NEW b \in 0..(n + 1) PROVE h[b] = e[b]
    <3>1. CASE b = n + 1
      <4>1. h[b] = Absorb(g[n], n + 1, count, total)
        BY <3>1
      <4>2. b # 0 /\ b - 1 = n /\ n \in 0..(n + 1) /\ n # n + 1
        BY <2>2, <3>1
      <4>3. h[n] = g[n]
        BY <4>2
      <4>4. e[b] = Absorb(h[b - 1], b, count, total)
        BY <4>2
      <4> HIDE DEF h, e
      <4> QED
        BY <3>1, <4>1, <4>2, <4>3, <4>4
    <3>2. CASE b = 0
      <4>1. h[b] = g[b] /\ e[b] = NoBars /\ 0 \in 0..n
        BY <2>2, <3>2
      <4>2. g[0] = NoBars
        BY <2>1, <4>1 DEF MergedUpTo
      <4> QED
        BY <3>2, <4>1, <4>2
    <3>3. CASE b \in 1..n
      <4>1. b # n + 1 /\ b # 0 /\ b - 1 \in 0..(n + 1) /\ b - 1 # n + 1 /\ b \in 0..n
        BY <2>2, <3>3
      <4>2. h[b] = g[b] /\ h[b - 1] = g[b - 1] /\ e[b] = Absorb(h[b - 1], b, count, total)
        BY <4>1
      <4>3. g[b] = Absorb(g[b - 1], b, count, total)
        BY <2>1, <4>1 DEF MergedUpTo
      <4> HIDE DEF h, e
      <4> QED
        BY <4>2, <4>3
    <3> QED
      BY <2>2, <3>1, <3>2, <3>3
  <2>4. h = e
    BY <2>3
  <2>5. MergedUpTo(h, n + 1, count, total)
    <3>1. e = [b \in 0..(n + 1) |-> IF b = 0 THEN NoBars ELSE Absorb(h[b - 1], b, count, total)]
      OBVIOUS
    <3> HIDE DEF h, e
    <3> QED
      BY <2>4, <3>1 DEF MergedUpTo
  <2> HIDE DEF h, e
  <2> QED
    BY <2>2, <2>5
<1> HIDE DEF T
<1>3. N \in T
  BY <1>1, <1>2, NumbersGrow
<1> QED
  BY <1>3 DEF T

\* Enough to round up is enough.
LEMMA EnoughRoundedUp ==
  ASSUME NEW D \in Nat \ {0}, NEW t \in Nat, NEW n \in Nat, n >= CeilDiv(t, D)
  PROVE  n * D >= t
<1> DEFINE a == t + D - 1
           q == a \div D
<1>1. a \in Nat /\ D \in Nat /\ D > 0
  OBVIOUS
<1> HIDE DEF a
<1>2. a = D * q + (a % D) /\ a % D \in 0..(D - 1) /\ q \in Int
  BY <1>1
<1>3. CeilDiv(t, D) = q
  BY DEF CeilDiv, a
<1> HIDE DEF q
<1>4. D * q >= t
  <2>1. D * q \in Int
    BY <1>2
  <2> QED
    BY <1>2, <2>1 DEF a
<1>5. n * D >= q * D
  BY <1>2, <1>3
<1>6. q * D = D * q
  BY <1>2
<1> QED
  BY <1>2, <1>4, <1>5, <1>6

\* The calls of a range of buckets.
Between(rows, ids, x, y) == {i \in ids : rows[i].bucket \in x..y}

BarRows == [from : Nat, to : Nat, count : Nat]
NextBar(bars) == IF Len(bars) = 0 THEN 1 ELSE bars[Len(bars)].to + 1

\* Bars that hold the calls of neighbouring ranges, each of them its share.
FullBars(rows, ids, bars) ==
  /\ bars \in Seq(BarRows) /\ Len(bars) < MaxDisplay
  /\ \A k \in 1..Len(bars) :
       /\ bars[k].count = Cardinality(Between(rows, ids, bars[k].from, bars[k].to))
       /\ bars[k].from = IF k = 1 THEN 1 ELSE bars[k - 1].to + 1
       /\ bars[k].count * MaxDisplay >= Cardinality(ids)

\* What is merged up to a bucket.
Merged(rows, ids, acc, b) ==
  /\ acc = [bars |-> acc.bars, from |-> acc.from, sum |-> acc.sum]
  /\ FullBars(rows, ids, acc.bars)
  /\ acc.from = NextBar(acc.bars) /\ acc.from \in 1..(b + 1)
  /\ acc.sum = Cardinality(Between(rows, ids, acc.from, b))

CountsBuckets(rows, ids, count) ==
  /\ IsFiniteSet(ids) /\ \A i \in ids : rows[i].bucket \in 1..Buckets
  /\ DOMAIN count = 1..Buckets
  /\ \A b \in 1..Buckets : count[b] = Cardinality({i \in ids : rows[i].bucket = b})

LEMMA AbsorbKeeps ==
  ASSUME NEW rows, NEW ids, NEW count, CountsBuckets(rows, ids, count),
         NEW b \in 1..Buckets, NEW acc, Merged(rows, ids, acc, b - 1)
  PROVE  Merged(rows, ids, Absorb(acc, b, count, Cardinality(ids)), b)
<1> DEFINE total == Cardinality(ids)
           sum == acc.sum + count[b]
           from == acc.from
           old == Between(rows, ids, from, b - 1)
           new == Between(rows, ids, from, b)
           this == {i \in ids : rows[i].bucket = b}
<1>1. MaxDisplay \in Nat \ {0} /\ Buckets \in Nat \ {0} /\ b \in Nat /\ b >= 1 /\ total \in Nat
  BY UsageStatsAssumption, FS_CardinalityType DEF CountsBuckets
<1>2. /\ acc = [bars |-> acc.bars, from |-> from, sum |-> acc.sum] /\ FullBars(rows, ids, acc.bars)
      /\ from = NextBar(acc.bars) /\ from \in 1..b /\ acc.sum = Cardinality(old)
  BY <1>1 DEF Merged
<1>3. sum = Cardinality(new) /\ sum \in Nat
  <2>1. count[b] = Cardinality(this)
    BY DEF CountsBuckets
  <2>2. \A i \in ids : rows[i].bucket \in Nat
    BY <1>1 DEF CountsBuckets
  <2>3. new = old \cup this /\ old \cap this = {} /\ IsFiniteSet(new)
    <3>1. new = old \cup this /\ old \cap this = {}
      BY <1>1, <1>2, <2>2 DEF Between
    <3>2. new \in SUBSET ids /\ IsFiniteSet(ids)
      BY DEF Between, CountsBuckets
    <3> QED
      BY <3>1, <3>2, FS_Subset
  <2> HIDE DEF new, old, this
  <2>4. Cardinality(new) = Cardinality(old) + Cardinality(this) /\ Cardinality(old) \in Nat /\ Cardinality(this) \in Nat
    BY <2>3, CardinalityAdds
  <2> QED
    BY <1>2, <2>1, <2>4
<1> HIDE DEF sum, new, old, this
<1>4. CASE ~Full(acc, sum, total)
  <2>1. Absorb(acc, b, count, total) = [bars |-> acc.bars, from |-> from, sum |-> sum]
    BY <1>2, <1>4 DEF Absorb, sum
  <2>2. from \in 1..(b + 1)
    BY <1>1, <1>2
  <2> QED
    BY <1>2, <1>3, <2>1, <2>2 DEF Merged, new
<1>5. CASE Full(acc, sum, total)
  <2> DEFINE bar == Bar(from, b, sum)
             bars == Append(acc.bars, bar)
             n == Len(acc.bars)
  <2>1. Absorb(acc, b, count, total) = [bars |-> bars, from |-> b + 1, sum |-> 0]
    BY <1>5 DEF Absorb, sum
  <2>2. bar \in BarRows /\ bar.from = from /\ bar.to = b /\ bar.count = sum
    BY <1>1, <1>2, <1>3 DEF Bar, BarRows
  <2> HIDE DEF bar
  <2>3. acc.bars \in Seq(BarRows) /\ n \in Nat /\ n < MaxDisplay /\ n # MaxDisplay - 1 /\ sum >= CeilDiv(total, MaxDisplay)
    BY <1>2, <1>5, LenProperties DEF FullBars, Full
  <2>4. /\ bars \in Seq(BarRows) /\ Len(bars) = n + 1 /\ bars[n + 1] = bar
        /\ \A k \in 1..n : bars[k] = acc.bars[k]
    BY <2>2, <2>3, AppendProperties
  <2> HIDE DEF bars
  <2>5. sum * MaxDisplay >= total
    BY <1>1, <1>3, <2>3, EnoughRoundedUp
  <2>6. ASSUME NEW k \in 1..(n + 1)
        PROVE  /\ bars[k].count = Cardinality(Between(rows, ids, bars[k].from, bars[k].to))
               /\ bars[k].from = IF k = 1 THEN 1 ELSE bars[k - 1].to + 1
               /\ bars[k].count * MaxDisplay >= total
    <3>1. CASE k = n + 1
      <4>1. bars[k] = bar
        BY <2>4, <3>1
      <4>2. from = IF k = 1 THEN 1 ELSE bars[k - 1].to + 1
        <5>1. CASE n = 0
          BY <1>2, <3>1, <5>1 DEF NextBar
        <5>2. CASE n # 0
          <6>1. k # 1 /\ k - 1 = n /\ n \in 1..n
            BY <2>3, <3>1, <5>2
          <6>2. from = acc.bars[n].to + 1
            BY <1>2, <5>2 DEF NextBar
          <6> QED
            BY <2>4, <6>1, <6>2
        <5> QED
          BY <5>1, <5>2
      <4> QED
        BY <1>3, <2>2, <2>5, <4>1, <4>2 DEF new
    <3>2. CASE k # n + 1
      <4>1. k \in 1..n /\ bars[k] = acc.bars[k] /\ (k # 1 => k - 1 \in 1..n)
        BY <2>3, <2>4, <3>2
      <4>2. k # 1 => bars[k - 1] = acc.bars[k - 1]
        BY <2>4, <4>1
      <4>3. /\ acc.bars[k].count = Cardinality(Between(rows, ids, acc.bars[k].from, acc.bars[k].to))
            /\ acc.bars[k].from = IF k = 1 THEN 1 ELSE acc.bars[k - 1].to + 1
            /\ acc.bars[k].count * MaxDisplay >= total
        BY <1>2, <4>1 DEF FullBars
      <4> QED
        BY <4>1, <4>2, <4>3
    <3> QED
      BY <3>1, <3>2
  <2>7. FullBars(rows, ids, bars)
    <3>1. Len(bars) < MaxDisplay
      BY <1>1, <2>3, <2>4
    <3>2. \A k \in 1..Len(bars) :
            /\ bars[k].count = Cardinality(Between(rows, ids, bars[k].from, bars[k].to))
            /\ bars[k].from = IF k = 1 THEN 1 ELSE bars[k - 1].to + 1
            /\ bars[k].count * MaxDisplay >= Cardinality(ids)
      BY <2>4, <2>6
    <3> QED
      BY <2>4, <3>1, <3>2 DEF FullBars
  <2>8. NextBar(bars) = b + 1 /\ b + 1 \in 1..(b + 1)
    BY <1>1, <2>2, <2>3, <2>4 DEF NextBar
  <2>9. Cardinality(Between(rows, ids, b + 1, b)) = 0
    <3>1. (b + 1)..b = {}
      BY <1>1
    <3>2. Between(rows, ids, b + 1, b) = {}
      BY <3>1 DEF Between
    <3> QED
      BY <3>2, FS_EmptySet
  <2> HIDE DEF total
  <2> QED
    BY <2>1, <2>7, <2>8, <2>9 DEF Merged, total
<1> QED
  BY <1>4, <1>5

\* The counts of all buckets add up to all calls.
LEMMA TotalCounts ==
  ASSUME NEW rows, NEW ids, NEW count, CountsBuckets(rows, ids, count)
  PROVE  SumOver(count, 1..Buckets) = Cardinality(ids)
<1> DEFINE S == 1..Buckets
           Under(A) == {i \in ids : rows[i].bucket \in A}
           c == [A \in SUBSET S |-> Cardinality(Under(A))]
<1>1. IsFiniteSet(S)
  BY UsageStatsAssumption, FS_Interval
<1>2. c[{}] = 0
  <2>1. Under({}) = {} /\ {} \in SUBSET S
    OBVIOUS
  <2> QED
    BY <2>1, FS_EmptySet
<1>3. ASSUME NEW A \in SUBSET S, NEW x \in A PROVE c[A] = count[x] + c[A \ {x}]
  <2> DEFINE U == Under(A)
             X == {i \in ids : rows[i].bucket = x}
             R == Under(A \ {x})
  <2>1. U = X \cup R /\ X \cap R = {} /\ IsFiniteSet(U)
    BY FS_Subset DEF CountsBuckets
  <2>2. Cardinality(U) = Cardinality(X) + Cardinality(R)
    <3> HIDE DEF U, X, R
    <3> QED
      BY <2>1, CardinalityAdds
  <2>3. c[A] = Cardinality(U) /\ c[A \ {x}] = Cardinality(R) /\ count[x] = Cardinality(X)
    BY DEF CountsBuckets
  <2> HIDE DEF U, X, R, c
  <2> QED
    BY <2>2, <2>3
<1>4. c[S] = Cardinality(ids)
  <2>1. Under(S) = ids
    BY DEF CountsBuckets
  <2>2. c[S] = Cardinality(Under(S))
    OBVIOUS
  <2> QED
    BY <2>1, <2>2
<1> HIDE DEF S, c
<1>5. SumOver(count, S) = c[S]
  <2>1. \A A \in SUBSET S : \A x \in A : c[A] = count[x] + c[A \ {x}]
    BY <1>3
  <2> HIDE DEF Under
  <2>2. ASSUME NEW k, k[{}] = 0, \A A \in SUBSET S : \A x \in A : k[A] = count[x] + k[A \ {x}] PROVE SumOver(count, S) = k[S]
    BY <1>1, <2>2, FoldIsCount
  <2> QED
    BY <1>2, <2>1, <2>2
<1> QED
  BY <1>4, <1>5 DEF S

\* ShowsDurations, of given calls.
ShownBars(rows, ids, bars) ==
  /\ Len(bars) <= MaxDisplay
  /\ ids = {} <=> bars = <<>>
  /\ \A k \in DOMAIN bars :
       /\ bars[k].count = Cardinality(Between(rows, ids, bars[k].from, bars[k].to))
       /\ bars[k].from = IF k = 1 THEN 1 ELSE bars[k - 1].to + 1
       /\ IF k = Len(bars) THEN bars[k].to = Buckets ELSE bars[k].count * MaxDisplay >= Cardinality(ids)

\* MergeDurationDisplayBuckets, for any number of buckets and any counts: at most MaxDisplay bars, no bar
\* without calls, each call counted once and in the bar of its bucket, the bars side by side up to the
\* last bucket, and every bar but the last with its share of the calls.
THEOREM MergeShows ==
  ASSUME NEW rows, NEW ids, NEW count, CountsBuckets(rows, ids, count)
  PROVE  ShownBars(rows, ids, MergeDurationDisplayBuckets(count))
<1> DEFINE total == FoldFunctionOnSet(+, 0, count, DOMAIN count)
           g == CHOOSE merged : MergedUpTo(merged, Buckets, count, total)
           last == g[Buckets]
           result == MergeDurationDisplayBuckets(count)
<1>1. MaxDisplay \in Nat \ {0} /\ Buckets \in Nat \ {0} /\ IsFiniteSet(ids) /\ Cardinality(ids) \in Nat
  BY UsageStatsAssumption, FS_CardinalityType DEF CountsBuckets
<1>2. total = Cardinality(ids)
  <2>1. DOMAIN count = 1..Buckets /\ SumOver(count, 1..Buckets) = Cardinality(ids)
    <3>1. DOMAIN count = 1..Buckets
      BY DEF CountsBuckets
    <3> QED
      BY <3>1, TotalCounts
  <2> QED
    BY <2>1 DEF SumOver
<1>3. result = CASE total = 0 -> <<>>
                 [] total > 0 /\ last.from > Buckets -> last.bars
                 [] OTHER -> Append(last.bars, Bar(last.from, Buckets, last.sum))
  BY DEF MergeDurationDisplayBuckets, MergedUpTo, NoBars
<1> HIDE DEF total
<1>4. MergedUpTo(g, Buckets, count, total)
  BY <1>1, MergeExists
<1> HIDE DEF g
<1> DEFINE T == {b \in Nat : Merged(rows, ids, g[b], b)}
<1>5. 0 \in T
  <2>1. g[0] = NoBars
    BY <1>1, <1>4 DEF MergedUpTo
  <2>2. <<>> \in Seq(BarRows) /\ Len(<<>>) = 0
    BY EmptySeq
  <2>3. NoBars.bars = <<>> /\ NoBars.from = 1 /\ NoBars.sum = 0
    BY DEF NoBars
  <2>4. FullBars(rows, ids, NoBars.bars)
    BY <1>1, <2>2, <2>3 DEF FullBars
  <2>5. Between(rows, ids, 1, 0) = {}
    BY DEF Between
  <2>6. Cardinality(Between(rows, ids, 1, 0)) = 0
    BY <2>5, FS_EmptySet
  <2>7. NextBar(NoBars.bars) = 1
    BY <2>2, <2>3 DEF NextBar
  <2>8. NoBars = [bars |-> NoBars.bars, from |-> NoBars.from, sum |-> NoBars.sum]
    BY DEF NoBars
  <2>9. Merged(rows, ids, NoBars, 0)
    BY <2>3, <2>4, <2>6, <2>7, <2>8 DEF Merged
  <2> QED
    BY <2>1, <2>9
<1>6. ASSUME NEW n \in 0..(Buckets - 1), n \in T PROVE n + 1 \in T
  <2>1. n + 1 \in 1..Buckets /\ (n + 1) - 1 = n /\ n + 1 \in 0..Buckets /\ n + 1 # 0 /\ n + 1 \in Nat
    BY <1>1
  <2>2. g[n + 1] = Absorb(g[n], n + 1, count, total)
    BY <1>4, <2>1 DEF MergedUpTo
  <2>3. Merged(rows, ids, g[n], n)
    BY <1>6
  <2> DEFINE b == n + 1
             acc == g[n]
  <2>4. Merged(rows, ids, acc, b - 1) /\ b \in 1..Buckets
    BY <2>1, <2>3
  <2> HIDE DEF b, acc
  <2>5. Merged(rows, ids, Absorb(acc, b, count, Cardinality(ids)), b)
    BY <2>4, AbsorbKeeps
  <2>6. Merged(rows, ids, g[n + 1], n + 1)
    BY <1>2, <2>2, <2>5 DEF b, acc
  <2> QED
    BY <2>1, <2>6
<1> HIDE DEF T
<1>7. Buckets \in T
  BY <1>1, <1>5, <1>6, NumbersGrow
<1>8. Merged(rows, ids, last, Buckets)
  BY <1>7 DEF T
<1> HIDE DEF last
<1> DEFINE bars == last.bars
           n == Len(bars)
<1>9. /\ FullBars(rows, ids, bars) /\ last.from = NextBar(bars) /\ last.from \in 1..(Buckets + 1)
      /\ last.sum = Cardinality(Between(rows, ids, last.from, Buckets))
  BY <1>8 DEF Merged
<1>10. bars \in Seq(BarRows) /\ n \in Nat /\ DOMAIN bars = 1..n /\ n < MaxDisplay
  BY <1>9, LenProperties DEF FullBars
<1>11. \A k \in 1..n : /\ bars[k].count = Cardinality(Between(rows, ids, bars[k].from, bars[k].to))
                       /\ bars[k].from = IF k = 1 THEN 1 ELSE bars[k - 1].to + 1
                       /\ bars[k].count * MaxDisplay >= Cardinality(ids)
  BY <1>9 DEF FullBars
<1>12. CASE total = 0
  <2>1. ids = {}
    BY <1>1, <1>2, <1>12, FS_EmptySet
  <2>2. result = <<>>
    BY <1>3, <1>12
  <2> HIDE DEF result
  <2> QED
    BY <1>1, <2>1, <2>2 DEF ShownBars, result
<1>13. CASE total # 0
  <2>1. total > 0 /\ ids # {}
    BY <1>1, <1>2, <1>13, FS_EmptySet
  <2>2. CASE last.from > Buckets
    <3>1. result = bars
      BY <1>3, <2>1, <2>2
    <3>2. last.from = Buckets + 1
      BY <1>1, <1>9, <2>2
    <3>3. n # 0 /\ bars[n].to + 1 = Buckets + 1
      BY <1>1, <1>9, <3>2 DEF NextBar
    <3>4. bars[n].to \in Nat
      <4>1. bars[n] \in BarRows
        BY <1>10, <3>3, ElementOfSeq
      <4> QED
        BY <4>1 DEF BarRows
    <3>5. bars[n].to = Buckets
      BY <1>1, <3>3, <3>4
    <3> HIDE DEF result, bars
    <3>6. bars # <<>>
      BY <3>3
    <3>7. ASSUME NEW k \in DOMAIN bars
          PROVE  /\ bars[k].count = Cardinality(Between(rows, ids, bars[k].from, bars[k].to))
                 /\ bars[k].from = IF k = 1 THEN 1 ELSE bars[k - 1].to + 1
                 /\ IF k = Len(bars) THEN bars[k].to = Buckets ELSE bars[k].count * MaxDisplay >= Cardinality(ids)
      BY <1>10, <1>11, <3>5
    <3>8. Len(bars) <= MaxDisplay
      BY <1>1, <1>10
    <3>9. ShownBars(rows, ids, bars)
      BY <2>1, <3>6, <3>7, <3>8 DEF ShownBars, Between
    <3> QED
      BY <3>1, <3>9 DEF result
  <2>3. CASE ~(last.from > Buckets)
    <3> DEFINE bar == Bar(last.from, Buckets, last.sum)
               more == Append(bars, bar)
    <3>1. result = more
      BY <1>3, <2>1, <2>3
    <3>2. last.sum \in Nat
      <4>1. IsFiniteSet(Between(rows, ids, last.from, Buckets))
        BY <1>1, FS_Subset DEF Between
      <4> QED
        BY <1>9, <4>1, FS_CardinalityType
    <3>3. bar \in BarRows /\ bar.from = last.from /\ bar.to = Buckets /\ bar.count = last.sum
      BY <1>1, <1>9, <3>2 DEF Bar, BarRows
    <3> HIDE DEF bar, result
    <3>4. more \in Seq(BarRows) /\ Len(more) = n + 1 /\ more[n + 1] = bar /\ \A k \in 1..n : more[k] = bars[k]
      BY <1>10, <3>3, AppendProperties
    <3> HIDE DEF more
    <3>5. DOMAIN more = 1..(n + 1) /\ more # <<>> /\ Len(more) <= MaxDisplay
      BY <1>1, <1>10, <3>4, LenProperties
    <3>6. ASSUME NEW k \in 1..(n + 1)
          PROVE  /\ more[k].count = Cardinality(Between(rows, ids, more[k].from, more[k].to))
                 /\ more[k].from = IF k = 1 THEN 1 ELSE more[k - 1].to + 1
                 /\ IF k = n + 1 THEN more[k].to = Buckets ELSE more[k].count * MaxDisplay >= Cardinality(ids)
      <4>1. CASE k = n + 1
        <5>1. more[k] = bar
          BY <3>4, <4>1
        <5>2. last.from = IF k = 1 THEN 1 ELSE more[k - 1].to + 1
          <6>1. CASE n = 0
            BY <1>9, <4>1, <6>1 DEF NextBar
          <6>2. CASE n # 0
            <7>1. k # 1 /\ k - 1 = n /\ n \in 1..n
              BY <1>10, <4>1, <6>2
            <7>2. last.from = bars[n].to + 1
              BY <1>9, <6>2 DEF NextBar
            <7> QED
              BY <3>4, <7>1, <7>2
          <6> QED
            BY <6>1, <6>2
        <5> QED
          BY <1>9, <3>3, <4>1, <5>1, <5>2
      <4>2. CASE k # n + 1
        <5>1. k \in 1..n /\ more[k] = bars[k] /\ (k # 1 => k - 1 \in 1..n)
          BY <1>10, <3>4, <4>2
        <5>2. k # 1 => more[k - 1] = bars[k - 1]
          BY <3>4, <5>1
        <5> QED
          BY <1>11, <4>2, <5>1, <5>2
      <4> QED
        BY <4>1, <4>2
    <3>7. ShownBars(rows, ids, more)
      BY <2>1, <3>4, <3>5, <3>6 DEF ShownBars, Between
    <3> QED
      BY <3>1, <3>7 DEF result
  <2> QED
    BY <2>2, <2>3
<1> QED
  BY <1>1, <1>2, <1>12, <1>13


-----------------------------------------------------------------------------
(* What a refresh reads, and what it shows. *)

CallsOf(rows, ids, p) == {i \in ids : rows[i].project = p}
Since(rows, mine, t) == {i \in mine : rows[i].at > t}
Used(rows, ids) == {rows[i].model : i \in ids}
Share(rows, ids, m) == [model |-> m, use |-> TallyOf(rows, {i \in ids : rows[i].model = m})]
Shares(rows, ids) == {Share(rows, ids, m) : m \in Used(rows, ids)}

\* ShowsModels, of given calls.
ShownModels(rows, ids, list) ==
  /\ Len(list) = Min({TopN, Cardinality(Used(rows, ids))})
  /\ Cardinality({list[k].model : k \in DOMAIN list}) = Len(list)
  /\ \A k \in DOMAIN list : list[k].model \in Used(rows, ids) /\ list[k] = Share(rows, ids, list[k].model)
  /\ \A k \in DOMAIN list, m \in Used(rows, ids) :
       Ranked(Share(rows, ids, m), list[k]) => \E j \in 1..(k - 1) : list[j].model = m

LEMMA MinOfTwo == \A a, b \in Nat : Min({a, b}) = IF a <= b THEN a ELSE b
<1> SUFFICES ASSUME NEW a \in Nat, NEW b \in Nat PROVE Min({a, b}) = IF a <= b THEN a ELSE b
  OBVIOUS
<1> DEFINE m == IF a <= b THEN a ELSE b
           y == CHOOSE x \in {a, b} : \A z \in {a, b} : x <= z
<1>1. m \in {a, b} /\ \A z \in {a, b} : m <= z
  OBVIOUS
<1>2. y \in {a, b} /\ \A z \in {a, b} : y <= z
  <2> HIDE DEF m
  <2> QED
    BY <1>1
<1>3. Min({a, b}) = y
  BY DEF Min
<1> HIDE DEF y
<1> QED
  BY <1>2, <1>3

\* The shares of the models are rows that can be ranked, one for each model.
LEMMA SharesAre ==
  ASSUME NEW rows \in Seq(CallRows), NEW ids \in SUBSET DOMAIN rows
  PROVE  /\ IsFiniteSet(Shares(rows, ids)) /\ OnePerModel(Shares(rows, ids))
         /\ Cardinality(Shares(rows, ids)) = Cardinality(Used(rows, ids))
         /\ \A m \in Used(rows, ids) : Share(rows, ids, m) \in RankRows /\ Share(rows, ids, m).model = m
<1> DEFINE U == Used(rows, ids)
           S == Shares(rows, ids)
           h == [i \in ids |-> rows[i].model]
           s == [m \in U |-> Share(rows, ids, m)]
<1>1. IsFiniteSet(ids) /\ \A i \in ids : rows[i] \in CallRows
  BY CallsAdd
<1>2. IsFiniteSet(U)
  <2>1. h \in Surjection(ids, U)
    BY DEF Surjection, Used
  <2> HIDE DEF h, U
  <2> QED
    BY <1>1, <2>1, FS_Surjection
<1>3. ASSUME NEW m \in U PROVE Share(rows, ids, m) \in RankRows /\ Share(rows, ids, m).model = m
  <2>1. m \in Nat
    BY <1>1, UsageStatsAssumption DEF Used, CallRows
  <2>2. {i \in ids : rows[i].model = m} \in SUBSET DOMAIN rows
    OBVIOUS
  <2>3. TallyOf(rows, {i \in ids : rows[i].model = m}) \in Uses
    BY <2>2, CallsAdd
  <2> QED
    BY <2>1, <2>3 DEF Share, RankRows
<1>4. S = {s[m] : m \in U}
  BY DEF Shares
<1>5. s \in Bijection(U, S)
  <2>1. \A m, k \in U : s[m] = s[k] => m = k
    BY <1>3
  <2>2. s \in [U -> S]
    BY <1>4
  <2>3. \A x \in S : \E m \in U : s[m] = x
    BY <1>4
  <2> HIDE DEF s, U, S
  <2> QED
    BY <2>1, <2>2, <2>3 DEF Bijection, Injection, IsInjective, Surjection
<1>6. IsFiniteSet(S) /\ Cardinality(S) = Cardinality(U)
  <2>1. ExistsBijection(U, S)
    BY <1>5 DEF ExistsBijection
  <2> HIDE DEF U, S
  <2> QED
    BY <1>2, <2>1, FS_Bijection
<1>7. OnePerModel(S)
  <2>1. \A x \in S : \E m \in U : x = Share(rows, ids, m)
    BY DEF Shares
  <2> HIDE DEF S, U
  <2> QED
    BY <1>3, <2>1 DEF OnePerModel
<1> QED
  BY <1>3, <1>6, <1>7

\* The first rows of a list, and how many first numbers there are.
LEMMA FirstRows ==
  ASSUME NEW S, NEW list, NEW n \in Nat, \A i \in 1..n : list[i] \in S
  PROVE  SubSeq(list, 1, n) \in Seq(S) /\ Len(SubSeq(list, 1, n)) = n /\ \A i \in 1..n : SubSeq(list, 1, n)[i] = list[i]
<1> DEFINE first == SubSeq(list, 1, n)
<1>1. /\ first \in Seq(S) /\ Len(first) = (IF 1 <= n THEN n - 1 + 1 ELSE 0)
      /\ \A i \in 1..(n - 1 + 1) : first[i] = list[1 + i - 1]
  <2>1. 1 \in Int /\ n \in Int
    OBVIOUS
  <2> QED
    BY <2>1, SubSeqProperties
<1> HIDE DEF first
<1>2. n - 1 + 1 = n /\ (IF 1 <= n THEN n - 1 + 1 ELSE 0) = n /\ \A i \in 1..n : 1 + i - 1 = i
  OBVIOUS
<1> QED
  BY <1>1, <1>2 DEF first

LEMMA FirstNumbers == \A n \in Nat : IsFiniteSet(1..n) /\ Cardinality(1..n) = n
<1> SUFFICES ASSUME NEW n \in Nat PROVE IsFiniteSet(1..n) /\ Cardinality(1..n) = n
  OBVIOUS
<1>1. IsFiniteSet(1..n) /\ Cardinality(1..n) = (IF 1 > n THEN 0 ELSE n - 1 + 1)
  BY FS_Interval
<1> QED
  BY <1>1

\* rebuildModelSnapshot, for any calls: the rows it keeps are those of the TopN best models, each with all
\* that its calls used, best first, and no model that is better than a kept one is left out.
THEOREM RankingShows ==
  ASSUME NEW rows \in Seq(CallRows), NEW ids \in SUBSET DOMAIN rows
  PROVE  LET list == Ranking(Shares(rows, ids)) IN ShownModels(rows, ids, SubSeq(list, 1, Min({Len(list), TopN})))
<1> DEFINE S == Shares(rows, ids)
           U == Used(rows, ids)
           list == Ranking(S)
           n == Cardinality(S)
           top == Min({Len(list), TopN})
           best == SubSeq(list, 1, top)
<1>1. /\ IsFiniteSet(S) /\ OnePerModel(S) /\ n = Cardinality(U)
      /\ \A m \in U : Share(rows, ids, m) \in RankRows /\ Share(rows, ids, m).model = m
  BY SharesAre
<1>2. \A x \in S : \E m \in U : x = Share(rows, ids, m)
  BY DEF Shares
<1>3. \A m \in U : Share(rows, ids, m) \in S
  BY DEF Shares
<1> HIDE DEF S, U
<1>4. /\ list \in Seq(S) /\ Len(list) = n /\ n \in Nat /\ Ordered(list)
      /\ \A x \in S : \E i \in 1..n : list[i] = x
  BY <1>1, RankingIs
<1> HIDE DEF list, n
<1>5. DOMAIN list = 1..n /\ \A i \in 1..n : list[i] \in S
  BY <1>4, LenProperties, ElementOfSeq
<1>6. top \in Nat /\ top <= n /\ top = Min({TopN, n}) /\ top = (IF n <= TopN THEN n ELSE TopN)
  <2>1. TopN \in Nat
    BY UsageStatsAssumption
  <2>2. Min({n, TopN}) = IF n <= TopN THEN n ELSE TopN
    BY <1>4, <2>1, MinOfTwo
  <2>3. {Len(list), TopN} = {n, TopN} /\ {TopN, n} = {n, TopN}
    BY <1>4
  <2>4. top = Min({n, TopN}) /\ Min({TopN, n}) = Min({n, TopN})
    BY <2>3
  <2> HIDE DEF top
  <2> QED
    BY <1>4, <2>1, <2>2, <2>4
<1> HIDE DEF top
<1>7. best \in Seq(S) /\ Len(best) = top /\ \A i \in 1..top : best[i] = list[i]
  <2>1. \A i \in 1..top : list[i] \in S
    BY <1>4, <1>5, <1>6
  <2>2. top \in Nat
    BY <1>6
  <2>3. ASSUME NEW t \in Nat, \A i \in 1..t : list[i] \in S
        PROVE  SubSeq(list, 1, t) \in Seq(S) /\ Len(SubSeq(list, 1, t)) = t /\ \A i \in 1..t : SubSeq(list, 1, t)[i] = list[i]
    BY <2>3, FirstRows
  <2> QED
    BY <2>1, <2>2, <2>3
<1> HIDE DEF best
<1>8. DOMAIN best = 1..top
  BY <1>7, LenProperties
<1>9. \A k \in 1..top : k \in 1..n /\ best[k] = list[k] /\ best[k] \in S
  <2>1. \A k \in 1..top : k \in 1..n
    BY <1>4, <1>6
  <2> QED
    BY <1>5, <1>7, <2>1
<1>10. ASSUME NEW k \in 1..top PROVE best[k].model \in U /\ best[k] = Share(rows, ids, best[k].model)
  BY <1>1, <1>2, <1>9
<1>11. \A i, j \in 1..n : i < j => Ranked(list[i], list[j])
  BY <1>4, <1>5 DEF Ordered
<1>12. S \subseteq RankRows /\ \A x, y \in S : x.model = y.model => x = y
  BY <1>1 DEF OnePerModel
<1>13. Cardinality({best[k].model : k \in 1..top}) = top
  <2> DEFINE R == {best[k].model : k \in 1..top}
             h == [k \in 1..top |-> best[k].model]
  <2>1. ASSUME NEW i \in 1..top, NEW j \in 1..top, i < j PROVE best[i].model # best[j].model
    <3>1. Ranked(best[i], best[j]) /\ best[i] \in RankRows /\ best[i] \in S /\ best[j] \in S
      BY <1>9, <1>11, <1>12, <2>1
    <3>2. best[i] # best[j]
      BY <3>1, RankOrder
    <3> QED
      BY <1>12, <3>1, <3>2
  <2>2. \A i, j \in 1..top : h[i] = h[j] => i = j
    <3> SUFFICES ASSUME NEW i \in 1..top, NEW j \in 1..top, h[i] = h[j], i # j PROVE FALSE
      OBVIOUS
    <3>1. best[i].model = best[j].model
      OBVIOUS
    <3>2. i < j \/ j < i
      BY <1>6
    <3> QED
      BY <2>1, <3>1, <3>2
  <2>3. h \in Bijection(1..top, R)
    <3>1. h \in [1..top -> R] /\ \A x \in R : \E k \in 1..top : h[k] = x
      OBVIOUS
    <3> HIDE DEF h, R
    <3> QED
      BY <2>2, <3>1 DEF Bijection, Injection, IsInjective, Surjection
  <2>4. ExistsBijection(1..top, R) /\ IsFiniteSet(1..top) /\ Cardinality(1..top) = top
    <3> HIDE DEF R, h
    <3>1. IsFiniteSet(1..top) /\ Cardinality(1..top) = top
      BY <1>6, FirstNumbers
    <3>2. ExistsBijection(1..top, R)
      BY <2>3 DEF ExistsBijection
    <3> QED
      BY <1>6, <3>1, <3>2
  <2> HIDE DEF R, h
  <2>5. Cardinality(R) = top
    BY <2>4, FS_Bijection
  <2> QED
    BY <2>5 DEF R
<1>14. ASSUME NEW k \in 1..top, NEW m \in U, Ranked(Share(rows, ids, m), best[k])
       PROVE  \E j \in 1..(k - 1) : best[j].model = m
  <2>1. PICK j \in 1..n : list[j] = Share(rows, ids, m)
    BY <1>3, <1>4
  <2>2. ~(k < j)
    <3> SUFFICES ASSUME k < j PROVE FALSE
      OBVIOUS
    <3>1. Ranked(best[k], list[j]) /\ best[k] \in RankRows /\ list[j] \in RankRows
      BY <1>5, <1>9, <1>11, <1>12
    <3> QED
      BY <1>14, <2>1, <3>1, RankOrder
  <2>3. k # j
    <3> SUFFICES ASSUME k = j PROVE FALSE
      OBVIOUS
    <3>1. best[k] = list[j] /\ list[j] \in RankRows
      BY <1>5, <1>9, <1>12
    <3> QED
      BY <1>14, <2>1, <3>1, RankOrder
  <2>4. j \in 1..(k - 1) /\ j \in 1..top
    BY <1>4, <1>6, <2>2, <2>3
  <2>5. best[j].model = m
    BY <1>1, <1>9, <2>1, <2>4
  <2> QED
    BY <2>4, <2>5
<1>15. ShownModels(rows, ids, best)
  BY <1>1, <1>6, <1>7, <1>8, <1>10, <1>13, <1>14 DEF ShownModels, U, n
<1> QED
  BY <1>15 DEF best, top, list, S

\* The calls of a project that are younger than a length of time are those of its window.
LEMMA WindowIs ==
  ASSUME NEW n \in Nat \ {0}, NEW t \in Int, NEW at \in Int, t <= at
  PROVE  t \in Window(n, at) <=> t > at - n
BY DEF Window

\* The snapshot of the models shows the calls of the range.
LEMMA ModelsShown ==
  ASSUME StatsInv, NEW p \in Projects, NEW r \in Ranges
  PROVE  ShownModels(calls, Since(calls, CallsOf(calls, Done, p), now - RangeSlots[r]), ModelSnapshot(p, r, now))
<1> DEFINE K == ModelKey(calls)
           win == Window(RangeSlots[r], now)
           all == {p} \X Models \X win
           keys == DOMAIN modelUse \cap all
           ids == Since(calls, CallsOf(calls, Done, p), now - RangeSlots[r])
           Use(m) == SumRows(modelUse, {k \in keys : k[2] = m})
           rows == {[model |-> m, use |-> Use(m)] : m \in {k[2] : k \in keys}}
           list == Ranking(rows)
<1>1. /\ calls \in Seq(CallRows) /\ Done \in SUBSET DOMAIN calls /\ now \in Int
      /\ \A i \in Done : calls[i].at \in Int /\ calls[i].at <= now /\ calls[i] \in CallRows
  BY TimesAre DEF StatsInv, CallsKept
<1>2. modelUse = RowsOf(calls, Done, K)
  BY DEF StatsInv, Tables, Stats
<1>3. DOMAIN modelUse = {K[i] : i \in Done}
  BY <1>2 DEF RowsOf
<1>4. ASSUME NEW i \in Done
      PROVE  /\ K[i] = <<calls[i].project, calls[i].model, calls[i].at>> /\ K[i][2] = calls[i].model
             /\ K[i] \in all <=> i \in ids
  <2>1. i \in DOMAIN calls
    BY <1>1
  <2>2. K[i] = <<calls[i].project, calls[i].model, calls[i].at>>
    BY <2>1 DEF ModelKey
  <2>3. calls[i].at \in win <=> calls[i].at > now - RangeSlots[r]
    <3>1. RangeSlots[r] \in Nat \ {0} /\ calls[i].at \in Int /\ now \in Int /\ calls[i].at <= now
      BY <1>1, UsageStatsAssumption
    <3> QED
      BY <3>1, WindowIs
  <2>4. calls[i].model \in Models
    BY <1>1 DEF CallRows
  <2>5. i \in ids <=> calls[i].project = p /\ calls[i].at > now - RangeSlots[r]
    BY DEF Since, CallsOf
  <2> HIDE DEF win, ids, K
  <2> QED
    BY <2>2, <2>3, <2>4, <2>5
<1>5. ids \in SUBSET Done
  BY DEF Since, CallsOf
<1>6. {k[2] : k \in keys} = Used(calls, ids)
  <2> HIDE DEF all, ids, K
  <2> QED
    BY <1>3, <1>4, <1>5 DEF Used
<1>7. ASSUME NEW m PROVE [model |-> m, use |-> Use(m)] = Share(calls, ids, m)
  <2> DEFINE mine == {k \in keys : k[2] = m}
  <2>1. SumRows(RowsOf(calls, Done, K), mine) = TallyOf(calls, {i \in Done : K[i] \in mine})
    <3> HIDE DEF K, mine
    <3> QED
      BY <1>1, RowsSum
  <2>2. {i \in Done : K[i] \in mine} = {i \in ids : calls[i].model = m}
    <3>1. ASSUME NEW i \in Done PROVE K[i] \in mine <=> i \in ids /\ calls[i].model = m
      <4>1. K[i] \in DOMAIN modelUse
        BY <1>3
      <4> HIDE DEF all, ids, K
      <4> QED
        BY <1>4, <4>1
    <3> HIDE DEF mine, ids, K
    <3> QED
      BY <1>5, <3>1
  <2>3. Use(m) = SumRows(RowsOf(calls, Done, K), mine)
    BY <1>2
  <2> HIDE DEF mine, ids, K, Use
  <2> QED
    BY <2>1, <2>2, <2>3 DEF Share
<1>8. rows = Shares(calls, ids)
  <2> HIDE DEF Use, keys, ids
  <2> QED
    BY <1>6, <1>7 DEF Shares
<1>9. ModelSnapshot(p, r, now) = SubSeq(list, 1, Min({Len(list), TopN}))
  BY DEF ModelSnapshot
<1> HIDE DEF rows
<1>10. ids \in SUBSET DOMAIN calls
  BY <1>1, <1>5
<1> HIDE DEF ids
<1>11. LET best == Ranking(Shares(calls, ids)) IN ShownModels(calls, ids, SubSeq(best, 1, Min({Len(best), TopN})))
  BY <1>1, <1>10, RankingShows
<1>12. ShownModels(calls, ids, ModelSnapshot(p, r, now))
  BY <1>8, <1>9, <1>11
<1> QED
  BY <1>12 DEF ids

\* The histogram shows the calls of the range.
LEMMA DurationsShown ==
  ASSUME StatsInv, NEW p \in Projects, NEW r \in Ranges
  PROVE  ShownBars(calls, Since(calls, CallsOf(calls, Done, p), now - RangeSlots[r]), DurationSnapshot(p, r, now))
<1> DEFINE K == DurationKey(calls)
           win == Window(RangeSlots[r], now)
           ids == Since(calls, CallsOf(calls, Done, p), now - RangeSlots[r])
           count == [b \in 1..Buckets |-> CountRows(durationUse, {p} \X {b} \X win)]
<1>1. /\ calls \in Seq(CallRows) /\ Done \in SUBSET DOMAIN calls /\ now \in Int
      /\ \A i \in Done : calls[i].at \in Int /\ calls[i].at <= now /\ calls[i] \in CallRows
  BY TimesAre DEF StatsInv, CallsKept
<1>2. durationUse = CountsOf(Done, K)
  BY DEF StatsInv, Tables, Stats
<1>3. ASSUME NEW i \in Done, NEW b
      PROVE  K[i] \in {p} \X {b} \X win <=> i \in ids /\ calls[i].bucket = b
  <2>1. i \in DOMAIN calls
    BY <1>1
  <2>2. K[i] = <<calls[i].project, calls[i].bucket, calls[i].at>>
    BY <2>1 DEF DurationKey
  <2>3. calls[i].at \in win <=> calls[i].at > now - RangeSlots[r]
    <3>1. RangeSlots[r] \in Nat \ {0} /\ calls[i].at \in Int /\ now \in Int /\ calls[i].at <= now
      BY <1>1, UsageStatsAssumption
    <3> QED
      BY <3>1, WindowIs
  <2>4. i \in ids <=> calls[i].project = p /\ calls[i].at > now - RangeSlots[r]
    BY DEF Since, CallsOf
  <2> HIDE DEF win, ids, K
  <2> QED
    BY <2>2, <2>3, <2>4
<1>4. ids \in SUBSET Done /\ IsFiniteSet(Done)
  <2>1. ids \in SUBSET Done
    BY DEF Since, CallsOf
  <2>2. IsFiniteSet(Done)
    BY <1>1, CallsAdd
  <2> QED
    BY <2>1, <2>2
<1>5. IsFiniteSet(ids)
  <2> HIDE DEF ids
  <2> QED
    BY <1>4, FS_Subset
<1>6. ASSUME NEW b \in 1..Buckets PROVE count[b] = Cardinality({i \in ids : calls[i].bucket = b})
  <2> DEFINE keys == {p} \X {b} \X win
  <2>1. count[b] = CountRows(durationUse, keys)
    OBVIOUS
  <2>2. \A i \in Done : K[i] \in keys <=> i \in ids /\ calls[i].bucket = b
    BY <1>3
  <2> HIDE DEF count, keys, K, ids
  <2>3. CountRows(CountsOf(Done, K), keys) = Cardinality({i \in Done : K[i] \in keys})
    BY <1>4, CountsSum
  <2>4. {i \in Done : K[i] \in keys} = {i \in ids : calls[i].bucket = b}
    BY <1>4, <2>2
  <2> QED
    BY <1>2, <2>1, <2>3, <2>4
<1>7. DurationSnapshot(p, r, now) = MergeDurationDisplayBuckets(count)
  BY DEF DurationSnapshot
<1>8. DOMAIN count = 1..Buckets
  OBVIOUS
<1>9. \A i \in ids : calls[i].bucket \in 1..Buckets
  BY <1>1, <1>4 DEF CallRows
<1> HIDE DEF count, ids
<1>10. CountsBuckets(calls, ids, count)
  BY <1>5, <1>6, <1>8, <1>9 DEF CountsBuckets
<1>11. ShownBars(calls, ids, DurationSnapshot(p, r, now))
  BY <1>7, <1>10, MergeShows
<1> QED
  BY <1>11 DEF ids

DayOf(rows, mine, at) == TallyOf(rows, {i \in mine : rows[i].at >= DayStart(at)})

\* The day of a summary counts the calls of the day.
LEMMA DayShown ==
  ASSUME StatsInv, NEW p \in Projects
  PROVE  DaySummary(p, now) = DayOf(calls, CallsOf(calls, Done, p), now)
<1> DEFINE P == [i \in DOMAIN calls |-> calls[i].project]
           d == DayStart(now)
           f == HourStart(now)
           hours == d..f
           ids == {i \in CallsOf(calls, Done, p) : calls[i].at >= d}
<1>1. /\ Done \in SUBSET DOMAIN calls /\ now \in Int
      /\ \A i \in DOMAIN calls : calls[i].at \in Int /\ calls[i].at <= now
  BY TimesAre
<1>2. Keyed(P, ProjectKey(calls)) /\ projectHour = RowsOf(calls, Done, ProjectKey(calls))
  BY DEF Keyed, ProjectKey, StatsInv, Tables, Stats
<1>3. /\ SlotsPerHour \in Nat \ {0} /\ SlotsPerDay \in Nat \ {0}
      /\ \A t : HourStart(t) = FloorTo(t, SlotsPerHour) /\ DayStart(t) = FloorTo(t, SlotsPerDay)
  BY Widths
<1>4. d \in Grid(SlotsPerHour) /\ d \in Int /\ f \in Int /\ f <= now
  <2>1. d \in Grid(SlotsPerDay)
    BY <1>1, <1>3, FloorIs
  <2>2. f \in Int /\ f <= now
    BY <1>1, <1>3, FloorIs
  <2> HIDE DEF d, f
  <2> QED
    BY <2>1, <2>2, DaysAreHours
<1>5. ASSUME NEW i \in Done PROVE HourStart(calls[i].at) \in hours <=> calls[i].at >= d
  <2> DEFINE t == calls[i].at
             h == HourStart(t)
  <2>1. t \in Int /\ t <= now
    BY <1>1
  <2> HIDE DEF t, d
  <2>2. h \in Grid(SlotsPerHour) /\ h \in Int /\ h <= t
    BY <1>3, <2>1, FloorIs
  <2>3. d <= t => d <= h
    BY <1>3, <1>4, <2>1, FloorIs
  <2>4. h <= f
    <3>1. h <= now
      BY <1>1, <2>1, <2>2
    <3> HIDE DEF h
    <3> QED
      BY <1>1, <1>3, <2>2, <3>1, FloorIs
  <2> HIDE DEF h, f
  <2>5. h \in d..f <=> t >= d
    BY <1>4, <2>1, <2>2, <2>3, <2>4
  <2> QED
    BY <2>5 DEF h, t, f
<1> HIDE DEF hours, d
<1>6. Held(P, p, hours) = ids
  BY <1>1, <1>5 DEF Held, CallsOf
<1>7. SumRows(RowsOf(calls, Done, ProjectKey(calls)), {p} \X hours) = Tally(Held(P, p, hours))
  <2> HIDE DEF P
  <2> QED
    BY <1>2, PointIs
<1>8. Tally(ids) = TallyOf(calls, ids)
  BY DEF Tally, TallyOf
<1> HIDE DEF P, ids
<1>9. DaySummary(p, now) = TallyOf(calls, ids)
  BY <1>2, <1>6, <1>7, <1>8 DEF DaySummary, hours, d
<1> QED
  BY <1>9 DEF DayOf, ids, d

\* Shown: what the snapshot rows of a project show in every range, of its calls.
Shown(rows, mine, shown) ==
  \A r \in Ranges : /\ ShownModels(rows, Since(rows, mine, shown.at - RangeSlots[r]), shown.models[r])
                    /\ ShownBars(rows, Since(rows, mine, shown.at - RangeSlots[r]), shown.durations[r])

\* What a refresh reads is what it has to show.
LEMMA ReadShows ==
  ASSUME StatsInv, NEW p \in Projects
  PROVE  /\ Shown(calls, CallsOf(calls, Done, p), SnapshotOf(p, now))
         /\ SummaryOf(p, now).day = DayOf(calls, CallsOf(calls, Done, p), SnapshotOf(p, now).at)
<1> DEFINE s == SnapshotOf(p, now)
<1>1. s.at = now /\ \A r \in Ranges : s.models[r] = ModelSnapshot(p, r, now) /\ s.durations[r] = DurationSnapshot(p, r, now)
  <2> DEFINE m == [r \in Ranges |-> ModelSnapshot(p, r, now)]
             d == [r \in Ranges |-> DurationSnapshot(p, r, now)]
  <2>1. s = [at |-> now, models |-> m, durations |-> d]
    BY DEF SnapshotOf
  <2>2. \A r \in Ranges : m[r] = ModelSnapshot(p, r, now) /\ d[r] = DurationSnapshot(p, r, now)
    OBVIOUS
  <2> HIDE DEF s, m, d
  <2> QED
    BY <2>1, <2>2
<1>2. SummaryOf(p, now).day = DaySummary(p, now)
  <2> DEFINE a == DaySummary(p, now)
             w == WindowCounts(p, now)
  <2>1. SummaryOf(p, now) = [day |-> a, window |-> w]
    BY DEF SummaryOf
  <2> HIDE DEF a, w
  <2>2. SummaryOf(p, now).day = a
    BY <2>1
  <2> QED
    BY <2>2 DEF a
<1> HIDE DEF s
<1>3. \A r \in Ranges : /\ ShownModels(calls, Since(calls, CallsOf(calls, Done, p), now - RangeSlots[r]), ModelSnapshot(p, r, now))
                        /\ ShownBars(calls, Since(calls, CallsOf(calls, Done, p), now - RangeSlots[r]), DurationSnapshot(p, r, now))
  BY ModelsShown, DurationsShown
<1>4. Shown(calls, CallsOf(calls, Done, p), s)
  BY <1>1, <1>3 DEF Shown
<1>5. SummaryOf(p, now).day = DayOf(calls, CallsOf(calls, Done, p), s.at)
  BY <1>1, <1>2, DayShown
<1> QED
  BY <1>4, <1>5 DEF s

\* What is shown of some calls does not change with the calls that follow.
LEMMA ShownSame ==
  ASSUME NEW rows \in Seq(CallRows), NEW next \in Seq(CallRows), NEW mine \in SUBSET DOMAIN rows,
         mine \subseteq DOMAIN next, \A i \in mine : rows[i] = next[i]
  PROVE  /\ \A shown : Shown(rows, mine, shown) <=> Shown(next, mine, shown)
         /\ \A at : DayOf(rows, mine, at) = DayOf(next, mine, at)
<1>1. ASSUME NEW A \in SUBSET mine PROVE TallyOf(rows, A) = TallyOf(next, A)
  <2>1. A \in SUBSET DOMAIN rows /\ A \in SUBSET DOMAIN next
    OBVIOUS
  <2>2. TallyOf(rows, A) = UseSum(Added(rows, A)) /\ TallyOf(next, A) = UseSum(Added(next, A))
    BY <2>1, CallsAdd
  <2>3. Added(rows, A) = Added(next, A)
    BY DEF Added
  <2> QED
    BY <2>2, <2>3
<1>2. \A t : Since(rows, mine, t) = Since(next, mine, t) /\ Since(rows, mine, t) \in SUBSET mine
  BY DEF Since
<1>3. ASSUME NEW ids \in SUBSET mine
      PROVE  /\ \A list : ShownModels(rows, ids, list) <=> ShownModels(next, ids, list)
             /\ \A bars : ShownBars(rows, ids, bars) <=> ShownBars(next, ids, bars)
  <2>1. Used(rows, ids) = Used(next, ids)
    BY DEF Used
  <2>2. ASSUME NEW m PROVE Share(rows, ids, m) = Share(next, ids, m)
    <3> DEFINE A == {i \in ids : rows[i].model = m}
    <3>1. A = {i \in ids : next[i].model = m} /\ A \in SUBSET mine
      OBVIOUS
    <3> HIDE DEF A
    <3>2. TallyOf(rows, A) = TallyOf(next, A)
      BY <1>1, <3>1
    <3>3. Share(next, ids, m) = [model |-> m, use |-> TallyOf(next, A)]
      BY <3>1 DEF Share
    <3>4. Share(rows, ids, m) = [model |-> m, use |-> TallyOf(rows, A)]
      BY DEF Share, A
    <3> QED
      BY <3>2, <3>3, <3>4
  <2>3. \A list : ShownModels(rows, ids, list) <=> ShownModels(next, ids, list)
    BY <2>1, <2>2 DEF ShownModels
  <2>4. \A x, y : Between(rows, ids, x, y) = Between(next, ids, x, y)
    BY DEF Between
  <2>5. \A bars : ShownBars(rows, ids, bars) <=> ShownBars(next, ids, bars)
    BY <2>4 DEF ShownBars
  <2> QED
    BY <2>3, <2>5
<1>4. ASSUME NEW shown PROVE Shown(rows, mine, shown) <=> Shown(next, mine, shown)
  BY <1>2, <1>3 DEF Shown
<1>5. ASSUME NEW at PROVE DayOf(rows, mine, at) = DayOf(next, mine, at)
  <2> DEFINE A == {i \in mine : rows[i].at >= DayStart(at)}
  <2>1. A = {i \in mine : next[i].at >= DayStart(at)} /\ A \in SUBSET mine
    OBVIOUS
  <2> HIDE DEF A
  <2>2. DayOf(next, mine, at) = TallyOf(next, A)
    BY <2>1 DEF DayOf
  <2>3. DayOf(rows, mine, at) = TallyOf(rows, A)
    BY DEF DayOf, A
  <2> QED
    BY <1>1, <2>1, <2>2, <2>3
<1> QED
  BY <1>4, <1>5

\* A project is shown currently: by its snapshots all calls of their ranges, and by its summary those of the day.
CurrentFor(p, shown, day) ==
  /\ Shown(calls, CallsOf(calls, Done, p), shown)
  /\ day = DayOf(calls, CallsOf(calls, Done, p), shown.at)

\* Right: a summary may have been cleared since.
Right(p) ==
  \/ CurrentFor(p, snapshot[p], summary[p].day)
  \/ /\ Shown(calls, CallsOf(calls, Done, p), snapshot[p])
     /\ summary[p].day = NoUse /\ lastRequest[p] < DayStart(now)

\* The worker holds the projects it claimed, with the generations it claimed.
ClaimsOf(C) == {<<p, C[p]>> : p \in Projects}
WorkerInv ==
  /\ worker.queue \subseteq ClaimsOf(claimed)
  /\ worker = Worker(worker.step, worker.queue, worker.view)
  /\ worker.step \in Steps /\ (worker.queue # {} <=> worker.step \in {"refresh", "commit"})

ProjectRows ==
  /\ dirty \in [Projects -> Nat] /\ claimed \in [Projects -> Nat] /\ \A p \in Projects : claimed[p] <= dirty[p]
  /\ lastRequest \in [Projects -> Nat]
  /\ DOMAIN summary = Projects /\ DOMAIN snapshot = Projects /\ \A p \in Projects : "day" \in DOMAIN summary[p]

\* What a refresh is about to commit is current unless the project has become dirty again.
CommitInv ==
  worker.step = "commit" =>
    LET item == Head1(worker.queue) IN
    /\ "day" \in DOMAIN worker.view.summary
    /\ dirty[item[1]] = item[2] => CurrentFor(item[1], worker.view.snapshot, worker.view.summary.day)

SettledInv == \A p \in Projects : Settled(p) => Right(p)

SnapInv == WorkerInv /\ ProjectRows /\ CommitInv /\ SettledInv

\* The head of the queue is the claim of one project, and the only one of it.
LEMMA HeadIs ==
  ASSUME WorkerInv, worker.queue # {}
  PROVE  LET item == Head1(worker.queue) IN
         /\ item \in worker.queue /\ item[1] \in Projects /\ item[2] = claimed[item[1]]
         /\ \A other \in worker.queue : other[1] \in Projects /\ other[2] = claimed[other[1]]
         /\ \A other \in worker.queue \ {item} : other[1] # item[1]
<1> DEFINE Q == worker.queue
           item == Head1(Q)
           T == {other[1] : other \in Q}
<1>1. \A other \in Q : other = <<other[1], claimed[other[1]]>> /\ other[1] \in Projects /\ other[2] = claimed[other[1]]
  BY DEF WorkerInv, ClaimsOf
<1>2. T \in SUBSET Nat /\ T # {}
  BY <1>1, UsageStatsAssumption
<1>3. PICK x \in T : \A y \in T : x <= y
  <2> HIDE DEF T
  <2> QED
    BY <1>2, Least
<1>4. PICK first \in Q : first[1] = x
  OBVIOUS
<1>5. \A other \in Q : first[1] <= other[1]
  BY <1>3, <1>4
<1> HIDE DEF Q
<1>6. item \in Q
  BY <1>4, <1>5 DEF Head1
<1> HIDE DEF item
<1>7. \A other \in Q \ {item} : other[1] # item[1]
  BY <1>1, <1>6
<1> QED
  BY <1>1, <1>6, <1>7 DEF item, Q

LEMMA WorkerIs == \A s, q, v : Worker(s, q, v).step = s /\ Worker(s, q, v).queue = q /\ Worker(s, q, v).view = v
BY DEF Worker

\* The worker turns to something that is no commit.
LEMMA WorkerTurns ==
  ASSUME NEW s \in Steps, NEW q, NEW v, worker' = Worker(s, q, v), s # "commit", q # {} <=> s = "refresh",
         q \subseteq ClaimsOf(claimed')
  PROVE  WorkerInv' /\ CommitInv' /\ worker'.queue = q
<1>1. worker'.step = s /\ worker'.queue = q /\ worker'.view = v
  BY WorkerIs
<1>2. WorkerInv'
  BY <1>1 DEF WorkerInv
<1>3. CommitInv'
  BY <1>1 DEF CommitInv
<1> QED
  BY <1>1, <1>2, <1>3

\* What is right of a project stays right while its rows and its calls stay.
LEMMA RightStays ==
  ASSUME NEW p, UNCHANGED <<now, calls, pending, lastRequest>>,
         snapshot'[p] = snapshot[p], summary'[p].day = summary[p].day, Right(p)
  PROVE  Right(p)'
<1>1. Done' = Done
  BY DEF Done
<1> QED
  BY <1>1 DEF Right, CurrentFor

\* The calls of a project, and what they show, stay in a step.
CallsStay(p) ==
  /\ \A shown : Shown(calls, CallsOf(calls, Done, p), shown) => Shown(calls', CallsOf(calls', Done', p), shown)
  /\ \A at : DayOf(calls', CallsOf(calls', Done', p), at) = DayOf(calls, CallsOf(calls, Done, p), at)

LEMMA StayBySame ==
  ASSUME StatsInv, StatsInv', NEW p, CallsOf(calls', Done', p) = CallsOf(calls, Done, p),
         \A i \in CallsOf(calls, Done, p) : calls[i] = calls'[i]
  PROVE  CallsStay(p)
<1> DEFINE mine == CallsOf(calls, Done, p)
<1>1. calls \in Seq(CallRows) /\ calls' \in Seq(CallRows)
  BY DEF StatsInv, CallsKept
<1>2. mine \in SUBSET DOMAIN calls /\ mine \subseteq DOMAIN calls'
  <2>1. mine \subseteq Done /\ CallsOf(calls', Done', p) \subseteq Done'
    BY DEF CallsOf
  <2>2. Done \subseteq DOMAIN calls /\ Done' \subseteq DOMAIN calls'
    BY DEF Done
  <2> QED
    BY <2>1, <2>2
<1>3. mine = CallsOf(calls', Done', p) /\ \A i \in mine : calls[i] = calls'[i]
  OBVIOUS
<1> HIDE DEF mine
<1>4. /\ \A shown : Shown(calls, mine, shown) <=> Shown(calls', mine, shown)
      /\ \A at : DayOf(calls, mine, at) = DayOf(calls', mine, at)
  BY <1>1, <1>2, <1>3, ShownSame
<1> QED
  BY <1>3, <1>4 DEF CallsStay, mine

\* A day never begins before the day of an earlier time.
LEMMA DaysFollow ==
  ASSUME NEW t \in Nat
  PROVE  DayStart(t) \in Int /\ DayStart(t + 1) \in Int /\ DayStart(t) <= DayStart(t + 1)
<1> DEFINE a == FloorTo(t, SlotsPerDay)
           L == SlotsPerDay
<1>1. DayStart(t) = a /\ DayStart(t + 1) = FloorTo(t + 1, L) /\ L \in Nat \ {0} /\ t \in Int /\ t + 1 \in Int
  BY Widths
<1> HIDE DEF L
<1>2. a \in Grid(L) /\ a \in Int /\ a <= t
  BY <1>1, FloorIs DEF L
<1> HIDE DEF a
<1>3. a <= t + 1
  BY <1>1, <1>2
<1>4. a <= FloorTo(t + 1, L) /\ FloorTo(t + 1, L) \in Int
  BY <1>1, <1>2, <1>3, FloorIs
<1> QED
  BY <1>1, <1>2, <1>4

\* A step of the calls or of time, beside the workers.
LEMMA BesideKeeps ==
  ASSUME SnapInv, UNCHANGED <<dirty, claimed, lastRequest, summary, snapshot, worker, lost>>,
         now \in Nat, now' = now \/ now' = now + 1, \A p \in Projects : CallsStay(p)
  PROVE  SnapInv'
<1>1. WorkerInv' /\ ProjectRows'
  BY DEF SnapInv, WorkerInv, ProjectRows
<1>2. ASSUME NEW p \in Projects, NEW shown, NEW day, CurrentFor(p, shown, day)
      PROVE  Shown(calls', CallsOf(calls', Done', p), shown) /\ day = DayOf(calls', CallsOf(calls', Done', p), shown.at)
  BY <1>2 DEF CurrentFor, CallsStay
<1>3. CommitInv'
  <2> SUFFICES ASSUME worker'.step = "commit"
               PROVE  LET item == Head1(worker.queue) IN
                      /\ "day" \in DOMAIN worker.view.summary
                      /\ dirty[item[1]] = item[2] =>
                           /\ Shown(calls', CallsOf(calls', Done', item[1]), worker.view.snapshot)
                           /\ worker.view.summary.day = DayOf(calls', CallsOf(calls', Done', item[1]), worker.view.snapshot.at)
    BY DEF CommitInv, CurrentFor
  <2> DEFINE item == Head1(worker.queue)
  <2>1. worker.step = "commit" /\ worker.queue # {}
    BY DEF SnapInv, WorkerInv
  <2>2. item[1] \in Projects
    BY <2>1, HeadIs DEF SnapInv
  <2>3. "day" \in DOMAIN worker.view.summary /\ (dirty[item[1]] = item[2] => CurrentFor(item[1], worker.view.snapshot, worker.view.summary.day))
    BY <2>1 DEF SnapInv, CommitInv
  <2> HIDE DEF item
  <2>4. dirty[item[1]] = item[2] =>
           /\ Shown(calls', CallsOf(calls', Done', item[1]), worker.view.snapshot)
           /\ worker.view.summary.day = DayOf(calls', CallsOf(calls', Done', item[1]), worker.view.snapshot.at)
    BY <1>2, <2>2, <2>3
  <2> QED
    BY <2>3, <2>4 DEF item
<1>4. DayStart(now) \in Int /\ DayStart(now') \in Int /\ DayStart(now) <= DayStart(now')
  BY DaysFollow
<1>5. ASSUME NEW p \in Projects, Settled(p)' PROVE Right(p)'
  <2>1. Right(p)
    BY <1>5 DEF Settled, SnapInv, SettledInv
  <2>2. lastRequest[p] \in Nat
    BY DEF SnapInv, ProjectRows
  <2>3. CASE CurrentFor(p, snapshot[p], summary[p].day)
    <3>1. /\ Shown(calls', CallsOf(calls', Done', p), snapshot[p])
          /\ summary[p].day = DayOf(calls', CallsOf(calls', Done', p), snapshot[p].at)
      BY <1>2, <2>3
    <3> QED
      BY <3>1 DEF Right, CurrentFor
  <2>4. CASE /\ Shown(calls, CallsOf(calls, Done, p), snapshot[p])
             /\ summary[p].day = NoUse /\ lastRequest[p] < DayStart(now)
    <3>1. Shown(calls', CallsOf(calls', Done', p), snapshot[p])
      BY <2>4 DEF CallsStay
    <3>2. lastRequest[p] < DayStart(now')
      BY <1>4, <2>2, <2>4
    <3> QED
      BY <2>4, <3>1, <3>2 DEF Right
  <2> QED
    BY <2>1, <2>3, <2>4 DEF Right
<1> QED
  BY <1>1, <1>3, <1>5 DEF SnapInv, SettledInv

\* A call that ends waits to be aggregated: nothing that is shown changes.
LEMMA FinishKeepsShown ==
  ASSUME StatsInv, StatsInv', SnapInv, NEW call \in Calls, Finish(call)
  PROVE  SnapInv'
<1>1. UNCHANGED <<now, dirty, claimed, lastRequest, summary, snapshot, worker, lost>> /\ now \in Nat
  BY DEF Finish, StatsInv, CallsKept
<1>2. /\ calls \in Seq(CallRows) /\ calls' \in Seq(CallRows) /\ pending \subseteq DOMAIN calls
      /\ calls' = Append(calls, Put(call, "at", now - call.age)) /\ pending' = pending \cup {Len(calls')}
  BY DEF Finish, StatsInv, CallsKept
<1> DEFINE n == Len(calls)
           row == Put(call, "at", now - call.age)
<1>3. n \in Nat /\ DOMAIN calls = 1..n /\ Len(calls') = n + 1 /\ DOMAIN calls' = 1..(n + 1)
  <2> HIDE DEF row
  <2>1. n \in Nat /\ DOMAIN calls = 1..n
    BY <1>2, LenProperties
  <2>2. calls' = Append(calls, row)
    BY <1>2 DEF row
  <2>3. Len(calls') = n + 1
    BY <1>2, <2>2
  <2>4. DOMAIN calls' = 1..(n + 1)
    BY <1>2, <2>3, LenProperties
  <2> QED
    BY <2>1, <2>3, <2>4
<1>4. \A i \in 1..n : calls'[i] = calls[i]
  <2> HIDE DEF row
  <2>1. calls' = Append(calls, row)
    BY <1>2 DEF row
  <2> QED
    BY <1>2, <1>3, <2>1
<1>5. Done' = Done
  <2>1. Done' = (1..(n + 1)) \ (pending \cup {n + 1}) /\ Done = (1..n) \ pending
    BY <1>2, <1>3 DEF Done
  <2> HIDE DEF n
  <2> QED
    BY <1>3, <2>1
<1>6. \A i \in Done : calls[i] = calls'[i]
  BY <1>3, <1>4 DEF Done
<1>7. ASSUME NEW p \in Projects PROVE CallsStay(p)
  <2>1. CallsOf(calls', Done', p) = CallsOf(calls, Done, p) /\ \A i \in CallsOf(calls, Done, p) : calls[i] = calls'[i]
    BY <1>5, <1>6 DEF CallsOf
  <2> QED
    BY <2>1, StayBySame
<1> QED
  BY <1>1, <1>7, BesideKeeps

\* Time goes on, or nothing happens: what was shown of then is still right.
LEMMA TimeKeepsShown ==
  ASSUME StatsInv, SnapInv, UNCHANGED <<calls, pending, dirty, claimed, lastRequest, summary, snapshot, worker, lost>>,
         now' = now \/ now' = now + 1
  PROVE  SnapInv'
<1>1. now \in Nat
  BY DEF StatsInv, CallsKept
<1>2. ASSUME NEW p \in Projects PROVE CallsStay(p)
  <2>1. Done' = Done
    BY DEF Done
  <2> QED
    BY <2>1 DEF CallsStay
<1> QED
  BY <1>1, <1>2, BesideKeeps

\* The greatest of some numbers.
LEMMA MaxIs ==
  ASSUME NEW T \in SUBSET Nat, T # {}, NEW n \in Nat, \A x \in T : x <= n
  PROVE  Max(T) \in T /\ \A x \in T : x <= Max(T)
<1> DEFINE R == {n - x : x \in T}
<1>1. R \in SUBSET Nat /\ R # {}
  <2>1. \A x \in T : n - x \in Nat
    OBVIOUS
  <2>2. \A y \in R : y \in Nat
    BY <2>1
  <2>3. R # {}
    OBVIOUS
  <2> QED
    BY <2>2, <2>3
<1>2. PICK y \in R : \A z \in R : y <= z
  <2> HIDE DEF R
  <2> QED
    BY <1>1, Least
<1>3. PICK m \in T : y = n - m
  OBVIOUS
<1>4. \A x \in T : m >= x
  BY <1>2, <1>3
<1> DEFINE c == CHOOSE x \in T : \A z \in T : x >= z
<1>5. c \in T /\ \A z \in T : c >= z
  BY <1>3, <1>4
<1>6. Max(T) = c
  BY DEF Max
<1> HIDE DEF c
<1> QED
  BY <1>5, <1>6

\* The time of the last request stays a time, and stays as it was without a call of the project.
LEMMA LastRequestIs ==
  ASSUME StatsInv, lastRequest \in [Projects -> Nat], NEW batch \in SUBSET DOMAIN calls, NEW p \in Projects
  PROVE  /\ LastRequestAt(p, batch) \in Nat
         /\ (\A i \in batch : calls[i].project # p) => LastRequestAt(p, batch) = lastRequest[p]
<1> DEFINE mine == {calls[i].at : i \in {j \in batch : calls[j].project = p}}
           T == {lastRequest[p]} \cup mine
           n == lastRequest[p] + now
<1>1. now \in Nat /\ lastRequest[p] \in Nat /\ \A i \in DOMAIN calls : calls[i].at \in Nat /\ calls[i].at <= now
  <2>1. \A i \in DOMAIN calls : calls[i] \in CallRows /\ calls[i].at <= now
    BY TimesAre
  <2> QED
    BY <2>1 DEF StatsInv, CallsKept, CallRows
<1>2. T \in SUBSET Nat /\ T # {} /\ n \in Nat /\ \A x \in T : x <= n
  BY <1>1
<1>3. LastRequestAt(p, batch) = Max(T)
  BY DEF LastRequestAt
<1>4. (\A i \in batch : calls[i].project # p) => T = {lastRequest[p]}
  OBVIOUS
<1> HIDE DEF T, n
<1>5. Max(T) \in T
  BY <1>2, MaxIs
<1> QED
  BY <1>2, <1>3, <1>4, <1>5

\* An aggregated batch leaves its projects dirty, and the others as they were.
LEMMA AggregationKeepsShown ==
  ASSUME StatsInv, StatsInv', SnapInv, RunUsageStatsBaseAggregation
  PROVE  SnapInv'
<1> DEFINE batch == FirstOf(pending, BatchSize)
           touched == {calls[i].project : i \in batch}
<1>1. /\ batch \in SUBSET DOMAIN calls /\ batch \subseteq pending /\ pending' = pending \ batch
      /\ lastRequest' = [p \in Projects |-> LastRequestAt(p, batch)]
      /\ dirty' = [p \in Projects |-> IF p \in touched THEN dirty[p] + 1 ELSE dirty[p]]
      /\ lost' = lost \ touched
      /\ UNCHANGED <<now, calls, claimed, summary, snapshot, worker>>
  BY DEF RunUsageStatsBaseAggregation, LeftPending, MarkDirty, FirstOf
<1> HIDE DEF batch
<1>2. ProjectRows
  BY DEF SnapInv
<1>3. lastRequest' \in [Projects -> Nat]
  BY <1>1, <1>2, LastRequestIs DEF ProjectRows
<1>4. dirty' \in [Projects -> Nat] /\ \A p \in Projects : claimed[p] <= dirty'[p]
  BY <1>1, <1>2 DEF ProjectRows
<1>5. ProjectRows'
  BY <1>1, <1>2, <1>3, <1>4 DEF ProjectRows
<1>6. WorkerInv'
  BY <1>1 DEF SnapInv, WorkerInv
<1>7. ASSUME NEW p \in Projects, p \in touched PROVE claimed[p] < dirty'[p]
  BY <1>1, <1>2, <1>7 DEF ProjectRows
<1>8. ASSUME NEW p \in Projects, p \notin touched
      PROVE  /\ dirty'[p] = dirty[p] /\ lastRequest'[p] = lastRequest[p]
             /\ CallsOf(calls', Done', p) = CallsOf(calls, Done, p) /\ (p \in lost' <=> p \in lost)
  <2>1. \A i \in batch : calls[i].project # p
    BY <1>8
  <2>2. LastRequestAt(p, batch) = lastRequest[p]
    BY <1>1, <1>2, <2>1, LastRequestIs DEF ProjectRows
  <2>3. Done' \ batch = Done /\ Done \subseteq Done'
    BY <1>1 DEF Done
  <2>4. CallsOf(calls, Done', p) = CallsOf(calls, Done, p)
    BY <2>1, <2>3 DEF CallsOf
  <2> HIDE DEF touched
  <2> QED
    BY <1>1, <1>8, <2>2, <2>4
<1> HIDE DEF touched
<1>9. ASSUME NEW p \in Projects, p \notin touched, NEW shown, NEW day
      PROVE  (Shown(calls', CallsOf(calls', Done', p), shown) <=> Shown(calls, CallsOf(calls, Done, p), shown))
             /\ DayOf(calls', CallsOf(calls', Done', p), shown.at) = DayOf(calls, CallsOf(calls, Done, p), shown.at)
  BY <1>1, <1>8, <1>9
<1>10. CommitInv'
  <2> SUFFICES ASSUME worker'.step = "commit"
               PROVE  LET item == Head1(worker.queue) IN
                      /\ "day" \in DOMAIN worker.view.summary
                      /\ dirty'[item[1]] = item[2] =>
                           /\ Shown(calls', CallsOf(calls', Done', item[1]), worker.view.snapshot)
                           /\ worker.view.summary.day = DayOf(calls', CallsOf(calls', Done', item[1]), worker.view.snapshot.at)
    BY <1>1 DEF CommitInv, CurrentFor
  <2> DEFINE item == Head1(worker.queue)
  <2>1. worker.step = "commit" /\ worker.queue # {}
    BY <1>1 DEF SnapInv, WorkerInv
  <2>2. item[1] \in Projects /\ item[2] = claimed[item[1]]
    BY <2>1, HeadIs DEF SnapInv
  <2>3. "day" \in DOMAIN worker.view.summary /\ (dirty[item[1]] = item[2] => CurrentFor(item[1], worker.view.snapshot, worker.view.summary.day))
    BY <2>1 DEF SnapInv, CommitInv
  <2> HIDE DEF item
  <2>4. ASSUME dirty'[item[1]] = item[2]
        PROVE  /\ Shown(calls', CallsOf(calls', Done', item[1]), worker.view.snapshot)
               /\ worker.view.summary.day = DayOf(calls', CallsOf(calls', Done', item[1]), worker.view.snapshot.at)
    <3>1. item[1] \notin touched
      <4> SUFFICES ASSUME item[1] \in touched PROVE FALSE
        OBVIOUS
      <4>1. claimed[item[1]] \in Nat /\ dirty'[item[1]] \in Nat /\ claimed[item[1]] < dirty'[item[1]]
        BY <1>2, <1>4, <1>7, <2>2 DEF ProjectRows
      <4> QED
        BY <2>2, <2>4, <4>1
    <3>2. CurrentFor(item[1], worker.view.snapshot, worker.view.summary.day)
      BY <1>8, <2>2, <2>3, <2>4, <3>1
    <3> QED
      BY <1>9, <2>2, <3>1, <3>2 DEF CurrentFor
  <2> QED
    BY <2>3, <2>4 DEF item
<1>11. ASSUME NEW p \in Projects, Settled(p)' PROVE Right(p)'
  <2>1. dirty'[p] = claimed[p] /\ p \notin lost' /\ \A item \in worker.queue : item[1] # p
    BY <1>1, <1>11 DEF Settled
  <2>2. p \notin touched
    <3>1. claimed[p] \in Nat /\ dirty'[p] \in Nat
      BY <1>2, <1>4 DEF ProjectRows
    <3> QED
      BY <1>7, <2>1, <3>1
  <2>3. Settled(p)
    BY <1>8, <2>1, <2>2 DEF Settled
  <2>4. Right(p)
    BY <2>3 DEF SnapInv, SettledInv
  <2>5. lastRequest'[p] = lastRequest[p]
    BY <1>8, <2>2
  <2>6. /\ Shown(calls', CallsOf(calls', Done', p), snapshot[p]) <=> Shown(calls, CallsOf(calls, Done, p), snapshot[p])
        /\ DayOf(calls', CallsOf(calls', Done', p), snapshot[p].at) = DayOf(calls, CallsOf(calls, Done, p), snapshot[p].at)
    BY <1>9, <2>2
  <2> QED
    BY <1>1, <2>4, <2>5, <2>6 DEF Right, CurrentFor
<1> QED
  BY <1>5, <1>6, <1>10, <1>11 DEF SnapInv, SettledInv

LEMMA NextStepIs == \A queue : NextStep(queue) \in Steps /\ NextStep(queue) # "commit" /\ (queue # {} <=> NextStep(queue) = "refresh")
BY DEF NextStep, Steps

\* A claim: the claimed projects are with the worker.
LEMMA ClaimKeepsShown ==
  ASSUME SnapInv, ClaimDirtyProjectsForSnapshot
  PROVE  SnapInv'
<1> DEFINE rows == FirstOf(Dirty, ClaimLimit)
           queue == {<<p, dirty[p]>> : p \in rows}
<1>1. /\ worker.step = "idle"
      /\ claimed' = [p \in Projects |-> IF p \in rows THEN dirty[p] ELSE claimed[p]]
      /\ worker' = Worker(NextStep(rows), queue, NoView)
      /\ UNCHANGED <<now, calls, pending, lastRequest, dirty, summary, snapshot, lost>>
  BY DEF ClaimDirtyProjectsForSnapshot, base
<1>2. rows \subseteq Projects
  BY DEF FirstOf, Dirty
<1>3. NextStep(rows) = NextStep(queue)
  BY DEF NextStep
<1> HIDE DEF rows
<1>4. ProjectRows
  BY DEF SnapInv
<1>5. ProjectRows'
  <2>1. claimed' \in [Projects -> Nat] /\ \A p \in Projects : claimed'[p] <= dirty[p]
    BY <1>1, <1>4 DEF ProjectRows
  <2> QED
    BY <1>1, <1>4, <2>1 DEF ProjectRows
<1>6. queue \subseteq ClaimsOf(claimed')
  BY <1>1, <1>2 DEF ClaimsOf
<1>7. \A p \in rows : <<p, dirty[p]>> \in queue /\ <<p, dirty[p]>>[1] = p
  OBVIOUS
<1> HIDE DEF queue
<1>8. WorkerInv' /\ CommitInv' /\ worker'.queue = queue
  BY <1>1, <1>3, <1>6, NextStepIs, WorkerTurns
<1>9. ASSUME NEW p \in Projects, Settled(p)' PROVE Right(p)'
  <2>1. p \notin rows
    BY <1>7, <1>8, <1>9 DEF Settled
  <2>2. claimed'[p] = claimed[p]
    BY <1>1, <2>1
  <2>3. worker.queue = {}
    BY <1>1 DEF SnapInv, WorkerInv
  <2>4. Settled(p)
    BY <1>1, <1>9, <2>2, <2>3 DEF Settled
  <2>5. Right(p)
    BY <2>4 DEF SnapInv, SettledInv
  <2> QED
    BY <1>1, <2>5, RightStays
<1> QED
  BY <1>5, <1>8, <1>9 DEF SnapInv, SettledInv

\* A refresh reads what it has to show.
LEMMA ReadKeepsShown ==
  ASSUME StatsInv, SnapInv, ReadForRefresh
  PROVE  SnapInv'
<1> DEFINE p == Head1(worker.queue)[1]
           view == [snapshot |-> SnapshotOf(p, now), summary |-> SummaryOf(p, now)]
<1>1. /\ worker.step = "refresh"
      /\ worker' = [worker EXCEPT !.step = "commit", !.view = view]
      /\ UNCHANGED <<now, calls, pending, lastRequest, dirty, claimed, summary, snapshot, lost>>
  BY DEF ReadForRefresh, base
<1>2. worker.queue # {} /\ worker = Worker(worker.step, worker.queue, worker.view)
  BY <1>1 DEF SnapInv, WorkerInv
<1>3. p \in Projects
  <2> DEFINE item == Head1(worker.queue)
  <2>1. item[1] \in Projects
    BY <1>2, HeadIs DEF SnapInv
  <2> QED
    BY <2>1
<1>4. view.snapshot = SnapshotOf(p, now) /\ view.summary = SummaryOf(p, now)
  <2> DEFINE a == SnapshotOf(p, now)
             b == SummaryOf(p, now)
  <2> HIDE DEF a, b
  <2>1. [snapshot |-> a, summary |-> b].snapshot = a /\ [snapshot |-> a, summary |-> b].summary = b
    OBVIOUS
  <2> QED
    BY <2>1 DEF a, b
<1> HIDE DEF view
<1>5. worker' = Worker("commit", worker.queue, view)
  <2> DEFINE s == worker.step
             q == worker.queue
             v == worker.view
  <2>1. worker \in [step : {s}, queue : {q}, view : {v}]
    <3>1. worker = [step |-> s, queue |-> q, view |-> v]
      BY <1>2 DEF Worker
    <3> HIDE DEF s, q, v
    <3> QED
      BY <3>1
  <2> HIDE DEF s, q, v
  <2>2. worker' \in [step : {"commit"}, queue : {q}, view : {view}]
    BY <1>1, <2>1
  <2>3. worker' = [step |-> "commit", queue |-> q, view |-> view]
    BY <2>2
  <2> QED
    BY <2>3 DEF Worker, q
<1>6. worker'.step = "commit" /\ worker'.queue = worker.queue /\ worker'.view = view
  BY <1>5, WorkerIs
<1>7. WorkerInv'
  BY <1>1, <1>2, <1>5, <1>6 DEF SnapInv, WorkerInv, Steps
<1>8. ProjectRows'
  BY <1>1 DEF SnapInv, ProjectRows
<1>9. Done' = Done
  BY <1>1 DEF Done
<1>10. CurrentFor(p, SnapshotOf(p, now), SummaryOf(p, now).day) /\ "day" \in DOMAIN SummaryOf(p, now)
  <2>1. "day" \in DOMAIN SummaryOf(p, now)
    BY DEF SummaryOf
  <2>2. /\ Shown(calls, CallsOf(calls, Done, p), SnapshotOf(p, now))
        /\ SummaryOf(p, now).day = DayOf(calls, CallsOf(calls, Done, p), SnapshotOf(p, now).at)
    <3> HIDE DEF p
    <3> QED
      BY <1>3, ReadShows
  <2> HIDE DEF p
  <2> QED
    BY <2>1, <2>2 DEF CurrentFor
<1>11. CommitInv'
  <2>1. Head1(worker'.queue)[1] = p
    BY <1>6
  <2>2. /\ worker'.view.snapshot = SnapshotOf(p, now) /\ worker'.view.summary = SummaryOf(p, now)
    BY <1>4, <1>6
  <2> HIDE DEF p
  <2>3. "day" \in DOMAIN worker'.view.summary /\ CurrentFor(p, worker'.view.snapshot, worker'.view.summary.day)
    BY <1>10, <2>2
  <2> QED
    BY <1>1, <1>9, <2>1, <2>3 DEF CommitInv, CurrentFor
<1>12. ASSUME NEW q \in Projects, Settled(q)' PROVE Right(q)'
  <2>1. Settled(q)
    BY <1>1, <1>6, <1>12 DEF Settled
  <2>2. Right(q)
    BY <2>1 DEF SnapInv, SettledInv
  <2> QED
    BY <1>1, <2>2, RightStays
<1> QED
  BY <1>7, <1>8, <1>11, <1>12 DEF SnapInv, SettledInv

\* A refresh commits: its project is settled only when no call was aggregated since the claim, and
\* then what was read is current.
LEMMA CommitKeepsShown ==
  ASSUME SnapInv, CommitRefresh
  PROVE  SnapInv'
<1> DEFINE item == Head1(worker.queue)
           rest == worker.queue \ {item}
           p == item[1]
           view == worker.view
<1>1. /\ worker.step = "commit"
      /\ snapshot' = [snapshot EXCEPT ![p] = view.snapshot]
      /\ summary' = [summary EXCEPT ![p] = view.summary]
      /\ claimed' = [claimed EXCEPT ![p] = IF dirty[p] # item[2] THEN claimed[p] ELSE dirty[p]]
      /\ worker' = Worker(NextStep(rest), rest, NoView)
      /\ UNCHANGED <<now, calls, pending, lastRequest, dirty, lost>>
  BY DEF CommitRefresh, Reclaim, base
<1>2. worker.queue # {}
  BY <1>1 DEF SnapInv, WorkerInv
<1>3. /\ item \in worker.queue /\ p \in Projects /\ item[2] = claimed[p]
      /\ \A other \in worker.queue : other[1] \in Projects /\ other[2] = claimed[other[1]]
      /\ \A other \in worker.queue \ {item} : other[1] # p
  BY <1>2, HeadIs DEF SnapInv
<1>4. /\ "day" \in DOMAIN view.summary
      /\ dirty[p] = item[2] => CurrentFor(p, view.snapshot, view.summary.day)
  BY <1>1 DEF SnapInv, CommitInv
<1> HIDE DEF item, view
<1>5. ProjectRows /\ WorkerInv
  BY DEF SnapInv
<1>6. claimed' = claimed
  BY <1>1, <1>3, <1>5 DEF ProjectRows
<1>7. rest \subseteq ClaimsOf(claimed')
  BY <1>5, <1>6 DEF WorkerInv
<1>8. WorkerInv' /\ CommitInv' /\ worker'.queue = rest
  <2> HIDE DEF rest
  <2> QED
    BY <1>1, <1>7, NextStepIs, WorkerTurns
<1>9. /\ snapshot'[p] = view.snapshot /\ summary'[p] = view.summary
      /\ \A q \in Projects : q # p => snapshot'[q] = snapshot[q] /\ summary'[q] = summary[q]
      /\ DOMAIN snapshot' = Projects /\ DOMAIN summary' = Projects
  BY <1>1, <1>3, <1>5 DEF ProjectRows
<1>10. ProjectRows'
  BY <1>1, <1>4, <1>5, <1>6, <1>9 DEF ProjectRows
<1>11. ASSUME NEW q \in Projects, Settled(q)' PROVE Right(q)'
  <2>1. CASE q = p
    <3>1. dirty[p] = item[2]
      BY <1>1, <1>3, <1>6, <1>11, <2>1 DEF Settled
    <3>2. CurrentFor(p, snapshot'[p], summary'[p].day)
      BY <1>4, <1>9, <3>1
    <3>3. Done' = Done
      BY <1>1 DEF Done
    <3> HIDE DEF p
    <3> QED
      BY <1>1, <2>1, <3>2, <3>3 DEF Right, CurrentFor
  <2>2. CASE q # p
    <3>1. \A other \in worker.queue : other[1] # q
      <4>1. \A other \in rest : other[1] # q
        BY <1>8, <1>11 DEF Settled
      <4> QED
        BY <2>2, <4>1
    <3>2. Settled(q)
      BY <1>1, <1>6, <1>11, <3>1 DEF Settled
    <3>3. Right(q)
      BY <3>2 DEF SnapInv, SettledInv
    <3> QED
      BY <1>1, <1>9, <2>2, <3>3, RightStays
  <2> QED
    BY <2>1, <2>2
<1> QED
  BY <1>8, <1>10, <1>11 DEF SnapInv, SettledInv

\* A refresh that fails: its claim is lost, unless its project has become dirty again.
LEMMA FailureKeepsShown ==
  ASSUME SnapInv, RefreshFails
  PROVE  SnapInv'
<1> DEFINE item == Head1(worker.queue)
           rest == worker.queue \ {item}
           p == item[1]
<1>1. /\ worker.step \in {"refresh", "commit"}
      /\ lost' = IF dirty[p] = item[2] THEN lost \cup {p} ELSE lost
      /\ worker' = Worker(NextStep(rest), rest, NoView)
      /\ UNCHANGED <<now, calls, pending, lastRequest, dirty, claimed, summary, snapshot>>
  BY DEF RefreshFails, base
<1>2. worker.queue # {}
  BY <1>1 DEF SnapInv, WorkerInv
<1>3. /\ item \in worker.queue /\ p \in Projects /\ item[2] = claimed[p]
      /\ \A other \in worker.queue \ {item} : other[1] # p
  BY <1>2, HeadIs DEF SnapInv
<1> HIDE DEF item
<1>4. rest \subseteq ClaimsOf(claimed')
  BY <1>1 DEF SnapInv, WorkerInv
<1>5. WorkerInv' /\ CommitInv' /\ worker'.queue = rest
  <2> HIDE DEF rest
  <2> QED
    BY <1>1, <1>4, NextStepIs, WorkerTurns
<1>6. ProjectRows'
  BY <1>1 DEF SnapInv, ProjectRows
<1>7. ASSUME NEW q \in Projects, Settled(q)' PROVE Right(q)'
  <2>1. dirty[q] = claimed[q] /\ q \notin lost' /\ \A other \in rest : other[1] # q
    BY <1>1, <1>5, <1>7 DEF Settled
  <2>2. q # p /\ q \notin lost
    <3> HIDE DEF p
    <3> QED
      BY <1>1, <1>3, <2>1
  <2>3. Settled(q)
    BY <2>1, <2>2 DEF Settled
  <2>4. Right(q)
    BY <2>3 DEF SnapInv, SettledInv
  <2> QED
    BY <1>1, <2>4, RightStays
<1> QED
  BY <1>5, <1>6, <1>7 DEF SnapInv, SettledInv

\* The process ends: the claims of the worker are lost.
LEMMA CrashKeepsShown ==
  ASSUME SnapInv, Crash
  PROVE  SnapInv'
<1> DEFINE gone == {item[1] : item \in {i \in worker.queue : dirty[i[1]] = i[2]}}
<1>1. /\ lost' = lost \cup gone
      /\ worker' = Worker("idle", {}, NoView)
      /\ UNCHANGED <<now, calls, pending, lastRequest, dirty, claimed, summary, snapshot>>
  BY DEF Crash, base
<1>2. WorkerInv' /\ CommitInv' /\ worker'.queue = {}
  <2>1. {} \subseteq ClaimsOf(claimed') /\ "idle" \in Steps
    BY DEF Steps
  <2> QED
    BY <1>1, <2>1, WorkerTurns
<1>3. ProjectRows'
  BY <1>1 DEF SnapInv, ProjectRows
<1>4. ASSUME NEW q \in Projects, Settled(q)' PROVE Right(q)'
  <2>1. dirty[q] = claimed[q] /\ q \notin lost /\ q \notin gone
    BY <1>1, <1>4 DEF Settled
  <2>2. ASSUME NEW item \in worker.queue PROVE item[1] # q
    <3>1. item[2] = claimed[item[1]]
      BY HeadIs DEF SnapInv
    <3> QED
      BY <2>1, <3>1
  <2>3. Settled(q)
    BY <2>1, <2>2 DEF Settled
  <2>4. Right(q)
    BY <2>3 DEF SnapInv, SettledInv
  <2> QED
    BY <1>1, <2>4, RightStays
<1> QED
  BY <1>2, <1>3, <1>4 DEF SnapInv, SettledInv

\* A step of the worker that ages the summaries, or fails to.
LEMMA AgingTurns ==
  ASSUME SnapInv, worker.step \in {"idle", "clear", "window"}, NEW s \in {"idle", "window"},
         worker' = Worker(s, {}, NoView) \/ worker' = [worker EXCEPT !.step = s],
         UNCHANGED <<claimed>>
  PROVE  WorkerInv' /\ CommitInv' /\ worker'.queue = {} /\ worker.queue = {}
<1> DEFINE q == worker.queue
           v == worker.view
           t == worker.step
<1>1. q = {} /\ worker = [step |-> t, queue |-> q, view |-> v]
  BY DEF SnapInv, WorkerInv, Worker
<1> HIDE DEF q, v, t
<1>2. worker' = Worker(s, {}, NoView) \/ worker' = Worker(s, {}, v)
  <2>1. CASE worker' = [worker EXCEPT !.step = s]
    <3>1. worker \in [step : {t}, queue : {q}, view : {v}]
      BY <1>1
    <3>2. worker' \in [step : {s}, queue : {q}, view : {v}]
      BY <2>1, <3>1
    <3>3. worker' = [step |-> s, queue |-> q, view |-> v]
      BY <3>2
    <3> QED
      BY <1>1, <3>3 DEF Worker
  <2> QED
    BY <2>1
<1>3. PICK w : worker' = Worker(s, {}, w)
  BY <1>2
<1>4. s \in Steps /\ s # "commit" /\ s # "refresh" /\ {} \subseteq ClaimsOf(claimed')
  BY DEF Steps
<1>5. WorkerInv' /\ CommitInv' /\ worker'.queue = {}
  BY <1>3, <1>4, WorkerTurns
<1> QED
  BY <1>1, <1>5 DEF q

\* What is settled stays so when only the summaries age, and each as it may.
LEMMA AgingKeeps ==
  ASSUME SnapInv, UNCHANGED <<now, calls, pending, lastRequest, dirty, claimed, snapshot, lost>>,
         WorkerInv', CommitInv', worker'.queue = {}, worker.queue = {},
         DOMAIN summary' = Projects, \A p \in Projects : "day" \in DOMAIN summary'[p],
         \A p \in Projects : \/ summary'[p].day = summary[p].day
                             \/ summary'[p].day = NoUse /\ lastRequest[p] < DayStart(now)
  PROVE  SnapInv'
<1>1. ProjectRows'
  BY DEF SnapInv, ProjectRows
<1>2. ASSUME NEW p \in Projects, Settled(p)' PROVE Right(p)'
  <2>1. Settled(p)
    BY <1>2 DEF Settled
  <2>2. Right(p)
    BY <2>1 DEF SnapInv, SettledInv
  <2>3. CASE summary'[p].day = summary[p].day
    BY <2>2, <2>3, RightStays
  <2>4. CASE summary'[p].day = NoUse /\ lastRequest[p] < DayStart(now)
    <3>1. Shown(calls, CallsOf(calls, Done, p), snapshot[p]) /\ Done' = Done
      BY <2>2 DEF Right, CurrentFor, Done
    <3> QED
      BY <2>4, <3>1 DEF Right
  <2> QED
    BY <2>3, <2>4
<1> QED
  BY <1>1, <1>2 DEF SnapInv, SettledInv

\* A clearing empties days that have ended.
LEMMA ClearKeepsShown ==
  ASSUME SnapInv, ClearStaleProjectDaySummaries
  PROVE  SnapInv'
<1> DEFINE rows == FirstOf({p \in Projects : StaleDay(p)}, ClearLimit)
<1>1. /\ worker.step = "clear" /\ worker' = [worker EXCEPT !.step = "window"]
      /\ summary' = [p \in Projects |-> IF p \in rows THEN [summary[p] EXCEPT !.day = NoUse] ELSE summary[p]]
      /\ UNCHANGED <<now, calls, pending, lastRequest, dirty, claimed, snapshot, lost>>
  BY DEF ClearStaleProjectDaySummaries, base
<1>2. \A p \in rows : lastRequest[p] < DayStart(now)
  BY DEF FirstOf, StaleDay
<1> HIDE DEF rows
<1>3. \A p \in Projects : "day" \in DOMAIN summary[p]
  BY DEF SnapInv, ProjectRows
<1>4. ASSUME NEW p \in Projects
      PROVE  /\ "day" \in DOMAIN summary'[p]
             /\ \/ summary'[p].day = summary[p].day
                \/ summary'[p].day = NoUse /\ lastRequest[p] < DayStart(now)
  <2>1. CASE p \in rows
    <3> DEFINE u == NoUse
               w == summary[p]
    <3>1. summary'[p] = [w EXCEPT !.day = u] /\ "day" \in DOMAIN w
      BY <1>1, <1>3, <2>1
    <3> HIDE DEF u, w
    <3>2. "day" \in DOMAIN [w EXCEPT !.day = u] /\ [w EXCEPT !.day = u].day = u
      BY <3>1
    <3> QED
      BY <1>2, <2>1, <3>1, <3>2 DEF u
  <2>2. CASE p \notin rows
    BY <1>1, <1>3, <2>2
  <2> QED
    BY <2>1, <2>2
<1>5. WorkerInv' /\ CommitInv' /\ worker'.queue = {} /\ worker.queue = {}
  BY <1>1, AgingTurns
<1>6. DOMAIN summary' = Projects
  BY <1>1
<1> QED
  BY <1>1, <1>4, <1>5, <1>6, AgingKeeps

\* A refresh of the recent windows leaves the days alone.
LEMMA WindowKeepsShown ==
  ASSUME SnapInv, RefreshRecentFailureWindowCounts
  PROVE  SnapInv'
<1> DEFINE rows == FirstOf({p \in Projects : Aging(p)}, RefreshLimit)
<1>1. /\ worker.step = "window" /\ worker' = Worker("idle", {}, NoView)
      /\ summary' = [p \in Projects |-> IF p \in rows THEN [summary[p] EXCEPT !.window = WindowCounts(p, now)] ELSE summary[p]]
      /\ UNCHANGED <<now, calls, pending, lastRequest, dirty, claimed, snapshot, lost>>
  BY DEF RefreshRecentFailureWindowCounts, base
<1> HIDE DEF rows
<1>2. \A p \in Projects : "day" \in DOMAIN summary[p]
  BY DEF SnapInv, ProjectRows
<1>3. ASSUME NEW p \in Projects PROVE "day" \in DOMAIN summary'[p] /\ summary'[p].day = summary[p].day
  <2>1. CASE p \in rows
    <3> DEFINE c == WindowCounts(p, now)
               w == summary[p]
    <3>1. summary'[p] = [w EXCEPT !.window = c] /\ "day" \in DOMAIN w
      BY <1>1, <1>2, <2>1
    <3> HIDE DEF c, w
    <3>2. "day" \in DOMAIN [w EXCEPT !.window = c] /\ [w EXCEPT !.window = c].day = w.day
      BY <3>1
    <3> QED
      BY <3>1, <3>2 DEF w
  <2>2. CASE p \notin rows
    BY <1>1, <1>2, <2>2
  <2> QED
    BY <2>1, <2>2
<1>4. WorkerInv' /\ CommitInv' /\ worker'.queue = {} /\ worker.queue = {}
  BY <1>1, AgingTurns
<1>5. DOMAIN summary' = Projects
  BY <1>1
<1> QED
  BY <1>1, <1>3, <1>4, <1>5, AgingKeeps

\* Either of them may fail.
LEMMA AgingFailureKeepsShown ==
  ASSUME SnapInv, AgingFails
  PROVE  SnapInv'
<1>1. /\ worker.step \in {"clear", "window"}
      /\ worker' = IF worker.step = "clear" THEN [worker EXCEPT !.step = "window"] ELSE Worker("idle", {}, NoView)
      /\ UNCHANGED <<now, calls, pending, lastRequest, dirty, claimed, summary, snapshot, lost>>
  BY DEF AgingFails, base
<1>2. WorkerInv' /\ CommitInv' /\ worker'.queue = {} /\ worker.queue = {}
  <2>1. CASE worker.step = "clear"
    BY <1>1, <2>1, AgingTurns
  <2>2. CASE worker.step = "window"
    BY <1>1, <2>2, AgingTurns
  <2> QED
    BY <1>1, <2>1, <2>2
<1>3. DOMAIN summary' = Projects /\ \A p \in Projects : "day" \in DOMAIN summary'[p] /\ summary'[p].day = summary[p].day
  BY <1>1 DEF SnapInv, ProjectRows
<1> QED
  BY <1>1, <1>2, <1>3, AgingKeeps

\* At first every snapshot was read from nothing.
LEMMA SnapBegin == Init => SnapInv
<1> SUFFICES ASSUME Init PROVE SnapInv
  OBVIOUS
<1>1. StatsInv
  BY StatsBegin
<1>2. /\ dirty = [p \in Projects |-> 0] /\ claimed = [p \in Projects |-> 0] /\ lastRequest = [p \in Projects |-> 0]
      /\ summary = [p \in Projects |-> [day |-> NoUse, window |-> NoWindow]]
      /\ snapshot = [p \in Projects |-> SnapshotOf(p, now)]
      /\ worker = Worker("idle", {}, NoView) /\ calls = <<>> /\ pending = {}
  BY DEF Init
<1>3. worker.step = "idle" /\ worker.queue = {} /\ worker.view = NoView
  BY <1>2, WorkerIs
<1>4. WorkerInv /\ CommitInv
  BY <1>2, <1>3 DEF WorkerInv, CommitInv, Steps
<1>5. \A p \in Projects : summary[p] = [day |-> NoUse, window |-> NoWindow] /\ snapshot[p] = SnapshotOf(p, now)
  BY <1>2
<1>6. ProjectRows
  BY <1>2, <1>5 DEF ProjectRows
<1>7. ASSUME NEW p \in Projects PROVE Right(p)
  <2>1. Shown(calls, CallsOf(calls, Done, p), SnapshotOf(p, now))
    BY <1>1, ReadShows
  <2>2. summary[p].day = NoUse
    <3> DEFINE u == NoUse
               w == NoWindow
    <3>1. summary[p] = [day |-> u, window |-> w]
      BY <1>5
    <3> HIDE DEF u, w
    <3>2. summary[p].day = u
      BY <3>1
    <3> QED
      BY <3>2 DEF u
  <2>3. DayOf(calls, CallsOf(calls, Done, p), snapshot[p].at) = NoUse
    <3> DEFINE at == snapshot[p].at
    <3> HIDE DEF at
    <3>1. {i \in CallsOf(calls, Done, p) : calls[i].at >= DayStart(at)} = {}
      BY <1>2 DEF CallsOf, Done
    <3>2. TallyOf(calls, {}) = NoUse
      BY <1>1, TallyOfNone DEF StatsInv, CallsKept
    <3>3. DayOf(calls, CallsOf(calls, Done, p), at) = NoUse
      BY <3>1, <3>2 DEF DayOf
    <3> QED
      BY <3>3 DEF at
  <2> QED
    BY <1>5, <2>1, <2>2, <2>3 DEF Right, CurrentFor
<1> QED
  BY <1>4, <1>6, <1>7 DEF SnapInv, SettledInv

LEMMA SnapStep == StatsInv /\ StatsInv' /\ SnapInv /\ [Next]_vars => SnapInv'
<1> SUFFICES ASSUME StatsInv, StatsInv', SnapInv, [Next]_vars PROVE SnapInv'
  OBVIOUS
<1>1. ASSUME NEW call \in Calls, Finish(call) PROVE SnapInv'
  BY <1>1, FinishKeepsShown
<1>2. CASE RunUsageStatsBaseAggregation
  BY <1>2, AggregationKeepsShown
<1>3. CASE Work
  BY <1>3, ClaimKeepsShown, ReadKeepsShown, CommitKeepsShown, ClearKeepsShown, WindowKeepsShown DEF Work
<1>4. CASE RefreshFails
  BY <1>4, FailureKeepsShown
<1>5. CASE AgingFails
  BY <1>5, AgingFailureKeepsShown
<1>6. CASE Crash
  BY <1>6, CrashKeepsShown
<1>7. CASE Tick
  BY <1>7, TimeKeepsShown DEF Tick, base
<1>8. CASE UNCHANGED vars
  BY <1>8, TimeKeepsShown DEF vars
<1> QED
  BY <1>1, <1>2, <1>3, <1>4, <1>5, <1>6, <1>7, <1>8 DEF Next

\* What the pure predicates say of the calls is what the property says of them.
LEMMA ModelsMeanSame ==
  ASSUME NEW ids, NEW list, ShownModels(calls, ids, list)
  PROVE  ShowsModels(list, ids)
<1>1. \A A : TallyOf(calls, A) = Tally(A)
  BY DEF TallyOf, Tally
<1>2. \A m : Share(calls, ids, m) = [model |-> m, use |-> Tally({i \in ids : calls[i].model = m})]
  BY <1>1 DEF Share
<1>3. Used(calls, ids) = {calls[i].model : i \in ids}
  BY DEF Used
<1> DEFINE used == {calls[i].model : i \in ids}
           Of(m) == [model |-> m, use |-> Tally({i \in ids : calls[i].model = m})]
<1>4. /\ Len(list) = Min({TopN, Cardinality(used)}) /\ Cardinality({list[k].model : k \in DOMAIN list}) = Len(list)
      /\ \A k \in DOMAIN list : list[k].model \in used /\ list[k] = Of(list[k].model)
      /\ \A k \in DOMAIN list, m \in used : Ranked(Of(m), list[k]) => \E j \in 1..(k - 1) : list[j].model = m
  <2>1. \A m : Share(calls, ids, m) = Of(m)
    BY <1>2
  <2>2. Used(calls, ids) = used
    BY <1>3
  <2> HIDE DEF used, Of
  <2>3. /\ Len(list) = Min({TopN, Cardinality(used)}) /\ Cardinality({list[k].model : k \in DOMAIN list}) = Len(list)
        /\ \A k \in DOMAIN list : list[k].model \in used /\ list[k] = Share(calls, ids, list[k].model)
        /\ \A k \in DOMAIN list, m \in used :
             Ranked(Share(calls, ids, m), list[k]) => \E j \in 1..(k - 1) : list[j].model = m
    BY <2>2 DEF ShownModels
  <2>4. \A k \in DOMAIN list : list[k] = Of(list[k].model)
    BY <2>1, <2>3
  <2>5. ASSUME NEW k \in DOMAIN list, NEW m \in used, Ranked(Of(m), list[k])
        PROVE  \E j \in 1..(k - 1) : list[j].model = m
    <3>1. Ranked(Share(calls, ids, m), list[k])
      BY <2>1, <2>5
    <3> QED
      BY <2>3, <3>1
  <2> QED
    BY <2>3, <2>4, <2>5
<1> QED
  BY <1>4 DEF ShowsModels

LEMMA DurationsMeanSame ==
  ASSUME NEW ids, NEW bars, ShownBars(calls, ids, bars)
  PROVE  ShowsDurations(bars, ids)
<1>1. \A x, y : Between(calls, ids, x, y) = {i \in ids : calls[i].bucket \in x..y}
  BY DEF Between
<1> QED
  BY <1>1 DEF ShownBars, ShowsDurations

LEMMA ShownIsCurrent == SnapInv => SnapshotsAreCurrent
<1> SUFFICES ASSUME SnapInv, NEW p \in Projects, Settled(p)
             PROVE  LET shown == snapshot[p]
                        day == {i \in Done : calls[i].project = p /\ calls[i].at >= DayStart(shown.at)}
                    IN /\ \A r \in Ranges :
                            /\ ShowsModels(shown.models[r], InRange(p, r, shown.at))
                            /\ ShowsDurations(shown.durations[r], InRange(p, r, shown.at))
                       /\ summary[p].day = Tally(day) \/ (summary[p].day = NoUse /\ lastRequest[p] < DayStart(now))
  BY DEF SnapshotsAreCurrent
<1> DEFINE shown == snapshot[p]
           mine == CallsOf(calls, Done, p)
           day == {i \in Done : calls[i].project = p /\ calls[i].at >= DayStart(shown.at)}
<1>1. Right(p)
  BY DEF SnapInv, SettledInv
<1>2. Shown(calls, mine, shown)
  BY <1>1 DEF Right, CurrentFor
<1>3. ASSUME NEW r \in Ranges
      PROVE  ShowsModels(shown.models[r], InRange(p, r, shown.at)) /\ ShowsDurations(shown.durations[r], InRange(p, r, shown.at))
  <2> DEFINE ids == Since(calls, mine, shown.at - RangeSlots[r])
  <2>1. InRange(p, r, shown.at) = ids
    BY DEF InRange, Since, CallsOf
  <2>2. ShownModels(calls, ids, shown.models[r]) /\ ShownBars(calls, ids, shown.durations[r])
    BY <1>2 DEF Shown
  <2> HIDE DEF ids, shown
  <2>3. ShowsModels(shown.models[r], ids)
    BY <2>2, ModelsMeanSame
  <2>4. ShowsDurations(shown.durations[r], ids)
    BY <2>2, DurationsMeanSame
  <2> QED
    BY <2>1, <2>3, <2>4
<1>4. DayOf(calls, mine, shown.at) = Tally(day)
  <2>1. {i \in mine : calls[i].at >= DayStart(shown.at)} = day
    BY DEF CallsOf
  <2> HIDE DEF mine, day, shown
  <2>2. DayOf(calls, mine, shown.at) = TallyOf(calls, day)
    BY <2>1 DEF DayOf
  <2>3. TallyOf(calls, day) = Tally(day)
    BY DEF TallyOf, Tally
  <2> QED
    BY <2>2, <2>3
<1>5. summary[p].day = DayOf(calls, mine, shown.at) \/ (summary[p].day = NoUse /\ lastRequest[p] < DayStart(now))
  BY <1>1 DEF Right, CurrentFor
<1> HIDE DEF day, shown, mine
<1>6. summary[p].day = Tally(day) \/ (summary[p].day = NoUse /\ lastRequest[p] < DayStart(now))
  BY <1>4, <1>5
<1> QED
  BY <1>3, <1>6 DEF day, shown

\* In every reachable state a project that is neither dirty nor claimed, and whose last claim did not end
\* without a refresh, shows exactly the aggregated calls of every range at the time of its last refresh:
\* the best models, ranked, with none left out that is better, and a histogram that counts every call once
\* in bars that have their share. Calls aggregated during a refresh never leave it looking clean, whatever
\* the order of the workers and whatever fails in between.
THEOREM SnapshotsCorrect == Spec => []SnapshotsAreCurrent
<1>1. Init => StatsInv /\ SnapInv
  BY StatsBegin, SnapBegin
<1>2. StatsInv /\ SnapInv /\ [Next]_vars => StatsInv' /\ SnapInv'
  BY StatsInvStep, SnapStep
<1>3. SnapInv => SnapshotsAreCurrent
  BY ShownIsCurrent
<1> QED
  BY <1>1, <1>2, <1>3, PTL DEF Spec

=============================================================================
