---------------------------- MODULE RequestsProofs ----------------------------
(***************************************************************************)
(* What the two binary searches of Pricing find, how amounts, fees and     *)
(* Credits grow, and what holds of every request, whatever the caches, the *)
(* project's rows and the upstream streams do between its steps, for every *)
(* configuration: its priority is the reference, its charge is within its  *)
(* hold.                                                                   *)
(*                                                                         *)
(* A search is a recursive function: that there is one that satisfies its  *)
(* equation, and what it returns, is proved from the fact that a nonempty  *)
(* set of numbers has a least member, with sets in the place of operators. *)
(***************************************************************************)
EXTENDS Requests, FiniteSetTheorems, WellFoundedInduction, TLAPS

-----------------------------------------------------------------------------
(* Recursion that goes on from one place to the next until it stops. *)

Lower == {p \in Nat \X Nat : p[1] < p[2]}

\* Numbers cannot fall forever.
LEMMA LowerWF == IsWellFoundedOn(Lower, Nat)
BY NatLessThanWellFounded DEF OpToRel, Lower

\* A nonempty set of numbers has a least member.
LEMMA Least ==
  ASSUME NEW T \in SUBSET Nat, T # {}
  PROVE  \E x \in T : \A y \in T : x <= y
<1>1. PICK x \in T : \A y \in T : ~(<<y, x>> \in Lower)
  BY LowerWF, WFMin
<1>2. ASSUME NEW y \in T PROVE x <= y
  <2>1. <<y, x>> \notin Lower /\ <<y, x>> \in Nat \X Nat
    BY <1>1
  <2>2. ~(y < x)
    BY <2>1 DEF Lower
  <2> QED
    BY <2>2
<1> QED
  BY <1>2

\* Of a nonempty set, some member has the least measure.
LEMMA LeastBy ==
  ASSUME NEW P, NEW m \in [P -> Nat], NEW B \in SUBSET P, B # {}
  PROVE  \E x \in B : \A y \in B : m[x] <= m[y]
<1> DEFINE T == {m[x] : x \in B}
<1>1. T \in SUBSET Nat /\ T # {}
  OBVIOUS
<1>2. PICK n \in T : \A k \in T : n <= k
  BY <1>1, Least
<1> QED
  BY <1>2

\* Where a search goes from P: it stops in Stop with Leaf, and goes on to Goes
\* elsewhere, which is nearer to an end.
Descends(P, Stop, Goes, m) ==
  /\ Goes \in [P -> P] /\ m \in [P -> Nat] /\ Stop \subseteq P
  /\ \A p \in P \ Stop : m[Goes[p]] < m[p]

\* A piece of the search that is defined on S.
Piece(P, Stop, Leaf, Goes, S, g) ==
  /\ S \subseteq P /\ g = [p \in S |-> g[p]]
  /\ \A p \in S : IF p \in Stop THEN g[p] = Leaf[p] ELSE Goes[p] \in S /\ g[p] = g[Goes[p]]

\* Two pieces of one search agree where both are defined.
LEMMA PiecesAgree ==
  ASSUME NEW P, NEW Stop, NEW Leaf, NEW Goes, NEW m, Descends(P, Stop, Goes, m),
         NEW S, NEW g, Piece(P, Stop, Leaf, Goes, S, g),
         NEW T, NEW h, Piece(P, Stop, Leaf, Goes, T, h)
  PROVE  \A p \in S \cap T : g[p] = h[p]
<1> DEFINE B == {p \in S \cap T : g[p] # h[p]}
<1> SUFFICES ASSUME B # {} PROVE FALSE
  OBVIOUS
<1>1. PICK p \in B : \A q \in B : m[p] <= m[q]
  <2>1. B \in SUBSET P
    BY DEF Piece
  <2>2. m \in [P -> Nat]
    BY DEF Descends
  <2> QED
    BY <2>1, <2>2, LeastBy
<1>2. p \in P /\ p \notin Stop
  BY <1>1 DEF Piece
<1>3. Goes[p] \in S \cap T /\ g[Goes[p]] # h[Goes[p]]
  BY <1>1, <1>2 DEF Piece
<1>4. m[Goes[p]] < m[p] /\ m[Goes[p]] \in Nat /\ m[p] \in Nat
  BY <1>2 DEF Descends
<1> QED
  BY <1>1, <1>3, <1>4

\* There is a piece that is defined at any given place.
LEMMA PieceOfEach ==
  ASSUME NEW P, NEW Stop, NEW Leaf, NEW Goes, NEW m, Descends(P, Stop, Goes, m)
  PROVE  \A p \in P : \E S, g : p \in S /\ Piece(P, Stop, Leaf, Goes, S, g)
<1> DEFINE B == {p \in P : ~ \E S, g : p \in S /\ Piece(P, Stop, Leaf, Goes, S, g)}
<1> SUFFICES ASSUME B # {} PROVE FALSE
  OBVIOUS
<1>1. PICK p \in B : \A q \in B : m[p] <= m[q]
  <2>1. m \in [P -> Nat] /\ B \in SUBSET P
    BY DEF Descends
  <2> HIDE DEF B
  <2> QED
    BY <2>1, LeastBy
<1>2. p \in P
  BY <1>1
<1>3. p \notin Stop
  <2> SUFFICES ASSUME p \in Stop PROVE FALSE
    OBVIOUS
  <2> DEFINE g == [q \in {p} |-> Leaf[q]]
  <2>1. Piece(P, Stop, Leaf, Goes, {p}, g)
    BY <1>2 DEF Piece
  <2> HIDE DEF g
  <2> QED
    BY <1>1, <2>1
<1>4. Goes[p] \in P /\ Goes[p] \notin B
  <2>1. m[Goes[p]] < m[p] /\ m[Goes[p]] \in Nat /\ m[p] \in Nat /\ Goes[p] \in P
    BY <1>2, <1>3 DEF Descends
  <2> HIDE DEF B
  <2> QED
    BY <1>1, <2>1
<1>5. PICK S, h : Goes[p] \in S /\ Piece(P, Stop, Leaf, Goes, S, h)
  BY <1>4
<1> DEFINE g == [q \in S \cup {p} |-> IF q \in S THEN h[q] ELSE h[Goes[p]]]
<1>6. Goes[p] \in S /\ S \subseteq P
      /\ \A q \in S : IF q \in Stop THEN h[q] = Leaf[q] ELSE Goes[q] \in S /\ h[q] = h[Goes[q]]
  BY <1>5 DEF Piece
<1>7. /\ \A q \in S : g[q] = h[q]
      /\ p \notin S => g[p] = g[Goes[p]]
      /\ g = [q \in S \cup {p} |-> g[q]]
  BY <1>6
<1> HIDE DEF g
<1>8. Piece(P, Stop, Leaf, Goes, S \cup {p}, g)
  BY <1>2, <1>3, <1>6, <1>7 DEF Piece
<1> QED
  BY <1>1, <1>8

\* There is a function that satisfies the equation of the search.
LEMMA SearchExists ==
  ASSUME NEW P, NEW Stop, NEW Leaf, NEW Goes, NEW m, Descends(P, Stop, Goes, m)
  PROVE  \E f : f = [p \in P |-> IF p \in Stop THEN Leaf[p] ELSE f[Goes[p]]]
<1> DEFINE Of(p) == CHOOSE v : \E S, g : p \in S /\ Piece(P, Stop, Leaf, Goes, S, g) /\ v = g[p]
           f == [p \in P |-> Of(p)]
<1>1. ASSUME NEW S, NEW g, Piece(P, Stop, Leaf, Goes, S, g), NEW p \in S PROVE Of(p) = g[p]
  <2>1. \E v : \E T, h : p \in T /\ Piece(P, Stop, Leaf, Goes, T, h) /\ v = h[p]
    BY <1>1
  <2>2. PICK T, h : p \in T /\ Piece(P, Stop, Leaf, Goes, T, h) /\ Of(p) = h[p]
    BY <2>1
  <2> QED
    BY <1>1, <2>2, PiecesAgree
<1> HIDE DEF Of
<1>2. ASSUME NEW p \in P PROVE f[p] = IF p \in Stop THEN Leaf[p] ELSE f[Goes[p]]
  <2>1. PICK S, g : p \in S /\ Piece(P, Stop, Leaf, Goes, S, g)
    BY PieceOfEach
  <2>2. f[p] = g[p] /\ (p \notin Stop => Goes[p] \in S /\ Goes[p] \in P /\ g[p] = g[Goes[p]])
        /\ (p \in Stop => g[p] = Leaf[p])
    BY <1>1, <2>1 DEF Piece
  <2>3. p \notin Stop => f[Goes[p]] = g[Goes[p]]
    BY <1>1, <2>1, <2>2
  <2> QED
    BY <2>2, <2>3
<1>3. f = [p \in P |-> IF p \in Stop THEN Leaf[p] ELSE f[Goes[p]]]
  <2>1. f = [p \in P |-> f[p]]
    OBVIOUS
  <2> HIDE DEF f
  <2> QED
    BY <1>2, <2>1
<1> HIDE DEF f
<1> QED
  BY <1>3

\* What holds where a search stops, and goes back along its way, holds of what it returns.
LEMMA SearchFinds ==
  ASSUME NEW P, NEW Stop, NEW Leaf, NEW Goes, NEW m, Descends(P, Stop, Goes, m),
         NEW f, f = [p \in P |-> IF p \in Stop THEN Leaf[p] ELSE f[Goes[p]]],
         NEW I \in SUBSET P, \A p \in I \ Stop : Goes[p] \in I,
         NEW Q,
         \A p \in I \cap Stop : <<p, Leaf[p]>> \in Q,
         \A p \in I \ Stop : \A v : <<Goes[p], v>> \in Q => <<p, v>> \in Q
  PROVE  \A p \in I : <<p, f[p]>> \in Q
<1> DEFINE B == {p \in I : <<p, f[p]>> \notin Q}
<1> SUFFICES ASSUME B # {} PROVE FALSE
  OBVIOUS
<1>1. PICK p \in B : \A q \in B : m[p] <= m[q]
  <2>1. m \in [P -> Nat] /\ B \in SUBSET P
    BY DEF Descends
  <2> HIDE DEF B
  <2> QED
    BY <2>1, LeastBy
<1>2. p \in P /\ f[p] = IF p \in Stop THEN Leaf[p] ELSE f[Goes[p]]
  <2>1. \A q \in P : f[q] = IF q \in Stop THEN Leaf[q] ELSE f[Goes[q]]
    OBVIOUS
  <2> QED
    BY <1>1, <2>1
<1>3. p \notin Stop
  BY <1>1, <1>2
<1>4. Goes[p] \in I /\ <<Goes[p], f[Goes[p]]>> \notin Q
  BY <1>1, <1>2, <1>3
<1>5. m[Goes[p]] < m[p] /\ m[Goes[p]] \in Nat /\ m[p] \in Nat
  BY <1>2, <1>3 DEF Descends
<1> QED
  BY <1>1, <1>4, <1>5

-----------------------------------------------------------------------------
(* The two searches. *)

\* The way of LowestPaying.
Pairs == Nat \X Nat
Met == {p \in Pairs : p[1] >= p[2]}
Width == [p \in Pairs |-> IF p \in Met THEN 0 ELSE p[2] - p[1]]
UpperEnd == [p \in Pairs |-> p[2]]
LowerEnd == [p \in Pairs |-> p[1]]
TowardsPaying(minFee, Fee) ==
  [p \in Pairs |-> IF p \in Met THEN p
                   ELSE IF Fee[(p[1] + p[2]) \div 2] >= minFee THEN <<p[1], (p[1] + p[2]) \div 2>>
                   ELSE <<(p[1] + p[2]) \div 2 + 1, p[2]>>]

\* The middle of two different numbers, rounded down or up, stays between them.
LEMMA Halves ==
  ASSUME NEW l \in Nat, NEW h \in Nat, l < h
  PROVE  /\ (l + h) \div 2 \in Nat /\ l <= (l + h) \div 2 /\ (l + h) \div 2 < h
         /\ (l + h + 1) \div 2 \in Nat /\ l < (l + h + 1) \div 2 /\ (l + h + 1) \div 2 <= h
OBVIOUS

\* LowestPaying halves its range with every step.
LEMMA TowardsPayingDescends ==
  ASSUME NEW minFee, NEW Fee
  PROVE  Descends(Pairs, Met, TowardsPaying(minFee, Fee), Width)
<1> DEFINE G == TowardsPaying(minFee, Fee)
<1>1. ASSUME NEW p \in Pairs \ Met
      PROVE  G[p] \in Pairs /\ Width[G[p]] < Width[p]
  <2> DEFINE l == p[1]
             h == p[2]
             mid == (l + h) \div 2
  <2>1. l \in Nat /\ h \in Nat /\ l < h /\ p = <<l, h>> /\ Width[p] = h - l
    BY DEF Pairs, Met, Width
  <2>2. mid \in Nat /\ l <= mid /\ mid < h
    BY <2>1, Halves
  <2>3. G[p] = <<l, mid>> \/ G[p] = <<mid + 1, h>>
    BY DEF TowardsPaying
  <2> HIDE DEF G, l, h, mid
  <2>4. CASE G[p] = <<l, mid>>
    BY <2>1, <2>2, <2>4 DEF Pairs, Met, Width
  <2>5. CASE G[p] = <<mid + 1, h>>
    BY <2>1, <2>2, <2>5 DEF Pairs, Met, Width
  <2> QED
    BY <2>3, <2>4, <2>5
<1>2. G \in [Pairs -> Pairs]
  <2>1. \A p \in Pairs : G[p] \in Pairs
    BY <1>1 DEF TowardsPaying
  <2> QED
    BY <2>1 DEF TowardsPaying
<1>3. Width \in [Pairs -> Nat] /\ Met \subseteq Pairs
  BY DEF Width, Met, Pairs
<1> HIDE DEF G
<1>4. Descends(Pairs, Met, G, Width)
  BY <1>1, <1>2, <1>3 DEF Descends
<1> QED
  BY <1>4 DEF G

\* LowestPaying (fitPriorityForMinTaskFee) returns what a search along this way returns.
LEMMA LowestPayingIsSearch ==
  ASSUME NEW lo \in Nat, NEW hi \in Nat, NEW minFee, NEW Fee
  PROVE  \E f : /\ f = [p \in Pairs |-> IF p \in Met THEN UpperEnd[p] ELSE f[TowardsPaying(minFee, Fee)[p]]]
                /\ LowestPaying(lo, hi, minFee, Fee) = f[<<lo, hi>>]
<1> DEFINE Body(f) == [p \in Nat \X Nat |->
             IF p[1] >= p[2] THEN p[2]
             ELSE IF Fee[(p[1] + p[2]) \div 2] >= minFee THEN f[<<p[1], (p[1] + p[2]) \div 2>>]
             ELSE f[<<(p[1] + p[2]) \div 2 + 1, p[2]>>]]
           f == CHOOSE f : f = Body(f)
<1>1. LowestPaying(lo, hi, minFee, Fee) = f[<<lo, hi>>]
  BY DEF LowestPaying
<1>2. ASSUME NEW g
      PROVE Body(g) = [p \in Pairs |-> IF p \in Met THEN UpperEnd[p] ELSE g[TowardsPaying(minFee, Fee)[p]]]
  <2> DEFINE s == Body(g)
             t == [p \in Pairs |-> IF p \in Met THEN UpperEnd[p] ELSE g[TowardsPaying(minFee, Fee)[p]]]
  <2>1. ASSUME NEW l \in Nat, NEW h \in Nat
        PROVE  s[<<l, h>>] = t[<<l, h>>]
    BY DEF Pairs, Met, UpperEnd, TowardsPaying
  <2>2. s = [p \in Pairs |-> s[p]]
    BY DEF Pairs
  <2>3. t = [p \in Pairs |-> t[p]]
    OBVIOUS
  <2> HIDE DEF s, t
  <2>4. \A p \in Pairs : s[p] = t[p]
    BY <2>1 DEF Pairs
  <2>5. s = t
    BY <2>2, <2>3, <2>4
  <2> QED
    BY <2>5 DEF s, t
<1> HIDE DEF Body
<1>3. \E g : g = Body(g)
  <2>1. Descends(Pairs, Met, TowardsPaying(minFee, Fee), Width)
    BY TowardsPayingDescends
  <2>2. PICK g : g = [p \in Pairs |-> IF p \in Met THEN UpperEnd[p] ELSE g[TowardsPaying(minFee, Fee)[p]]]
    BY <2>1, SearchExists
  <2> QED
    BY <1>2, <2>2
<1>4. f = Body(f)
  BY <1>3
<1> HIDE DEF f
<1> QED
  BY <1>1, <1>2, <1>4

\* Fees, and Credits, do not fall when the priority rises.
Grows(Fee, lo, hi) ==
  /\ \A p \in lo..hi : Fee[p] \in Nat
  /\ \A p, q \in lo..hi : p <= q => Fee[p] <= Fee[q]

\* LowestPaying returns the lowest priority that pays.
LEMMA LowestPayingFinds ==
  ASSUME NEW lo \in Nat, NEW hi \in Nat, lo <= hi, NEW minFee \in Nat,
         NEW Fee, Grows(Fee, lo, hi), Fee[hi] >= minFee
  PROVE  LET p == LowestPaying(lo, hi, minFee, Fee)
         IN p \in lo..hi /\ Fee[p] >= minFee /\ \A q \in lo..hi : Fee[q] >= minFee => p <= q
<1> DEFINE G == TowardsPaying(minFee, Fee)
           I == {p \in Pairs : /\ lo <= p[1] /\ p[1] <= p[2] /\ p[2] <= hi /\ Fee[p[2]] >= minFee
                               /\ \A q \in lo..hi : q < p[1] => Fee[q] < minFee}
           V == {p \in lo..hi : Fee[p] >= minFee /\ \A q \in lo..hi : Fee[q] >= minFee => p <= q}
           Q == Pairs \X V
<1>1. PICK f : /\ f = [p \in Pairs |-> IF p \in Met THEN UpperEnd[p] ELSE f[G[p]]]
               /\ LowestPaying(lo, hi, minFee, Fee) = f[<<lo, hi>>]
  BY LowestPayingIsSearch
<1>2. Descends(Pairs, Met, G, Width)
  BY TowardsPayingDescends
<1>3. ASSUME NEW p \in I \ Met PROVE G[p] \in I
  <2> DEFINE l == p[1]
             h == p[2]
             mid == (l + h) \div 2
  <2>1. /\ l \in Nat /\ h \in Nat /\ l < h /\ p = <<l, h>> /\ p \in Pairs \ Met
        /\ lo <= l /\ h <= hi /\ Fee[h] >= minFee /\ \A q \in lo..hi : q < l => Fee[q] < minFee
    BY DEF Pairs, Met
  <2>2. mid \in Nat /\ l <= mid /\ mid < h
    BY <2>1, Halves
  <2>3. G[p] = IF Fee[mid] >= minFee THEN <<l, mid>> ELSE <<mid + 1, h>>
    BY <2>1 DEF TowardsPaying
  <2> HIDE DEF G, l, h, mid
  <2>4. mid \in lo..hi /\ Fee[mid] \in Nat /\ \A q \in lo..hi : Fee[q] \in Nat /\ (q <= mid => Fee[q] <= Fee[mid])
    BY <2>1, <2>2 DEF Grows
  <2>5. CASE Fee[mid] >= minFee
    <3>1. G[p] = <<l, mid>>
      BY <2>3, <2>5
    <3> QED
      BY <2>1, <2>2, <2>5, <3>1 DEF Pairs
  <2>6. CASE ~(Fee[mid] >= minFee)
    <3>1. G[p] = <<mid + 1, h>>
      BY <2>3, <2>6
    <3>2. \A q \in lo..hi : q < mid + 1 => Fee[q] < minFee
      BY <2>2, <2>4, <2>6
    <3> QED
      BY <2>1, <2>2, <3>1, <3>2 DEF Pairs
  <2> QED
    BY <2>5, <2>6
<1>4. \A p \in I \cap Met : <<p, UpperEnd[p]>> \in Q
  <2> SUFFICES ASSUME NEW p \in I \cap Met PROVE UpperEnd[p] \in V
    OBVIOUS
  <2>1. p[1] \in Nat /\ p[2] \in Nat /\ p[1] = p[2] /\ UpperEnd[p] = p[2]
    BY DEF Pairs, Met, UpperEnd
  <2>2. p[2] \in lo..hi
    BY <2>1
  <2> QED
    BY <2>1, <2>2 DEF Grows
<1>5. \A p \in I \ Met : \A v : <<G[p], v>> \in Q => <<p, v>> \in Q
  OBVIOUS
<1>6. I \in SUBSET Pairs /\ <<lo, hi>> \in I
  BY DEF Pairs, Grows
<1> HIDE DEF I, Q, G
<1>7. \A p \in I : <<p, f[p]>> \in Q
  BY <1>1, <1>2, <1>3, <1>4, <1>5, <1>6, SearchFinds
<1>8. f[<<lo, hi>>] \in V
  BY <1>6, <1>7 DEF Q
<1> QED
  BY <1>1, <1>8

\* The way of MaxPriorityWithinAutoMaxCredits.
TowardsBudget(prow, Fee) ==
  [p \in Pairs |-> IF p \in Met THEN p
                   ELSE IF Affordable(prow, Fee[(p[1] + p[2] + 1) \div 2] * FeeScale)
                        THEN <<(p[1] + p[2] + 1) \div 2, p[2]>>
                   ELSE <<p[1], (p[1] + p[2] + 1) \div 2 - 1>>]

\* MaxPriorityWithinAutoMaxCredits halves its range with every step.
LEMMA TowardsBudgetDescends ==
  ASSUME NEW prow, NEW Fee
  PROVE  Descends(Pairs, Met, TowardsBudget(prow, Fee), Width)
<1> DEFINE G == TowardsBudget(prow, Fee)
<1>1. ASSUME NEW p \in Pairs \ Met
      PROVE  G[p] \in Pairs /\ Width[G[p]] < Width[p]
  <2> DEFINE l == p[1]
             h == p[2]
             mid == (l + h + 1) \div 2
  <2>1. l \in Nat /\ h \in Nat /\ l < h /\ p = <<l, h>> /\ Width[p] = h - l
    BY DEF Pairs, Met, Width
  <2>2. mid \in Nat /\ l < mid /\ mid <= h
    BY <2>1, Halves
  <2>3. G[p] = <<mid, h>> \/ G[p] = <<l, mid - 1>>
    BY DEF TowardsBudget
  <2> HIDE DEF G, l, h, mid
  <2>4. CASE G[p] = <<mid, h>>
    BY <2>1, <2>2, <2>4 DEF Pairs, Met, Width
  <2>5. CASE G[p] = <<l, mid - 1>>
    BY <2>1, <2>2, <2>5 DEF Pairs, Met, Width
  <2> QED
    BY <2>3, <2>4, <2>5
<1>2. G \in [Pairs -> Pairs]
  <2>1. \A p \in Pairs : G[p] \in Pairs
    BY <1>1 DEF TowardsBudget
  <2> QED
    BY <2>1 DEF TowardsBudget
<1>3. Width \in [Pairs -> Nat] /\ Met \subseteq Pairs
  BY DEF Width, Met, Pairs
<1> HIDE DEF G
<1>4. Descends(Pairs, Met, G, Width)
  BY <1>1, <1>2, <1>3 DEF Descends
<1> QED
  BY <1>4 DEF G

\* The priority the search returns, when there is one.
LEMMA BudgetIsSearch ==
  ASSUME NEW prow, NEW Fee, MinPriority \in Nat, MaxPriority \in Nat
  PROVE  \E f : /\ f = [p \in Pairs |-> IF p \in Met THEN LowerEnd[p] ELSE f[TowardsBudget(prow, Fee)[p]]]
                /\ MaxPriorityWithinAutoMaxCredits(prow, Fee) =
                     IF prow.maxCredits = 0 THEN Rejected("auto_max_credits_required")
                     ELSE IF ~Affordable(prow, Fee[MinPriority] * FeeScale)
                          THEN Rejected("auto_max_credits_insufficient")
                     ELSE Accepted(f[<<MinPriority, MaxPriority>>])
<1> DEFINE Body(f) == [p \in Nat \X Nat |->
             IF p[1] >= p[2] THEN p[1]
             ELSE IF Affordable(prow, Fee[(p[1] + p[2] + 1) \div 2] * FeeScale)
                  THEN f[<<(p[1] + p[2] + 1) \div 2, p[2]>>]
             ELSE f[<<p[1], (p[1] + p[2] + 1) \div 2 - 1>>]]
           f == CHOOSE f : f = Body(f)
<1>1. MaxPriorityWithinAutoMaxCredits(prow, Fee) =
        IF prow.maxCredits = 0 THEN Rejected("auto_max_credits_required")
        ELSE IF ~Affordable(prow, Fee[MinPriority] * FeeScale) THEN Rejected("auto_max_credits_insufficient")
        ELSE Accepted(f[<<MinPriority, MaxPriority>>])
  BY DEF MaxPriorityWithinAutoMaxCredits
<1>2. ASSUME NEW g
      PROVE Body(g) = [p \in Pairs |-> IF p \in Met THEN LowerEnd[p] ELSE g[TowardsBudget(prow, Fee)[p]]]
  <2> DEFINE s == Body(g)
             t == [p \in Pairs |-> IF p \in Met THEN LowerEnd[p] ELSE g[TowardsBudget(prow, Fee)[p]]]
  <2>1. ASSUME NEW l \in Nat, NEW h \in Nat
        PROVE  s[<<l, h>>] = t[<<l, h>>]
    BY DEF Pairs, Met, LowerEnd, TowardsBudget
  <2>2. s = [p \in Pairs |-> s[p]]
    BY DEF Pairs
  <2>3. t = [p \in Pairs |-> t[p]]
    OBVIOUS
  <2> HIDE DEF s, t
  <2>4. \A p \in Pairs : s[p] = t[p]
    BY <2>1 DEF Pairs
  <2>5. s = t
    BY <2>2, <2>3, <2>4
  <2> QED
    BY <2>5 DEF s, t
<1> HIDE DEF Body
<1>3. \E g : g = Body(g)
  <2>1. Descends(Pairs, Met, TowardsBudget(prow, Fee), Width)
    BY TowardsBudgetDescends
  <2>2. PICK g : g = [p \in Pairs |-> IF p \in Met THEN LowerEnd[p] ELSE g[TowardsBudget(prow, Fee)[p]]]
    BY <2>1, SearchExists
  <2> QED
    BY <1>2, <2>2
<1>4. f = Body(f)
  BY <1>3
<1> HIDE DEF f
<1> QED
  BY <1>1, <1>2, <1>4

-----------------------------------------------------------------------------
(* Amounts, fees and Credits. *)

\* Products of numbers are numbers and grow with their factors.
LEMMA Products ==
  ASSUME NEW a \in Nat, NEW b \in Nat, NEW c \in Nat
  PROVE  /\ a * c \in Nat /\ c * a \in Nat
         /\ a <= b => a * c <= b * c /\ c * a <= c * b
OBVIOUS

\* Products of positive numbers are positive.
LEMMA PositiveProduct ==
  ASSUME NEW a \in Nat \ {0}, NEW b \in Nat \ {0}
  PROVE  a * b \in Nat \ {0}
OBVIOUS

\* Division rounds down, by less than the divisor, and keeps the order.
LEMMA Quotients ==
  ASSUME NEW a \in Nat, NEW b \in Nat, NEW c \in Nat \ {0}
  PROVE  /\ a \div c \in Nat /\ (a \div c) * c <= a /\ a < (a \div c + 1) * c
         /\ a <= b => a \div c <= b \div c
<1>1. /\ a \div c \in Nat /\ b \div c \in Nat
      /\ a = c * (a \div c) + (a % c) /\ b = c * (b \div c) + (b % c)
      /\ a % c \in 0..(c - 1) /\ b % c \in 0..(c - 1)
  OBVIOUS
<1>2. ASSUME NEW x \in Nat, NEW y \in Nat, NEW r \in 0..(c - 1), NEW s \in 0..(c - 1), c * x + r <= c * y + s
      PROVE  x <= y
  <2>1. SUFFICES ASSUME y + 1 <= x PROVE FALSE
    BY <1>2
  <2>2. c * (y + 1) <= c * x
    BY <2>1, Products
  <2>3. c * (y + 1) = c * y + c
    OBVIOUS
  <2> QED
    BY <1>2, <2>2, <2>3
<1>3. (a \div c) * c = c * (a \div c) /\ (a \div c + 1) * c = c * (a \div c) + c
  BY <1>1
<1> QED
  BY <1>1, <1>2, <1>3

\* What the configuration's checks leave of the constants.
LEMMA ConstantsTyped ==
  /\ MinPriority \in Nat \ {0} /\ MaxPriority \in Nat \ {0} /\ MinPriority <= MaxPriority
  /\ SecondScale \in Nat \ {0} /\ BaseVram \in Nat \ {0} /\ FeeScale \in Nat \ {0}
  /\ Rate.n \in Nat \ {0} /\ Rate.d \in Nat \ {0} /\ FeeScale * Rate.d \in Nat \ {0}
  /\ MaxTaskFee["crynux"] \in Nat \ {0}
<1>1. /\ MinPriority \in Nat \ {0} /\ MaxPriority \in Nat \ {0} /\ MinPriority <= MaxPriority
      /\ SecondScale \in Nat \ {0} /\ BaseVram \in Nat \ {0}
      /\ Rate.n \in Nat \ {0} /\ Rate.d \in Nat \ {0} /\ MaxTaskFee["crynux"] \in Nat \ {0}
  BY PricingAssumption DEF LLMConfigIsChecked, MaxTaskPricesAreChecked
<1>2. FeeScale \in Nat \ {0}
  BY <1>1, PositiveProduct DEF FeeScale
<1> QED
  BY <1>1, <1>2, PositiveProduct

\* CalculateTaskFeeCreditsFromWei: a larger amount is worth at least as many Credits, and at least one.
LEMMA CreditsGrow ==
  ASSUME NEW a \in Nat, NEW b \in Nat
  PROVE  /\ Credits(a) \in Nat /\ Credits(a) >= 1
         /\ a <= b => Credits(a) <= Credits(b)
<1>1. Rate.n \in Nat /\ FeeScale * Rate.d \in Nat \ {0}
  BY ConstantsTyped
<1> DEFINE x == a * Rate.n
           y == b * Rate.n
           c == FeeScale * Rate.d
<1>2. x \in Nat /\ y \in Nat /\ (a <= b => x <= y)
  BY <1>1, Products
<1>3. Credits(a) = Larger(1, x \div c) /\ Credits(b) = Larger(1, y \div c)
  BY DEF Credits
<1>4. c \in Nat \ {0}
  BY <1>1
<1> HIDE DEF x, y, c
<1>5. x \div c \in Nat /\ y \div c \in Nat /\ (x <= y => x \div c <= y \div c)
  BY <1>2, <1>4, Quotients
<1> QED
  BY <1>2, <1>3, <1>5 DEF Larger

\* A priority below an affordable one is affordable.
LEMMA AffordableGrows ==
  ASSUME NEW prow, prow.maxCredits \in Nat, NEW Fee, Grows(Fee, MinPriority, MaxPriority),
         NEW p \in MinPriority..MaxPriority, NEW q \in MinPriority..MaxPriority, p <= q,
         Affordable(prow, Fee[q] * FeeScale)
  PROVE  Affordable(prow, Fee[p] * FeeScale)
<1>1. Fee[p] \in Nat /\ Fee[q] \in Nat /\ Fee[p] <= Fee[q]
  BY DEF Grows
<1>2. FeeScale \in Nat
  BY ConstantsTyped
<1>3. Fee[p] * FeeScale \in Nat /\ Fee[q] * FeeScale \in Nat /\ Fee[p] * FeeScale <= Fee[q] * FeeScale
  BY <1>1, <1>2, Products
<1> QED
  BY <1>3, CreditsGrow DEF Affordable

\* MaxPriorityWithinAutoMaxCredits returns the highest affordable priority, and
\* an error when there is none.
LEMMA BudgetFinds ==
  ASSUME NEW prow, prow.maxCredits \in Nat, NEW Fee, Grows(Fee, MinPriority, MaxPriority)
  PROVE  LET top == MaxPriorityWithinAutoMaxCredits(prow, Fee)
             affordable == {p \in MinPriority..MaxPriority : Affordable(prow, Fee[p] * FeeScale)}
         IN \/ top.error # "none" /\ affordable = {} /\ top = Rejected(top.error)
            \/ top.error = "none" /\ top.priority \in affordable /\ top = Accepted(top.priority)
               /\ affordable = MinPriority..top.priority
<1> DEFINE lo == MinPriority
           hi == MaxPriority
           G == TowardsBudget(prow, Fee)
           A(p) == Affordable(prow, Fee[p] * FeeScale)
           affordable == {p \in lo..hi : A(p)}
           top == MaxPriorityWithinAutoMaxCredits(prow, Fee)
           I == {p \in Pairs : /\ lo <= p[1] /\ p[1] <= p[2] /\ p[2] <= hi /\ A(p[1])
                               /\ \A q \in lo..hi : q > p[2] => ~A(q)}
           V == {p \in lo..hi : A(p) /\ \A q \in lo..hi : A(q) => q <= p}
           Q == Pairs \X V
<1>0. lo \in Nat /\ hi \in Nat /\ lo <= hi
  BY ConstantsTyped
<1>1. \A p, q \in lo..hi : p <= q /\ A(q) => A(p)
  BY AffordableGrows
<1>2. PICK f : /\ f = [p \in Pairs |-> IF p \in Met THEN LowerEnd[p] ELSE f[G[p]]]
               /\ top = IF prow.maxCredits = 0 THEN Rejected("auto_max_credits_required")
                        ELSE IF ~A(lo) THEN Rejected("auto_max_credits_insufficient")
                        ELSE Accepted(f[<<lo, hi>>])
  BY <1>0, BudgetIsSearch
<1>3. CASE prow.maxCredits = 0
  <2>1. \A p \in lo..hi : ~A(p)
    <3> SUFFICES ASSUME NEW p \in lo..hi PROVE ~A(p)
      OBVIOUS
    <3>1. Fee[p] * FeeScale \in Nat
      <4>1. Fee[p] \in Nat /\ FeeScale \in Nat
        BY ConstantsTyped DEF Grows
      <4> QED
        BY <4>1, Products
    <3> HIDE DEF A
    <3>2. Credits(Fee[p] * FeeScale) >= 1 /\ Credits(Fee[p] * FeeScale) \in Nat
      BY <3>1, CreditsGrow
    <3> QED
      BY <1>3, <3>2 DEF A, Affordable
  <2>2. affordable = {}
    BY <2>1
  <2>3. top = Rejected("auto_max_credits_required")
    BY <1>2, <1>3
  <2> HIDE DEF top, affordable
  <2>4. top.error # "none" /\ top = Rejected(top.error)
    BY <2>3 DEF Rejected
  <2> QED
    BY <2>2, <2>4 DEF A, top, affordable
<1>4. CASE prow.maxCredits # 0 /\ ~A(lo)
  <2> HIDE DEF A
  <2>1. \A p \in lo..hi : ~A(p)
    BY <1>0, <1>1, <1>4
  <2>2. affordable = {}
    BY <2>1
  <2>3. top = Rejected("auto_max_credits_insufficient")
    BY <1>2, <1>4
  <2> HIDE DEF top, affordable
  <2>4. top.error # "none" /\ top = Rejected(top.error)
    BY <2>3 DEF Rejected
  <2> QED
    BY <2>2, <2>4 DEF A, top, affordable
<1>5. CASE prow.maxCredits # 0 /\ A(lo)
  <2>1. Descends(Pairs, Met, G, Width)
    BY TowardsBudgetDescends
  <2>2. ASSUME NEW p \in I \ Met PROVE G[p] \in I
    <3> DEFINE l == p[1]
               h == p[2]
               mid == (l + h + 1) \div 2
    <3>1. /\ l \in Nat /\ h \in Nat /\ l < h /\ p = <<l, h>> /\ p \in Pairs \ Met
          /\ lo <= l /\ h <= hi /\ A(l) /\ \A q \in lo..hi : q > h => ~A(q)
      BY DEF Pairs, Met
    <3>2. mid \in Nat /\ l < mid /\ mid <= h
      BY <3>1, Halves
    <3>3. G[p] = IF A(mid) THEN <<mid, h>> ELSE <<l, mid - 1>>
      BY <3>1 DEF TowardsBudget
    <3> HIDE DEF G, l, h, mid, A
    <3>4. mid \in lo..hi
      BY <1>0, <3>1, <3>2
    <3>5. CASE A(mid)
      <4>1. G[p] = <<mid, h>>
        BY <3>3, <3>5
      <4>2. G[p] \in Pairs /\ G[p][1] = mid /\ G[p][2] = h
        BY <3>1, <3>2, <4>1 DEF Pairs
      <4>3. A(G[p][1])
        BY <3>5, <4>2
      <4>4. /\ lo <= G[p][1] /\ G[p][1] <= G[p][2] /\ G[p][2] <= hi
            /\ \A q \in lo..hi : q > G[p][2] => ~A(q)
        BY <1>0, <3>1, <3>2, <4>2
      <4> QED
        BY <4>2, <4>3, <4>4, Zenon
    <3>6. CASE ~A(mid)
      <4>1. G[p] = <<l, mid - 1>>
        BY <3>3, <3>6
      <4>2. \A q \in lo..hi : q > mid - 1 => ~A(q)
        BY <1>0, <1>1, <3>2, <3>4, <3>6
      <4>3. G[p] \in Pairs /\ G[p][1] = l /\ G[p][2] = mid - 1
        BY <3>1, <3>2, <4>1 DEF Pairs
      <4>4. A(G[p][1]) /\ \A q \in lo..hi : q > G[p][2] => ~A(q)
        BY <3>1, <4>2, <4>3
      <4>5. lo <= G[p][1] /\ G[p][1] <= G[p][2] /\ G[p][2] <= hi
        BY <1>0, <3>1, <3>2, <4>3
      <4> QED
        BY <4>3, <4>4, <4>5, Zenon
    <3> QED
      BY <3>5, <3>6
  <2>3. \A p \in I \cap Met : <<p, LowerEnd[p]>> \in Q
    <3> SUFFICES ASSUME NEW p \in I \cap Met PROVE LowerEnd[p] \in V
      OBVIOUS
    <3>1. p[1] \in Nat /\ p[2] \in Nat /\ p[1] = p[2] /\ LowerEnd[p] = p[1]
      BY DEF Pairs, Met, LowerEnd
    <3> HIDE DEF A
    <3>2. p[1] \in lo..hi
      BY <1>0, <3>1
    <3> QED
      BY <1>0, <3>1, <3>2
  <2>4. \A p \in I \ Met : \A v : <<G[p], v>> \in Q => <<p, v>> \in Q
    OBVIOUS
  <2> HIDE DEF A
  <2>5. I \in SUBSET Pairs /\ <<lo, hi>> \in I
    BY <1>0, <1>5 DEF Pairs
  <2> HIDE DEF I, Q, G
  <2>6. \A p \in I : <<p, f[p]>> \in Q
    BY <1>2, <2>1, <2>2, <2>3, <2>4, <2>5, SearchFinds
  <2>7. f[<<lo, hi>>] \in V
    BY <2>5, <2>6 DEF Q
  <2> DEFINE t == f[<<lo, hi>>]
  <2> HIDE DEF t
  <2>8. t \in V
    BY <2>7 DEF t
  <2>9. affordable = lo..t
    BY <1>0, <1>1, <2>8
  <2>10. top = Accepted(t)
    BY <1>2, <1>5 DEF t
  <2> HIDE DEF top
  <2>11. top.error = "none" /\ top.priority = t
    BY <2>10 DEF Accepted
  <2>12. top.priority \in affordable
    BY <2>8, <2>11
  <2>13. top.error = "none" /\ top.priority \in affordable /\ top = Accepted(top.priority) /\ affordable = lo..top.priority
    BY <2>9, <2>10, <2>11, <2>12
  <2> QED
    BY <2>13 DEF A, top
<1> QED
  BY <1>3, <1>4, <1>5

-----------------------------------------------------------------------------
(* Extremes of finite sets. *)

\* A nonempty finite set has a member that no other is better than: R holds the
\* pairs <<x, y>> with x better than y.
LEMMA FiniteBest ==
  ASSUME NEW S, IsFiniteSet(S), S # {}, NEW R,
         \A x, y, z \in S : <<x, y>> \in R /\ <<y, z>> \in R => <<x, z>> \in R,
         \A x \in S : <<x, x>> \notin R
  PROVE  \E x \in S : \A y \in S : <<y, x>> \notin R
<1> DEFINE B(x) == {y \in S : <<y, x>> \in R}
           m == [x \in S |-> Cardinality(B(x))]
<1>1. ASSUME NEW x \in S PROVE IsFiniteSet(B(x)) /\ Cardinality(B(x)) \in Nat
  <2>1. B(x) \in SUBSET S
    OBVIOUS
  <2> HIDE DEF B
  <2>2. IsFiniteSet(B(x))
    BY <2>1, FS_Subset
  <2> QED
    BY <2>2, FS_CardinalityType
<1>2. m \in [S -> Nat]
  <2> HIDE DEF B
  <2> QED
    BY <1>1
<1>3. PICK x \in S : \A y \in S : m[x] <= m[y]
  <2> HIDE DEF m
  <2> QED
    BY <1>2, LeastBy
<1>4. ASSUME NEW y \in S, <<y, x>> \in R PROVE FALSE
  <2>1. B(y) \in SUBSET B(x)
    BY <1>4
  <2>2. y \in B(x) /\ y \notin B(y)
    BY <1>4
  <2> HIDE DEF B
  <2>3. Cardinality(B(y)) <= Cardinality(B(x)) /\ Cardinality(B(y)) # Cardinality(B(x))
    BY <1>1, <2>1, <2>2, FS_Subset
  <2>4. Cardinality(B(x)) <= Cardinality(B(y))
    BY <1>3
  <2> QED
    BY <1>1, <2>3, <2>4
<1> QED
  BY <1>3, <1>4

\* Max returns the greatest member of a nonempty finite set.
LEMMA GreatestIsMax ==
  ASSUME NEW S \in SUBSET Nat, IsFiniteSet(S), S # {}
  PROVE  Max(S) \in S /\ \A y \in S : y <= Max(S)
<1> DEFINE R == {p \in Nat \X Nat : p[1] > p[2]}
<1>1. \A x, y, z \in S : <<x, y>> \in R /\ <<y, z>> \in R => <<x, z>> \in R
  OBVIOUS
<1>2. \A x \in S : <<x, x>> \notin R
  OBVIOUS
<1> HIDE DEF R
<1>3. PICK x \in S : \A y \in S : <<y, x>> \notin R
  BY <1>1, <1>2, FiniteBest
<1>4. ASSUME NEW y \in S PROVE x >= y
  <2>1. <<y, x>> \notin R /\ x \in Nat /\ y \in Nat
    BY <1>3
  <2>2. ~(y > x)
    BY <2>1 DEF R
  <2> QED
    BY <2>1, <2>2
<1>5. \E z \in S : \A y \in S : z >= y
  BY <1>4
<1>6. Max(S) \in S /\ \A y \in S : Max(S) >= y
  BY <1>5 DEF Max
<1> QED
  BY <1>6

\* Min returns the least member of a nonempty set.
LEMMA LeastIsMin ==
  ASSUME NEW S \in SUBSET Nat, S # {}
  PROVE  Min(S) \in S /\ \A y \in S : Min(S) <= y
<1>1. \E x \in S : \A y \in S : x <= y
  BY Least
<1> QED
  BY <1>1 DEF Min

-----------------------------------------------------------------------------
(* Admission on Crynux. *)

\* enforceAdmissionMinTaskFee chooses the lowest of the affordable priorities
\* that pay the minimum fee and are not below the wish, or the highest
\* affordable one when the wish is beyond it; it refuses when there is none, and
\* then no other affordable priority of an Auto project would have paid either.
THEOREM CrynuxAdmission ==
  ASSUME NEW row, row.maxCredits \in Nat, row.mode \in {"static", "auto"},
         NEW wish \in MinPriority..MaxPriority, NEW minFee \in Nat,
         NEW Fee, Grows(Fee, MinPriority, MaxPriority)
  PROVE  LET offer == EnforceMinTaskFee(row, wish, minFee, Fee)
             affordable == {p \in MinPriority..MaxPriority : Affordable(row, Fee[p] * FeeScale)}
             willing == IF row.mode = "static" THEN {p \in {wish} : p \in affordable}
                        ELSE {p \in affordable : p >= wish \/ \A q \in affordable : q <= p}
             paying == {p \in willing : Fee[p] >= minFee}
         IN \/ /\ offer.error = "none" /\ offer.priority \in paying
               /\ \A q \in paying : offer.priority <= q
            \/ /\ offer.error # "none" /\ offer = Rejected(offer.error) /\ paying = {}
               /\ row.mode = "auto" => \A p \in affordable : Fee[p] < minFee
<1> DEFINE offer == EnforceMinTaskFee(row, wish, minFee, Fee)
           affordable == {p \in MinPriority..MaxPriority : Affordable(row, Fee[p] * FeeScale)}
           willing == IF row.mode = "static" THEN {p \in {wish} : p \in affordable}
                      ELSE {p \in affordable : p >= wish \/ \A q \in affordable : q <= p}
           paying == {p \in willing : Fee[p] >= minFee}
           top == MaxPriorityWithinAutoMaxCredits(row, Fee)
           capped == Smaller(wish, top.priority)
<1>0. MinPriority \in Nat /\ MaxPriority \in Nat /\ MinPriority <= MaxPriority
  BY ConstantsTyped
<1>1. CASE row.mode = "static"
  <2> DEFINE static == StaticCreditsError(row, Fee[wish] * FeeScale)
  <2>1. offer = IF static # "none" THEN Rejected(static)
                ELSE IF Fee[wish] < minFee THEN Rejected("task_fee_below_minimum") ELSE Accepted(wish)
    BY <1>1 DEF EnforceMinTaskFee
  <2>2. static = "none" <=> wish \in affordable
    <3>1. Credits(Fee[wish] * FeeScale) >= 1 /\ Credits(Fee[wish] * FeeScale) \in Nat
      <4>1. Fee[wish] \in Nat /\ FeeScale \in Nat
        BY ConstantsTyped DEF Grows
      <4> QED
        BY <4>1, Products, CreditsGrow
    <3> QED
      BY <3>1 DEF StaticCreditsError, Affordable
  <2>3. Fee[wish] \in Nat
    BY DEF Grows
  <2>4. paying = {p \in {wish} : p \in affordable /\ Fee[p] >= minFee}
    BY <1>1
  <2> HIDE DEF static, affordable, willing, paying, offer
  <2>5. CASE offer = Accepted(wish) /\ static = "none" /\ Fee[wish] >= minFee
    <3>1. offer.error = "none" /\ offer.priority = wish
      BY <2>5 DEF Accepted
    <3>2. paying = {wish}
      BY <2>2, <2>4, <2>5
    <3> QED
      BY <3>1, <3>2 DEF offer, affordable, willing, paying
  <2>6. CASE ~(static = "none" /\ Fee[wish] >= minFee)
    <3>1. offer.error # "none" /\ offer = Rejected(offer.error)
      BY <2>1, <2>3, <2>6 DEF Rejected
    <3>2. paying = {}
      BY <2>2, <2>4, <2>6
    <3> QED
      BY <1>1, <3>1, <3>2 DEF offer, affordable, willing, paying
  <2> QED
    BY <2>1, <2>3, <2>5, <2>6
<1>2. CASE row.mode = "auto"
  <2>1. offer = IF top.error # "none" THEN top
                ELSE IF Fee[capped] >= minFee THEN Accepted(capped)
                ELSE IF Fee[top.priority] < minFee THEN Rejected("auto_max_credits_insufficient")
                ELSE Accepted(LowestPaying(capped, top.priority, minFee, Fee))
    BY <1>2 DEF EnforceMinTaskFee
  <2>2. \/ top.error # "none" /\ affordable = {} /\ top = Rejected(top.error)
        \/ top.error = "none" /\ top.priority \in affordable /\ affordable = MinPriority..top.priority
    BY BudgetFinds
  <2>3. willing = {p \in affordable : p >= wish \/ \A q \in affordable : q <= p}
    BY <1>2
  <2> HIDE DEF affordable, willing, offer
  <2>4. CASE top.error # "none"
    <3>1. offer = top /\ affordable = {} /\ top = Rejected(top.error)
      BY <2>1, <2>2, <2>4
    <3>2. offer.error # "none" /\ offer = Rejected(offer.error)
      BY <2>4, <3>1
    <3>3. paying = {} /\ \A p \in affordable : Fee[p] < minFee
      BY <2>3, <3>1
    <3> QED
      BY <3>2, <3>3 DEF offer, affordable, willing
  <2>5. CASE top.error = "none"
    <3> DEFINE t == top.priority
    <3>1. t \in affordable /\ affordable = MinPriority..t
      BY <2>2, <2>5
    <3>2. t \in MinPriority..MaxPriority
      BY <3>1 DEF affordable
    <3>3. /\ capped \in MinPriority..t /\ capped \in Nat /\ t \in Nat /\ capped <= t
          /\ capped = IF wish < t THEN wish ELSE t
      BY <1>0, <3>2 DEF Smaller
    <3> HIDE DEF top, t, capped
    <3>4. willing = capped..t
      BY <1>0, <2>3, <3>1, <3>2, <3>3
    <3>5. \A p \in MinPriority..t : Fee[p] \in Nat /\ p \in MinPriority..MaxPriority /\ Fee[p] <= Fee[t]
      BY <1>0, <3>2 DEF Grows
    <3>10. Fee[capped] \in Nat /\ Fee[t] \in Nat
      <4>1. t \in MinPriority..t
        BY <3>1, <3>2, <1>0
      <4> QED
        BY <3>3, <3>5, <4>1
    <3>6. Grows(Fee, capped, t)
      BY <1>0, <3>2, <3>3 DEF Grows
    <3>7. CASE Fee[capped] >= minFee
      <4>1. offer = Accepted(capped)
        BY <2>1, <2>5, <3>7
      <4>2. offer.error = "none" /\ offer.priority = capped
        BY <4>1 DEF Accepted
      <4>3. capped \in paying /\ \A q \in paying : capped <= q
        BY <3>3, <3>4, <3>7
      <4> HIDE DEF paying
      <4> QED
        BY <4>2, <4>3 DEF offer, affordable, willing, paying
    <3>8. CASE Fee[capped] < minFee /\ Fee[t] < minFee
      <4>1. offer = Rejected("auto_max_credits_insufficient")
        <5>1. ~(Fee[capped] >= minFee)
          BY <3>8, <3>10
        <5> QED
          BY <2>1, <2>5, <3>8, <5>1 DEF t
      <4>2. offer.error # "none" /\ offer = Rejected(offer.error)
        BY <4>1 DEF Rejected
      <4>3. ASSUME NEW p \in MinPriority..t PROVE Fee[p] < minFee
        <5>1. Fee[p] \in Nat /\ Fee[p] <= Fee[t]
          BY <3>5
        <5> QED
          BY <3>8, <3>10, <5>1
      <4>4. \A p \in willing : ~(Fee[p] >= minFee)
        <5>1. \A p \in capped..t : p \in MinPriority..t
          BY <1>0, <3>3
        <5> QED
          BY <3>4, <3>5, <4>3, <5>1
      <4>5. paying = {}
        BY <4>4
      <4>6. \A p \in affordable : Fee[p] < minFee
        BY <3>1, <4>3
      <4> HIDE DEF paying
      <4> QED
        BY <4>2, <4>5, <4>6 DEF offer, affordable, willing, paying
    <3>9. CASE Fee[capped] < minFee /\ Fee[t] >= minFee
      <4> DEFINE found == LowestPaying(capped, t, minFee, Fee)
      <4>1. found \in capped..t /\ Fee[found] >= minFee /\ \A q \in capped..t : Fee[q] >= minFee => found <= q
        BY <3>3, <3>6, <3>9, LowestPayingFinds
      <4> HIDE DEF found
      <4>2. offer = Accepted(found)
        <5>1. ~(Fee[capped] >= minFee) /\ ~(Fee[t] < minFee)
          BY <3>9, <3>10
        <5> QED
          BY <2>1, <2>5, <5>1 DEF t, found
      <4>3. offer.error = "none" /\ offer.priority = found
        BY <4>2 DEF Accepted
      <4>4. found \in paying /\ \A q \in paying : found <= q
        BY <3>4, <4>1
      <4> HIDE DEF paying
      <4> QED
        BY <4>3, <4>4 DEF offer, affordable, willing, paying
    <3> QED
      BY <3>10, <3>7, <3>8, <3>9
  <2> QED
    BY <2>4, <2>5
<1> QED
  BY <1>1, <1>2

-----------------------------------------------------------------------------
(* How amounts grow. *)

\* Whole Gwei round down and keep the order.
LEMMA GweiGrows ==
  ASSUME NEW a \in Nat, NEW b \in Nat
  PROVE  /\ Gwei(a) \in Nat /\ Gwei(a) * FeeScale <= a /\ a < (Gwei(a) + 1) * FeeScale
         /\ a <= b => Gwei(a) <= Gwei(b)
BY ConstantsTyped, Quotients DEF Gwei

\* An amount of whole Gwei loses nothing.
LEMMA GweiOfMultiple ==
  ASSUME NEW a \in Nat
  PROVE  Gwei(a * FeeScale) = a
<1> DEFINE b == a * FeeScale
<1>1. b \in Nat /\ FeeScale \in Nat \ {0}
  BY ConstantsTyped, Products
<1>2. Gwei(b) \in Nat /\ Gwei(b) * FeeScale <= b /\ b < (Gwei(b) + 1) * FeeScale
  BY <1>1, GweiGrows
<1>3. ~(a < Gwei(b))
  <2> SUFFICES ASSUME a + 1 <= Gwei(b) PROVE FALSE
    BY <1>2
  <2>1. (a + 1) * FeeScale <= Gwei(b) * FeeScale
    BY <1>1, <1>2, Products
  <2>2. (a + 1) * FeeScale = b + FeeScale
    BY <1>1
  <2> QED
    BY <1>1, <1>2, <2>1, <2>2
<1>4. ~(Gwei(b) + 1 <= a)
  <2> SUFFICES ASSUME Gwei(b) + 1 <= a PROVE FALSE
    OBVIOUS
  <2>1. (Gwei(b) + 1) * FeeScale <= b
    BY <1>1, <1>2, Products
  <2> HIDE DEF b
  <2> QED
    BY <1>1, <1>2, <2>1
<1> QED
  BY <1>2, <1>3, <1>4

\* The whole Gwei of an amount reach a number of Gwei exactly when the amount does.
LEMMA GweiReach ==
  ASSUME NEW a \in Nat, NEW m \in Nat
  PROVE  Gwei(a) >= m <=> a >= m * FeeScale
<1>1. /\ Gwei(a) \in Nat /\ FeeScale \in Nat /\ m * FeeScale \in Nat /\ Gwei(a) * FeeScale \in Nat
      /\ Gwei(a) * FeeScale <= a
  BY ConstantsTyped, GweiGrows, Products
<1>2. ASSUME Gwei(a) >= m PROVE a >= m * FeeScale
  <2>1. m * FeeScale <= Gwei(a) * FeeScale
    BY <1>1, <1>2, Products
  <2> DEFINE x == m * FeeScale
             y == Gwei(a) * FeeScale
  <2> HIDE DEF x, y
  <2>2. a >= x
    <3>1. x \in Nat /\ y \in Nat /\ x <= y /\ y <= a
      BY <1>1, <2>1 DEF x, y
    <3> QED
      BY <3>1
  <2> QED
    BY <2>2 DEF x
<1>3. ASSUME a >= m * FeeScale PROVE Gwei(a) >= m
  <2>1. Gwei(m * FeeScale) <= Gwei(a)
    BY <1>1, <1>3, GweiGrows
  <2>2. Gwei(m * FeeScale) = m
    BY GweiOfMultiple
  <2> QED
    BY <1>1, <2>1, <2>2
<1> QED
  BY <1>2, <1>3

\* A product is less than another when it is so by a divisor: x * c < y * c is x < y.
LEMMA Cancel ==
  ASSUME NEW x \in Nat, NEW y \in Nat, NEW c \in Nat, x * c < y * c
  PROVE  x < y
<1> SUFFICES ASSUME y <= x PROVE FALSE
  OBVIOUS
<1>1. y * c <= x * c /\ y * c \in Nat /\ x * c \in Nat
  BY Products
<1> DEFINE u == x * c
           v == y * c
<1> HIDE DEF u, v
<1>2. u \in Nat /\ v \in Nat /\ v <= u /\ u < v
  BY <1>1 DEF u, v
<1> QED
  BY <1>2

\* Rounding an amount down to Gwei lowers its Credits by those of one Gwei at most.
LEMMA FlooredCredits ==
  ASSUME NEW b \in Nat
  PROVE  LET floored == Credits(Gwei(b) * FeeScale)
         IN /\ floored \in Nat /\ Credits(b) \in Nat /\ CreditsOfOneGwei \in Nat
            /\ floored <= Credits(b) /\ Credits(b) <= floored + CreditsOfOneGwei
<1> DEFINE F == FeeScale
           n == Rate.n
           d == Rate.d
           D == F * d
           g == Gwei(b)
           c == CreditsOfOneGwei
           low == (g * F * n) \div D
           high == (b * n) \div D
<1>1. F \in Nat \ {0} /\ n \in Nat \ {0} /\ d \in Nat \ {0} /\ D \in Nat \ {0}
  BY ConstantsTyped
<1>2. g \in Nat /\ g * F <= b /\ b < (g + 1) * F /\ g * F \in Nat
  BY <1>1, GweiGrows, Products
<1>3. c \in Nat /\ n <= c * d
  <2> DEFINE k == n + d - 1
  <2>1. k \in Nat /\ c = k \div d
    BY <1>1 DEF CreditsOfOneGwei
  <2>2. c \in Nat /\ k < (c + 1) * d
    <3> HIDE DEF k, c
    <3> QED
      BY <1>1, <2>1, Quotients
  <2>3. (c + 1) * d = c * d + d /\ c * d \in Nat
    <3> HIDE DEF c
    <3> QED
      BY <1>1, <2>2, Products
  <2> DEFINE x == c * d
  <2> HIDE DEF c, x
  <2>4. x \in Nat /\ k < x + d
    BY <2>2, <2>3 DEF x
  <2>5. n <= x
    BY <1>1, <2>4
  <2> QED
    BY <2>2, <2>5 DEF x
<1>4. Credits(g * F) = Larger(1, low) /\ Credits(b) = Larger(1, high)
  BY DEF Credits
<1> HIDE DEF F, n, d, D, g, c
<1>5. g * F * n \in Nat /\ b * n \in Nat /\ g * F * n <= b * n
  BY <1>1, <1>2, Products
<1>6. /\ low \in Nat /\ high \in Nat /\ low <= high
      /\ g * F * n < (low + 1) * D /\ high * D <= b * n
  <2> DEFINE x == g * F * n
             y == b * n
  <2>1. x \in Nat /\ y \in Nat /\ x <= y /\ low = x \div D /\ high = y \div D
    BY <1>5
  <2> HIDE DEF x, y, low, high
  <2>2. /\ low \in Nat /\ high \in Nat /\ low <= high
        /\ x < (low + 1) * D /\ high * D <= y
    BY <1>1, <2>1, Quotients
  <2> QED
    BY <2>2 DEF x, y
<1> HIDE DEF low, high
<1>7. b * n < (low + 1) * D + c * D
  <2>1. b * n < (g + 1) * F * n
    <3>1. b + 1 <= (g + 1) * F /\ (g + 1) * F \in Nat /\ b + 1 \in Nat
      BY <1>1, <1>2, Products
    <3>2. (b + 1) * n <= (g + 1) * F * n
      BY <1>1, <3>1, Products
    <3>3. (b + 1) * n = b * n + n
      BY <1>1
    <3>4. (g + 1) * F * n \in Nat
      BY <1>1, <3>1, Products
    <3> DEFINE x == (g + 1) * F * n
               y == b * n
    <3> HIDE DEF x, y
    <3>5. y + n <= x /\ x \in Nat /\ y \in Nat
      BY <1>5, <3>2, <3>3, <3>4 DEF x, y
    <3>6. y < x
      BY <1>1, <3>5
    <3> QED
      BY <3>6 DEF x, y
  <2>2. (g + 1) * F * n = g * F * n + F * n
    BY <1>1, <1>2
  <2>3. F * n \in Nat /\ F * n <= F * (c * d) /\ F * (c * d) \in Nat
    <3>1. c * d \in Nat
      BY <1>1, <1>3, Products
    <3> QED
      BY <1>1, <1>3, <3>1, Products
  <2>4. F * (c * d) = c * D
    BY <1>1, <1>3 DEF D
  <2>5. (low + 1) * D \in Nat
    BY <1>1, <1>6, Products
  <2> DEFINE x == g * F * n
             y == b * n
             z == F * n
             u == c * D
             v == (low + 1) * D
  <2> HIDE DEF x, y, z, u, v
  <2>6. y < x + z /\ x < v /\ z <= u /\ {x, y, z, u, v} \subseteq Nat
    BY <1>5, <1>6, <2>1, <2>2, <2>3, <2>4, <2>5 DEF x, y, z, u, v
  <2>7. y < v + u
    BY <2>6
  <2> QED
    BY <2>7 DEF y, u, v
<1>8. high * D < (low + 1 + c) * D
  <2>1. (low + 1 + c) * D = (low + 1) * D + c * D
    BY <1>1, <1>3, <1>6
  <2>2. high * D \in Nat /\ (low + 1 + c) * D \in Nat
    BY <1>1, <1>3, <1>6, Products
  <2> DEFINE x == high * D
             y == b * n
             z == (low + 1 + c) * D
  <2> HIDE DEF x, y, z
  <2>3. x <= y /\ y < z /\ {x, y, z} \subseteq Nat
    BY <1>5, <1>6, <1>7, <2>1, <2>2 DEF x, y, z
  <2>4. x < z
    BY <2>3
  <2> QED
    BY <2>4 DEF x, z
<1>9. high < low + 1 + c
  <2>1. low + 1 + c \in Nat
    BY <1>3, <1>6
  <2> QED
    BY <1>1, <1>6, <1>8, <2>1, Cancel
<1>10. /\ Larger(1, low) \in Nat /\ Larger(1, high) \in Nat
       /\ Larger(1, low) <= Larger(1, high) /\ Larger(1, high) <= Larger(1, low) + c
  BY <1>3, <1>6, <1>9 DEF Larger
<1> QED
  BY <1>3, <1>4, <1>10 DEF F, g, c

\* The fee of a Crynux job grows with its priority, its time and its vram, up to the maximum.
Raw(p, seconds, vram) == p * seconds * Larger(vram, BaseVram)

\* The amount before the maximum grows with the priority and with the time.
LEMMA RawGrows ==
  ASSUME NEW p \in Nat, NEW q \in Nat, p <= q, NEW s \in Nat, NEW t \in Nat, s <= t, NEW vram \in Int
  PROVE  Raw(p, s, vram) \in Nat /\ Raw(q, t, vram) \in Nat /\ Raw(p, s, vram) <= Raw(q, t, vram)
<1> DEFINE v == Larger(vram, BaseVram)
<1>1. v \in Nat
  BY ConstantsTyped DEF Larger
<1> HIDE DEF v
<1>2. p * s \in Nat /\ q * t \in Nat /\ p * s <= q * t
  <2>1. p * s <= q * s /\ q * s <= q * t /\ p * s \in Nat /\ q * s \in Nat /\ q * t \in Nat
    BY Products
  <2> QED
    BY <2>1
<1> DEFINE a == p * s
           b == q * t
<1> HIDE DEF a, b
<1>3. a * v \in Nat /\ b * v \in Nat /\ a * v <= b * v
  BY <1>1, <1>2, Products DEF a, b
<1> QED
  BY <1>3 DEF a, b, v, Raw

\* What the maximum leaves of an amount: up to a fraction of a Gwei above it the amount is
\* kept, beyond that it is cut to the maximum.
LEMMA CrynuxBillableIs ==
  ASSUME NEW p \in Nat, NEW s \in Nat, NEW vram \in Int
  PROVE  LET raw == Raw(p, s, vram)
             most == MaxTaskFee["crynux"]
             amount == CrynuxBillable(p, s, vram)
         IN /\ amount \in Nat /\ amount <= raw
            /\ raw <= most * FeeScale + (FeeScale - 1) => amount = raw
            /\ raw > most * FeeScale + (FeeScale - 1) => amount = most * FeeScale
            /\ Gwei(amount) = Smaller(Gwei(raw), most)
<1> DEFINE raw == Raw(p, s, vram)
           most == MaxTaskFee["crynux"]
           amount == CrynuxBillable(p, s, vram)
<1>1. raw \in Nat
  BY RawGrows
<1>2. most \in Nat /\ FeeScale \in Nat \ {0}
  BY ConstantsTyped
<1>3. amount = IF Gwei(raw) <= most THEN raw ELSE most * FeeScale
  BY DEF CrynuxBillable, Raw
<1> HIDE DEF raw, most, amount
<1>4. Gwei(raw) \in Nat /\ Gwei(raw) * FeeScale <= raw /\ raw < (Gwei(raw) + 1) * FeeScale
  BY <1>1, GweiGrows
<1>5. most * FeeScale \in Nat /\ Gwei(most * FeeScale) = most
  BY <1>2, Products, GweiOfMultiple
<1>6. (most + 1) * FeeScale = most * FeeScale + FeeScale
  BY <1>2
<1>7. CASE Gwei(raw) <= most
  <2>1. (Gwei(raw) + 1) * FeeScale <= (most + 1) * FeeScale
    BY <1>2, <1>4, <1>7, Products
  <2>2. raw <= most * FeeScale + (FeeScale - 1)
    <3> DEFINE x == (Gwei(raw) + 1) * FeeScale
               y == most * FeeScale
    <3>1. x \in Nat
      BY <1>2, <1>4, Products
    <3>2. raw < x /\ x <= y + FeeScale /\ y \in Nat
      BY <1>4, <1>5, <1>6, <2>1
    <3> HIDE DEF x, y
    <3>3. raw <= y + (FeeScale - 1)
      BY <1>1, <1>2, <3>1, <3>2
    <3> QED
      BY <3>3 DEF y
  <2>3. amount = raw
    BY <1>3, <1>7
  <2>4. Smaller(Gwei(raw), most) = Gwei(raw)
    BY <1>2, <1>4, <1>7 DEF Smaller
  <2> QED
    BY <1>1, <1>2, <1>5, <2>2, <2>3, <2>4 DEF raw, most, amount
<1>8. CASE Gwei(raw) >= most + 1
  <2> DEFINE x == Gwei(raw) * FeeScale
             y == most * FeeScale
  <2>1. (most + 1) * FeeScale <= x /\ x \in Nat
    BY <1>2, <1>4, <1>8, Products
  <2>2. y + FeeScale <= x /\ y \in Nat /\ x <= raw
    BY <1>4, <1>5, <1>6, <2>1
  <2>3. amount = y
    BY <1>2, <1>3, <1>4, <1>8
  <2>4. Smaller(Gwei(raw), most) = most
    BY <1>2, <1>4, <1>8 DEF Smaller
  <2>5. Gwei(amount) = most
    BY <1>5, <2>3
  <2> HIDE DEF x, y
  <2>6. raw > y + (FeeScale - 1) /\ amount <= raw /\ amount \in Nat
    BY <1>1, <1>2, <2>1, <2>2, <2>3
  <2>7. /\ amount \in Nat /\ amount <= raw
        /\ raw <= y + (FeeScale - 1) => amount = raw
        /\ raw > y + (FeeScale - 1) => amount = y
        /\ Gwei(amount) = Smaller(Gwei(raw), most)
    BY <1>1, <1>2, <2>2, <2>3, <2>4, <2>5, <2>6
  <2> QED
    BY <2>7 DEF y, raw, most, amount
<1> QED
  BY <1>2, <1>4, <1>7, <1>8

\* The fee of a Crynux job does not fall when the priority rises, as the searches assume.
LEMMA CrynuxFeesGrow ==
  ASSUME NEW s \in Nat, NEW vram \in Int
  PROVE  Grows([p \in MinPriority..MaxPriority |-> Gwei(CrynuxBillable(p, s, vram))], MinPriority, MaxPriority)
<1> DEFINE fee(p) == Gwei(CrynuxBillable(p, s, vram))
<1>1. MinPriority \in Nat /\ MaxPriority \in Nat
  BY ConstantsTyped
<1>2. ASSUME NEW p \in Nat PROVE fee(p) = Smaller(Gwei(Raw(p, s, vram)), MaxTaskFee["crynux"]) /\ fee(p) \in Nat
  <2>1. CrynuxBillable(p, s, vram) \in Nat /\ fee(p) = Smaller(Gwei(Raw(p, s, vram)), MaxTaskFee["crynux"])
    BY CrynuxBillableIs
  <2> QED
    BY <2>1, GweiGrows
<1>3. ASSUME NEW p \in Nat, NEW q \in Nat, p <= q PROVE fee(p) <= fee(q)
  <2>1. Raw(p, s, vram) \in Nat /\ Raw(q, s, vram) \in Nat /\ Raw(p, s, vram) <= Raw(q, s, vram)
    BY <1>3, RawGrows
  <2>2. /\ Gwei(Raw(p, s, vram)) \in Nat /\ Gwei(Raw(q, s, vram)) \in Nat
        /\ Gwei(Raw(p, s, vram)) <= Gwei(Raw(q, s, vram))
    BY <2>1, GweiGrows
  <2>3. MaxTaskFee["crynux"] \in Nat
    BY ConstantsTyped
  <2> HIDE DEF fee
  <2> QED
    BY <1>2, <2>2, <2>3 DEF Smaller
<1> HIDE DEF fee
<1> DEFINE f == [p \in MinPriority..MaxPriority |-> fee(p)]
<1>4. \A p \in MinPriority..MaxPriority : p \in Nat /\ f[p] = fee(p)
  BY <1>1
<1> HIDE DEF f
<1>5. Grows(f, MinPriority, MaxPriority)
  BY <1>2, <1>3, <1>4 DEF Grows
<1> QED
  BY <1>5 DEF f, fee

\* A job that takes less than its estimate is charged at most the estimate and
\* the fraction of a Gwei that the maximum lets through.
LEMMA LessIsChargedLess ==
  ASSUME NEW p \in Nat, NEW s \in Nat, NEW t \in Nat, s <= t, NEW vram \in Int
  PROVE  LET estimate == CrynuxBillable(p, t, vram)
             fraction == IF estimate >= MaxTaskFee["crynux"] * FeeScale THEN FeeScale - 1 ELSE 0
         IN Credits(CrynuxBillable(p, s, vram)) <= Credits(estimate + fraction)
<1> DEFINE estimate == CrynuxBillable(p, t, vram)
           most == MaxTaskFee["crynux"] * FeeScale
           fraction == IF estimate >= most THEN FeeScale - 1 ELSE 0
           amount == CrynuxBillable(p, s, vram)
           rawS == Raw(p, s, vram)
           rawT == Raw(p, t, vram)
<1>1. rawS \in Nat /\ rawT \in Nat /\ rawS <= rawT
  BY RawGrows
<1>2. /\ amount \in Nat /\ amount <= rawS
      /\ rawS <= most + (FeeScale - 1) => amount = rawS
      /\ rawS > most + (FeeScale - 1) => amount = most
  BY CrynuxBillableIs
<1>3. /\ estimate \in Nat /\ estimate <= rawT
      /\ rawT <= most + (FeeScale - 1) => estimate = rawT
      /\ rawT > most + (FeeScale - 1) => estimate = most
  BY CrynuxBillableIs
<1>4. most \in Nat /\ FeeScale \in Nat \ {0}
  BY ConstantsTyped, Products
<1>5. fraction = IF estimate >= most THEN FeeScale - 1 ELSE 0
  OBVIOUS
<1> HIDE DEF estimate, most, fraction, amount, rawS, rawT
<1>6. amount <= estimate + fraction /\ estimate + fraction \in Nat
  BY <1>1, <1>2, <1>3, <1>4, <1>5
<1>7. Credits(amount) <= Credits(estimate + fraction)
  BY <1>2, <1>6, CreditsGrow
<1> QED
  BY <1>7 DEF estimate, most, fraction, amount

-----------------------------------------------------------------------------
(* Admission to a Provider. *)

\* The amount of a Provider job does not fall when the priority rises.
LEMMA ProviderAmountsGrow ==
  ASSUME NEW units \in Nat, NEW most \in Nat
  PROVE  /\ \A p \in Nat : ProviderBillable(p, units, most) \in Nat
         /\ Grows([p \in MinPriority..MaxPriority |-> ProviderBillable(p, units, most)], MinPriority, MaxPriority)
<1> DEFINE f == [p \in MinPriority..MaxPriority |-> ProviderBillable(p, units, most)]
           y == most * FeeScale
<1>1. y \in Nat
  BY ConstantsTyped, Products
<1>2. ASSUME NEW p \in Nat PROVE p * units \in Nat /\ ProviderBillable(p, units, most) = Smaller(p * units, y)
  BY Products DEF ProviderBillable
<1>3. MinPriority \in Nat /\ MaxPriority \in Nat
  BY ConstantsTyped
<1>4. ASSUME NEW p \in Nat, NEW q \in Nat, p <= q PROVE p * units <= q * units
  BY <1>4, Products
<1> HIDE DEF y
<1>5. \A p \in Nat : Smaller(p * units, y) \in Nat
  BY <1>1, <1>2 DEF Smaller
<1>6. ASSUME NEW p \in Nat, NEW q \in Nat, p <= q PROVE Smaller(p * units, y) <= Smaller(q * units, y)
  BY <1>1, <1>2, <1>4, <1>6 DEF Smaller
<1>7. \A p \in MinPriority..MaxPriority : p \in Nat /\ f[p] = Smaller(p * units, y)
  BY <1>2, <1>3
<1> HIDE DEF f
<1>8. Grows(f, MinPriority, MaxPriority)
  BY <1>5, <1>6, <1>7 DEF Grows
<1> QED
  BY <1>2, <1>5, <1>8 DEF f

\* Rounding amounts down to Gwei keeps their order.
LEMMA FloorsGrow ==
  ASSUME NEW Billable, DOMAIN Billable = MinPriority..MaxPriority, Grows(Billable, MinPriority, MaxPriority)
  PROVE  Grows([p \in DOMAIN Billable |-> Gwei(Billable[p])], MinPriority, MaxPriority)
<1> DEFINE f == [p \in DOMAIN Billable |-> Gwei(Billable[p])]
<1>1. \A p \in MinPriority..MaxPriority : f[p] = Gwei(Billable[p]) /\ Billable[p] \in Nat
  BY DEF Grows
<1>2. \A p, q \in MinPriority..MaxPriority : p <= q => Billable[p] <= Billable[q]
  BY DEF Grows
<1> HIDE DEF f
<1>3. Grows(f, MinPriority, MaxPriority)
  BY <1>1, <1>2, GweiGrows DEF Grows
<1> QED
  BY <1>3 DEF f

Distance(p, wish) == IF p < wish THEN wish - p ELSE p - wish

\* Clamping a wish to a range yields the number of the range nearest to it, and no other is as near.
LEMMA ClampIsNearest ==
  ASSUME NEW lo \in Nat, NEW hi \in Nat, lo <= hi, NEW wish \in Nat
  PROVE  /\ Clamp(wish, lo, hi) \in lo..hi
         /\ \A q \in lo..hi : q # Clamp(wish, lo, hi) => Distance(Clamp(wish, lo, hi), wish) < Distance(q, wish)
BY DEF Clamp, Distance

\* The offer a Provider request should be made: the affordable priority from the shared minimum on that is nearest to the wish.
IsNearest(row, wish, shared, Billable, offer) ==
  LET lower == IF shared > 0 THEN shared ELSE MinPriority
      allowed == {p \in MinPriority..MaxPriority : Affordable(row, Gwei(Billable[p]) * FeeScale) /\ p >= lower}
  IN /\ row.mode = "static" =>
          IF wish >= lower /\ Affordable(row, Billable[wish])
          THEN offer.error = "none" /\ offer.priority = wish ELSE offer.error # "none"
     /\ row.mode = "auto" =>
          \/ offer.error # "none" /\ allowed = {}
          \/ /\ offer.error = "none" /\ offer.priority \in allowed
             /\ \A q \in allowed : q # offer.priority => Distance(offer.priority, wish) < Distance(q, wish)

\* enforceAdmissionSharedMinPriority chooses, of the affordable priorities from
\* the shared minimum on, the one nearest to the wish, and refuses when there is
\* none; a static priority is accepted or refused as it is.
THEOREM ProviderAdmission ==
  ASSUME NEW row, row.maxCredits \in Nat, row.mode \in {"static", "auto"},
         NEW wish \in MinPriority..MaxPriority,
         NEW shared, shared = 0 \/ shared \in MinPriority..MaxPriority,
         NEW Billable, DOMAIN Billable = MinPriority..MaxPriority, Grows(Billable, MinPriority, MaxPriority)
  PROVE  IsNearest(row, wish, shared, Billable, EnforceSharedMinPriority(row, wish, shared, Billable))
<1> DEFINE offer == EnforceSharedMinPriority(row, wish, shared, Billable)
           lower == IF shared > 0 THEN shared ELSE MinPriority
           Fee == [p \in DOMAIN Billable |-> Gwei(Billable[p])]
           affordable == {p \in MinPriority..MaxPriority : Affordable(row, Fee[p] * FeeScale)}
           allowed == {p \in MinPriority..MaxPriority :
                         Affordable(row, Gwei(Billable[p]) * FeeScale) /\ p >= lower}
           upper == MaxPriorityWithinAutoMaxCredits(row, Fee)
<1> SUFFICES
      /\ row.mode = "static" =>
           IF wish >= lower /\ Affordable(row, Billable[wish])
           THEN offer.error = "none" /\ offer.priority = wish ELSE offer.error # "none"
      /\ row.mode = "auto" =>
           \/ offer.error # "none" /\ allowed = {}
           \/ /\ offer.error = "none" /\ offer.priority \in allowed
              /\ \A q \in allowed : q # offer.priority => Distance(offer.priority, wish) < Distance(q, wish)
  BY DEF IsNearest
<1>0. MinPriority \in Nat \ {0} /\ MaxPriority \in Nat /\ MinPriority <= MaxPriority /\ shared \in Nat
  BY ConstantsTyped
<1>1. CASE row.mode = "static"
  <2> DEFINE static == StaticCreditsError(row, Billable[wish])
  <2>1. offer = IF static # "none" THEN Rejected(static)
                ELSE IF wish < shared THEN Rejected("task_fee_below_minimum") ELSE Accepted(wish)
    BY <1>1 DEF EnforceSharedMinPriority
  <2>2. static = "none" <=> Affordable(row, Billable[wish])
    <3>1. Billable[wish] \in Nat
      BY DEF Grows
    <3>2. Credits(Billable[wish]) >= 1 /\ Credits(Billable[wish]) \in Nat
      BY <3>1, CreditsGrow
    <3> QED
      BY <3>2 DEF StaticCreditsError, Affordable
  <2>3. wish \in Nat /\ (wish < shared <=> ~(wish >= lower))
    BY <1>0
  <2> HIDE DEF static, offer, lower
  <2>4. IF wish >= lower /\ Affordable(row, Billable[wish])
        THEN offer.error = "none" /\ offer.priority = wish ELSE offer.error # "none"
    BY <2>1, <2>2, <2>3 DEF Accepted, Rejected
  <2> QED
    BY <1>1, <2>4 DEF offer, lower
<1>2. CASE row.mode = "auto"
  <2>1. offer = IF upper.error # "none" THEN upper
                ELSE IF lower > upper.priority THEN Rejected("auto_max_credits_insufficient")
                ELSE Accepted(Clamp(wish, lower, upper.priority))
    BY <1>2 DEF EnforceSharedMinPriority
  <2>2. \/ upper.error # "none" /\ affordable = {} /\ upper = Rejected(upper.error)
        \/ upper.error = "none" /\ upper.priority \in affordable /\ affordable = MinPriority..upper.priority
    <3>1. Grows(Fee, MinPriority, MaxPriority)
      BY FloorsGrow
    <3> HIDE DEF Fee
    <3> QED
      BY <3>1, BudgetFinds
  <2>3. allowed = {p \in affordable : p >= lower}
    OBVIOUS
  <2>4. lower \in MinPriority..MaxPriority
    BY <1>0
  <2>5. affordable \subseteq MinPriority..MaxPriority
    OBVIOUS
  <2> HIDE DEF offer, lower, allowed, affordable, upper
  <2>6. CASE upper.error # "none"
    <3>1. offer.error # "none" /\ allowed = {}
      BY <2>1, <2>2, <2>3, <2>6
    <3> QED
      BY <1>2, <3>1 DEF offer, lower, allowed
  <2>7. CASE upper.error = "none"
    <3> DEFINE t == upper.priority
    <3>1. t \in MinPriority..MaxPriority /\ affordable = MinPriority..t
      BY <2>2, <2>5, <2>7
    <3> HIDE DEF t
    <3>2. allowed = lower..t
      BY <1>0, <2>3, <2>4, <3>1
    <3>3. CASE lower > t
      <4>1. offer = Rejected("auto_max_credits_insufficient")
        BY <2>1, <2>7, <3>3 DEF t
      <4>2. offer.error # "none"
        BY <4>1 DEF Rejected
      <4>3. allowed = {}
        BY <1>0, <2>4, <3>1, <3>2, <3>3
      <4> QED
        BY <1>2, <4>2, <4>3 DEF offer, lower, allowed
    <3>4. CASE ~(lower > t)
      <4> DEFINE found == Clamp(wish, lower, t)
      <4>1. offer = Accepted(found)
        BY <2>1, <2>7, <3>4 DEF t
      <4>2. offer.error = "none" /\ offer.priority = found
        BY <4>1 DEF Accepted
      <4>3. /\ found \in lower..t
            /\ \A q \in lower..t : q # found => Distance(found, wish) < Distance(q, wish)
        <5>1. lower \in Nat /\ t \in Nat /\ lower <= t /\ wish \in Nat
          BY <1>0, <2>4, <3>1, <3>4
        <5> QED
          BY <5>1, ClampIsNearest
      <4> HIDE DEF found
      <4>4. /\ offer.error = "none" /\ offer.priority \in allowed
            /\ \A q \in allowed : q # offer.priority => Distance(offer.priority, wish) < Distance(q, wish)
        BY <3>2, <4>2, <4>3
      <4> QED
        BY <1>2, <4>4 DEF offer, lower, allowed
    <3> QED
      BY <3>3, <3>4
  <2> QED
    BY <2>6, <2>7
<1> QED
  BY <1>1, <1>2

-----------------------------------------------------------------------------
(* The shared minimum. *)

\* The configured routes have providers, weights and maximum fees, as the checks at start-up ensure.
LEMMA RoutesTyped ==
  ASSUME NEW r \in Routes
  PROVE  /\ r.provider \in ServiceProviders /\ MaxTaskFee[r.provider] \in Nat \ {0}
         /\ r.apiKind \in {"chat", "image"}
         /\ DOMAIN r.weights \subseteq Components /\ \A c \in DOMAIN r.weights : r.weights[c] \in Nat
BY PricingAssumption DEF ProviderModelsAreChecked, MaxTaskPricesAreChecked, UsageWeightsAreChecked

\* The weights of a route are finitely many.
LEMMA ComponentsFinite ==
  \A keys \in SUBSET Components : IsFiniteSet(keys)
<1>1. IsFiniteSet({"input_tokens", "cached_input_tokens", "cache_write_input_tokens",
                   "tool_use_prompt_tokens", "image_input_tokens"})
  <2>1. IsFiniteSet({}) BY FS_EmptySet
  <2>2. IsFiniteSet({} \cup {"input_tokens"}) BY <2>1, FS_AddElement
  <2>3. IsFiniteSet(({} \cup {"input_tokens"}) \cup {"cached_input_tokens"}) BY <2>2, FS_AddElement
  <2>4. IsFiniteSet((({} \cup {"input_tokens"}) \cup {"cached_input_tokens"}) \cup {"cache_write_input_tokens"})
    BY <2>3, FS_AddElement
  <2>5. IsFiniteSet(((({} \cup {"input_tokens"}) \cup {"cached_input_tokens"}) \cup {"cache_write_input_tokens"})
                    \cup {"tool_use_prompt_tokens"})
    BY <2>4, FS_AddElement
  <2>6. IsFiniteSet((((({} \cup {"input_tokens"}) \cup {"cached_input_tokens"}) \cup {"cache_write_input_tokens"})
                     \cup {"tool_use_prompt_tokens"}) \cup {"image_input_tokens"})
    BY <2>5, FS_AddElement
  <2>7. (((({} \cup {"input_tokens"}) \cup {"cached_input_tokens"}) \cup {"cache_write_input_tokens"})
          \cup {"tool_use_prompt_tokens"}) \cup {"image_input_tokens"}
        = {"input_tokens", "cached_input_tokens", "cache_write_input_tokens", "tool_use_prompt_tokens",
           "image_input_tokens"}
    OBVIOUS
  <2> QED
    BY <2>6, <2>7
<1>2. IsFiniteSet({"output_tokens", "reasoning_tokens", "image_output_tokens"})
  <2>1. IsFiniteSet({}) BY FS_EmptySet
  <2>2. IsFiniteSet({} \cup {"output_tokens"}) BY <2>1, FS_AddElement
  <2>3. IsFiniteSet(({} \cup {"output_tokens"}) \cup {"reasoning_tokens"}) BY <2>2, FS_AddElement
  <2>4. IsFiniteSet((({} \cup {"output_tokens"}) \cup {"reasoning_tokens"}) \cup {"image_output_tokens"})
    BY <2>3, FS_AddElement
  <2>5. (({} \cup {"output_tokens"}) \cup {"reasoning_tokens"}) \cup {"image_output_tokens"}
        = {"output_tokens", "reasoning_tokens", "image_output_tokens"}
    OBVIOUS
  <2> QED
    BY <2>4, <2>5
<1>3. IsFiniteSet(Components)
  BY <1>1, <1>2, FS_Union DEF Components, InputComponents, OutputComponents
<1> QED
  BY <1>3, FS_Subset

\* maxWeight is at least every weight of its keys.
LEMMA MaxWeightIs ==
  ASSUME NEW w, DOMAIN w \subseteq Components, \A c \in DOMAIN w : w[c] \in Nat,
         NEW keys \in SUBSET Components
  PROVE  MaxWeight(w, keys) \in Nat /\ \A c \in keys \cap DOMAIN w : w[c] <= MaxWeight(w, keys)
<1> DEFINE S == {0} \cup {w[c] : c \in keys \cap DOMAIN w}
<1>1. S \in SUBSET Nat /\ S # {}
  OBVIOUS
<1>2. IsFiniteSet(S)
  <2> DEFINE D == keys \cap DOMAIN w
             T == {w[c] : c \in D}
  <2>1. IsFiniteSet(D)
    BY ComponentsFinite
  <2>2. IsFiniteSet({0})
    BY FS_Singleton
  <2>3. IsFiniteSet(T)
    <3> DEFINE f == [c \in D |-> w[c]]
    <3>1. f \in Surjection(D, T)
      BY DEF Surjection
    <3> HIDE DEF f, D, T
    <3> QED
      BY <2>1, <3>1, FS_Surjection
  <2> HIDE DEF T
  <2>4. IsFiniteSet({0} \cup T)
    BY <2>2, <2>3, FS_Union
  <2> QED
    BY <2>4 DEF T
<1>3. MaxWeight(w, keys) = Max(S)
  BY DEF MaxWeight
<1> HIDE DEF S
<1>4. Max(S) \in S /\ \A y \in S : y <= Max(S)
  BY <1>1, <1>2, GreatestIsMax
<1> QED
  BY <1>1, <1>3, <1>4 DEF S

\* The units of an estimate are a number.
LEMMA EstimateTyped ==
  ASSUME NEW r \in Routes, NEW input \in Nat, NEW output \in Nat
  PROVE  EstimateProviderUnits(r.weights, input, output) \in Nat
<1>1. InputComponents \in SUBSET Components /\ OutputComponents \in SUBSET Components
  BY DEF Components
<1>2. MaxWeight(r.weights, InputComponents) \in Nat /\ MaxWeight(r.weights, OutputComponents) \in Nat
  BY <1>1, RoutesTyped, MaxWeightIs
<1>3. input * MaxWeight(r.weights, InputComponents) \in Nat /\ output * MaxWeight(r.weights, OutputComponents) \in Nat
  BY <1>2, Products
<1> QED
  BY <1>3 DEF EstimateProviderUnits

\* CeilPriority returns the lowest priority at which the units pay the fee.
LEMMA CeilIs ==
  ASSUME NEW fee \in Nat \ {0}, NEW units \in Nat \ {0}
  PROVE  /\ CeilPriority(fee, units) \in Nat
         /\ \A p \in Nat : p * units >= fee * FeeScale <=> p >= CeilPriority(fee, units)
<1> DEFINE F == fee * FeeScale
           x == F + units - 1
           c == x \div units
<1>1. F \in Nat \ {0}
  BY ConstantsTyped, PositiveProduct
<1> HIDE DEF F
<1>2. x \in Nat /\ x = F + (units - 1)
  BY <1>1
<1> HIDE DEF x
<1>3. c \in Nat /\ c * units <= x /\ x < (c + 1) * units
  BY <1>2, Quotients
<1>4. (c + 1) * units = c * units + units
  BY <1>3
<1>5. ASSUME NEW p \in Nat PROVE p * units >= F <=> p >= c
  <2> DEFINE a == p * units
             b == c * units
  <2>1. a \in Nat /\ b \in Nat
    BY <1>3, Products
  <2>2. p >= c => a >= b
    BY <1>3, Products
  <2>3. p + 1 <= c => (p + 1) * units <= b
    BY <1>3, Products
  <2>4. (p + 1) * units = a + units
    OBVIOUS
  <2>5. b <= x /\ x < b + units
    BY <1>3, <1>4
  <2> HIDE DEF a, b, c
  <2>6. p >= c => a >= F
    BY <1>1, <1>2, <2>1, <2>2, <2>5
  <2>7. p + 1 <= c => ~(a >= F)
    BY <1>1, <1>2, <2>1, <2>3, <2>4, <2>5
  <2> QED
    BY <1>3, <2>6, <2>7 DEF a, c
<1>6. CeilPriority(fee, units) = c
  BY DEF CeilPriority, F, x
<1> QED
  BY <1>3, <1>5, <1>6 DEF F

\* ResolveProviderSharedMinPriority returns the lowest priority at which every
\* model of the kind pays the Provider minimum, or the highest there is.
THEOREM SharedMinimumIs ==
  ASSUME NEW input \in Nat, NEW output \in Nat, NEW apiKind
  PROVE  LET shared == SharedMinPriority(input, output, apiKind)
             units == {u \in {EstimateProviderUnits(r.weights, input, output) :
                                r \in {r \in Routes : r.apiKind = apiKind}} : u > 0}
             enough == {p \in MinPriority..MaxPriority : \A u \in units : p * u >= MinTaskFee["providers"] * FeeScale}
         IN /\ shared = 0 \/ shared \in MinPriority..MaxPriority
            /\ (IF units = {} THEN MinPriority ELSE Min(enough \cup {MaxPriority}))
                 = IF shared > 0 THEN shared ELSE MinPriority
<1> DEFINE shared == SharedMinPriority(input, output, apiKind)
           estimates == {EstimateProviderUnits(r.weights, input, output) : r \in {r \in Routes : r.apiKind = apiKind}}
           units == {u \in estimates : u > 0}
           fee == MinTaskFee["providers"]
           enough == {p \in MinPriority..MaxPriority : \A u \in units : p * u >= fee * FeeScale}
           low == Min(enough \cup {MaxPriority})
<1>1. MinPriority \in Nat \ {0} /\ MaxPriority \in Nat \ {0} /\ MinPriority <= MaxPriority /\ FeeScale \in Nat \ {0}
  BY ConstantsTyped
<1>2. fee \in Nat
  BY PricingAssumption DEF MinTaskPricesAreChecked
<1>3. \A u \in estimates : u \in Nat
  BY EstimateTyped
<1>4. ProviderUnitsOf(apiKind, input, output) = estimates \ {0}
  BY DEF ProviderUnitsOf
<1> HIDE DEF estimates
<1>5. ProviderUnitsOf(apiKind, input, output) = units /\ units \in SUBSET (Nat \ {0})
  BY <1>3, <1>4
<1>6. shared = IF fee = 0 \/ units = {} THEN 0 ELSE ClampPriority(CeilPriority(fee, Min(units)))
  BY <1>5 DEF SharedMinPriority
<1> HIDE DEF shared, units
<1>7. low \in enough \cup {MaxPriority} /\ \A y \in enough \cup {MaxPriority} : low <= y
  <2>1. enough \cup {MaxPriority} \in SUBSET Nat /\ enough \cup {MaxPriority} # {}
    BY <1>1
  <2> HIDE DEF enough
  <2> QED
    BY <2>1, LeastIsMin
<1>8. CASE units = {}
  <2>1. shared = 0
    BY <1>6, <1>8
  <2> QED
    BY <1>8, <2>1 DEF shared, units, estimates
<1>9. CASE units # {} /\ fee = 0
  <2>1. shared = 0
    BY <1>6, <1>9
  <2>2. MinPriority \in enough
    <3>1. \A u \in units : MinPriority * u \in Nat
      BY <1>1, <1>5, Products
    <3>2. fee * FeeScale = 0
      BY <1>1, <1>9
    <3> QED
      BY <1>1, <3>1, <3>2
  <2>3. low = MinPriority
    BY <1>1, <1>7, <2>2
  <2> HIDE DEF low
  <2>4. (IF units = {} THEN MinPriority ELSE low) = IF shared > 0 THEN shared ELSE MinPriority
    BY <1>9, <2>1, <2>3
  <2> QED
    BY <2>1, <2>4 DEF low, shared, units, estimates
<1>10. CASE units # {} /\ fee # 0
  <2> DEFINE m == Min(units)
             c == CeilPriority(fee, m)
  <2>1. m \in units /\ m \in Nat \ {0} /\ \A u \in units : m <= u
    <3>1. units \in SUBSET Nat
      BY <1>5
    <3> QED
      BY <1>5, <1>10, <3>1, LeastIsMin
  <2> HIDE DEF m
  <2>2. c \in Nat /\ \A p \in Nat : p * m >= fee * FeeScale <=> p >= c
    BY <1>2, <1>10, <2>1, CeilIs
  <2> HIDE DEF c
  <2>3. shared = Clamp(c, MinPriority, MaxPriority)
    BY <1>6, <1>10 DEF c, m, ClampPriority
  <2>4. ASSUME NEW p \in MinPriority..MaxPriority PROVE p \in enough <=> p >= c
    <3>1. p \in Nat
      BY <1>1
    <3>2. \A u \in units : p * m <= p * u /\ p * m \in Nat /\ p * u \in Nat
      BY <1>5, <2>1, <3>1, Products
    <3>3. fee * FeeScale \in Nat
      BY <1>1, <1>2, Products
    <3>4. p \in enough <=> p * m >= fee * FeeScale
      BY <2>1, <3>2, <3>3
    <3> QED
      BY <2>2, <3>1, <3>4
  <2> HIDE DEF enough
  <2>5. enough \subseteq MinPriority..MaxPriority
    BY DEF enough
  <2> HIDE DEF low
  <2>6. shared \in MinPriority..MaxPriority /\ shared > 0 /\ shared \in enough \cup {MaxPriority}
    BY <1>1, <2>2, <2>3, <2>4 DEF Clamp
  <2>7. \A y \in enough \cup {MaxPriority} : shared <= y
    BY <1>1, <2>2, <2>3, <2>4, <2>5 DEF Clamp
  <2>8. low = shared
    <3>1. low \in enough \cup {MaxPriority} /\ low <= shared
      BY <1>7, <2>6
    <3>2. shared <= low
      BY <2>7, <3>1
    <3>3. low \in Nat /\ shared \in Nat
      BY <1>1, <2>5, <2>6, <3>1
    <3> QED
      BY <3>1, <3>2, <3>3
  <2>9. (IF units = {} THEN MinPriority ELSE low) = IF shared > 0 THEN shared ELSE MinPriority
    BY <1>10, <2>6, <2>8
  <2> QED
    BY <2>6, <2>9 DEF low, shared, units, estimates, enough
<1> QED
  BY <1>8, <1>9, <1>10

-----------------------------------------------------------------------------
(* Usage within its estimate. *)

\* The units of usage that stays within the estimate are at most the estimated
\* ones: the billed parts of a total add up to it, and no weight is larger than
\* the largest one.
THEOREM UnitsWithinEstimate ==
  ASSUME NEW r \in Routes, NEW prompt \in Nat, NEW completion \in Nat,
         NEW usage, usage.parts \in [Components -> Nat],
         LET n == usage.parts
             detail == n["cached_input_tokens"] + n["cache_write_input_tokens"] + n["tool_use_prompt_tokens"]
             input == n["input_tokens"] + n["image_input_tokens"]
             output == n["output_tokens"] + n["image_output_tokens"]
         IN /\ (input <= prompt /\ detail <= n["input_tokens"]) \/ input + detail <= prompt
            /\ IF usage.reasoningIncluded THEN output <= completion /\ n["reasoning_tokens"] <= n["output_tokens"]
               ELSE output + n["reasoning_tokens"] <= completion
  PROVE  /\ CalculateProviderUnits(usage, r.weights) \in Nat
         /\ CalculateProviderUnits(usage, r.weights) <= EstimateProviderUnits(r.weights, prompt, completion)
<1> DEFINE n == usage.parts
           b == BilledParts(usage)
           W == MaxWeight(r.weights, InputComponents)
           V == MaxWeight(r.weights, OutputComponents)
           cost(c) == IF c \in DOMAIN r.weights THEN b[c] * r.weights[c] ELSE 0
<1>1. /\ {"input_tokens", "cached_input_tokens", "cache_write_input_tokens", "tool_use_prompt_tokens",
          "image_input_tokens"} \subseteq InputComponents
      /\ {"output_tokens", "reasoning_tokens", "image_output_tokens"} \subseteq OutputComponents
      /\ InputComponents \in SUBSET Components /\ OutputComponents \in SUBSET Components
  BY DEF InputComponents, OutputComponents, Components
<1>2. /\ n["input_tokens"] \in Nat /\ n["cached_input_tokens"] \in Nat /\ n["cache_write_input_tokens"] \in Nat
      /\ n["tool_use_prompt_tokens"] \in Nat /\ n["image_input_tokens"] \in Nat
      /\ n["output_tokens"] \in Nat /\ n["reasoning_tokens"] \in Nat /\ n["image_output_tokens"] \in Nat
  BY <1>1
<1> DEFINE detail == n["cached_input_tokens"] + n["cache_write_input_tokens"] + n["tool_use_prompt_tokens"]
           reasoning == IF usage.reasoningIncluded THEN n["reasoning_tokens"] ELSE 0
           i == IF n["input_tokens"] >= detail THEN n["input_tokens"] - detail ELSE n["input_tokens"]
           o == IF n["output_tokens"] >= reasoning THEN n["output_tokens"] - reasoning ELSE n["output_tokens"]
<1>3. /\ b["input_tokens"] = i /\ b["output_tokens"] = o
      /\ \A c \in Components \ {"input_tokens", "output_tokens"} : b[c] = n[c]
  BY <1>1 DEF BilledParts
<1>4. /\ b["input_tokens"] \in Nat /\ b["output_tokens"] \in Nat
      /\ b["cached_input_tokens"] = n["cached_input_tokens"]
      /\ b["cache_write_input_tokens"] = n["cache_write_input_tokens"]
      /\ b["tool_use_prompt_tokens"] = n["tool_use_prompt_tokens"]
      /\ b["image_input_tokens"] = n["image_input_tokens"]
      /\ b["reasoning_tokens"] = n["reasoning_tokens"]
      /\ b["image_output_tokens"] = n["image_output_tokens"]
  BY <1>1, <1>2, <1>3
<1>5. b["input_tokens"] + b["cached_input_tokens"] + b["cache_write_input_tokens"] + b["tool_use_prompt_tokens"]
        + b["image_input_tokens"] <= prompt
  BY <1>2, <1>3, <1>4
<1>6. b["output_tokens"] + b["reasoning_tokens"] + b["image_output_tokens"] <= completion
  BY <1>2, <1>3, <1>4
<1> HIDE DEF b
<1>7. \A c \in InputComponents : c \in DOMAIN r.weights => r.weights[c] \in Nat /\ r.weights[c] <= W
  BY <1>1, RoutesTyped, MaxWeightIs
<1>8. \A c \in OutputComponents : c \in DOMAIN r.weights => r.weights[c] \in Nat /\ r.weights[c] <= V
  BY <1>1, RoutesTyped, MaxWeightIs
<1>9. W \in Nat /\ V \in Nat
  BY <1>1, RoutesTyped, MaxWeightIs
<1> HIDE DEF W, V
<1>10. ASSUME NEW c, c \in InputComponents, b[c] \in Nat PROVE cost(c) \in Nat /\ b[c] * W \in Nat /\ cost(c) <= b[c] * W
  BY <1>7, <1>9, <1>10, Products
<1>11. ASSUME NEW c, c \in OutputComponents, b[c] \in Nat PROVE cost(c) \in Nat /\ b[c] * V \in Nat /\ cost(c) <= b[c] * V
  BY <1>8, <1>9, <1>11, Products
<1>12. CalculateProviderUnits(usage, r.weights) =
         cost("input_tokens") + cost("output_tokens") + cost("cached_input_tokens") + cost("cache_write_input_tokens")
         + cost("reasoning_tokens") + cost("tool_use_prompt_tokens") + cost("image_input_tokens")
         + cost("image_output_tokens")
  BY DEF CalculateProviderUnits, b
<1> HIDE DEF cost
<1> DEFINE b1 == b["input_tokens"]
           b2 == b["cached_input_tokens"]
           b3 == b["cache_write_input_tokens"]
           b4 == b["tool_use_prompt_tokens"]
           b5 == b["image_input_tokens"]
           b6 == b["output_tokens"]
           b7 == b["reasoning_tokens"]
           b8 == b["image_output_tokens"]
<1>13. b1 \in Nat /\ b2 \in Nat /\ b3 \in Nat /\ b4 \in Nat /\ b5 \in Nat /\ b6 \in Nat /\ b7 \in Nat /\ b8 \in Nat
  BY <1>2, <1>4
<1>14. /\ cost("input_tokens") \in Nat /\ cost("input_tokens") <= b1 * W
       /\ cost("cached_input_tokens") \in Nat /\ cost("cached_input_tokens") <= b2 * W
       /\ cost("cache_write_input_tokens") \in Nat /\ cost("cache_write_input_tokens") <= b3 * W
       /\ cost("tool_use_prompt_tokens") \in Nat /\ cost("tool_use_prompt_tokens") <= b4 * W
       /\ cost("image_input_tokens") \in Nat /\ cost("image_input_tokens") <= b5 * W
  BY <1>1, <1>10, <1>13
<1>15. /\ cost("output_tokens") \in Nat /\ cost("output_tokens") <= b6 * V
       /\ cost("reasoning_tokens") \in Nat /\ cost("reasoning_tokens") <= b7 * V
       /\ cost("image_output_tokens") \in Nat /\ cost("image_output_tokens") <= b8 * V
  BY <1>1, <1>11, <1>13
<1>16. b1 + b2 + b3 + b4 + b5 <= prompt /\ b6 + b7 + b8 <= completion
  BY <1>5, <1>6
<1> HIDE DEF b1, b2, b3, b4, b5, b6, b7, b8
<1>17. (b1 + b2 + b3 + b4 + b5) * W = b1 * W + b2 * W + b3 * W + b4 * W + b5 * W
  BY <1>9, <1>13
<1>18. (b6 + b7 + b8) * V = b6 * V + b7 * V + b8 * V
  BY <1>9, <1>13
<1>19. (b1 + b2 + b3 + b4 + b5) * W <= prompt * W /\ prompt * W \in Nat
  BY <1>9, <1>13, <1>16, Products
<1>20. (b6 + b7 + b8) * V <= completion * V /\ completion * V \in Nat
  BY <1>9, <1>13, <1>16, Products
<1> DEFINE x == prompt * W
           y == completion * V
<1>21. /\ b1 * W \in Nat /\ b2 * W \in Nat /\ b3 * W \in Nat /\ b4 * W \in Nat /\ b5 * W \in Nat
       /\ b6 * V \in Nat /\ b7 * V \in Nat /\ b8 * V \in Nat
  BY <1>9, <1>13, Products
<1>22. cost("input_tokens") + cost("cached_input_tokens") + cost("cache_write_input_tokens")
         + cost("tool_use_prompt_tokens") + cost("image_input_tokens") <= x /\ x \in Nat
  BY <1>14, <1>17, <1>19, <1>21
<1>23. cost("output_tokens") + cost("reasoning_tokens") + cost("image_output_tokens") <= y /\ y \in Nat
  BY <1>15, <1>18, <1>20, <1>21
<1>24. EstimateProviderUnits(r.weights, prompt, completion) = x + y
  BY DEF EstimateProviderUnits, W, V
<1> HIDE DEF x, y
<1> QED
  BY <1>12, <1>14, <1>15, <1>22, <1>23, <1>24

\* A Provider job that stays within its estimate is charged no more than was held for it.
LEMMA FewerUnitsAreChargedLess ==
  ASSUME NEW p \in Nat, NEW units \in Nat, NEW estimate \in Nat, units <= estimate, NEW most \in Nat
  PROVE  Credits(ProviderBillable(p, units, most)) <= Credits(ProviderBillable(p, estimate, most))
<1> DEFINE y == most * FeeScale
<1>1. y \in Nat
  BY ConstantsTyped, Products
<1>2. p * units \in Nat /\ p * estimate \in Nat /\ p * units <= p * estimate
  BY Products
<1>3. /\ ProviderBillable(p, units, most) = Smaller(p * units, y)
      /\ ProviderBillable(p, estimate, most) = Smaller(p * estimate, y)
  BY DEF ProviderBillable
<1> HIDE DEF y
<1>4. /\ ProviderBillable(p, units, most) \in Nat /\ ProviderBillable(p, estimate, most) \in Nat
      /\ ProviderBillable(p, units, most) <= ProviderBillable(p, estimate, most)
  BY <1>1, <1>2, <1>3 DEF Smaller
<1> QED
  BY <1>4, CreditsGrow

-----------------------------------------------------------------------------
(* The caches. *)

Fetched(tk) == DOMAIN tk = DOMAIN NoTick /\ tk.listing \in RelayListings \cup {{}}

\* What every snapshot and entry of the caches keeps to.
CachesKept ==
  /\ DOMAIN tick = Tickers /\ \A t \in Tickers : Fetched(tick[t])
  /\ \E listing \in RelayListings \cup {{}} : llmModels \subseteq listing
  /\ \E listing \in RelayListings \cup {{}} : sdModels \subseteq listing
  /\ queue \in Snapshots /\ lastMedian \in Int /\ providerQueue \in Snapshots
  /\ \A q \in DOMAIN times : times[q].time \in TimeListings

\* The empty queue is a snapshot.
LEMMA NoQueueTyped == NoQueue \in Snapshots
BY DEF NoQueue, Snapshots

\* Empty caches are what CachesKept says.
LEMMA CachesKeptInit == CacheInit => CachesKept
<1> SUFFICES ASSUME CacheInit PROVE CachesKept
  OBVIOUS
<1>1. DOMAIN tick = Tickers /\ \A t \in Tickers : tick[t] = NoTick
  BY DEF CacheInit
<1>2. Fetched(NoTick)
  BY DEF Fetched, NoTick
<1>3. llmModels = {} /\ sdModels = {} /\ queue = NoQueue /\ lastMedian = -1 /\ providerQueue = NoQueue /\ DOMAIN times = {}
  BY DEF CacheInit
<1>4. \E listing \in RelayListings \cup {{}} : {} \subseteq listing
  OBVIOUS
<1>5. \A t \in Tickers : Fetched(tick[t])
  BY <1>1, <1>2
<1>6. \A q \in DOMAIN times : times[q].time \in TimeListings
  BY <1>3
<1>7. queue \in Snapshots /\ lastMedian \in Int /\ providerQueue \in Snapshots
  BY <1>3, NoQueueTyped
<1> QED
  BY <1>1, <1>3, <1>4, <1>5, <1>6, <1>7 DEF CachesKept

\* Changing one of these fields of a ticker leaves the rest.
LEMMA FieldKept ==
  ASSUME NEW tk, Fetched(tk), NEW x
  PROVE  Fetched([tk EXCEPT !.at = x]) /\ Fetched([tk EXCEPT !.seen = x])
         /\ Fetched([tk EXCEPT !.chat = x]) /\ Fetched([tk EXCEPT !.image = x])
<1> DEFINE D == {"at", "listing", "seen", "chat", "image"}
<1>1. DOMAIN tk = D /\ tk.listing \in RelayListings \cup {{}} /\ DOMAIN NoTick = D
  BY DEF Fetched, NoTick
<1>2. ASSUME NEW k, k = [tk EXCEPT !.at = x] PROVE Fetched(k)
  BY <1>1, <1>2 DEF Fetched
<1>3. ASSUME NEW k, k = [tk EXCEPT !.seen = x] PROVE Fetched(k)
  BY <1>1, <1>3 DEF Fetched
<1>4. ASSUME NEW k, k = [tk EXCEPT !.chat = x] PROVE Fetched(k)
  BY <1>1, <1>4 DEF Fetched
<1>5. ASSUME NEW k, k = [tk EXCEPT !.image = x] PROVE Fetched(k)
  BY <1>1, <1>5 DEF Fetched
<1> QED
  BY <1>2, <1>3, <1>4, <1>5

\* The actions on the loaded models and on the catalog.
LEMMA TickersKept ==
  ASSUME CachesKept, LoadNext \/ CatalogNext
  PROVE  CachesKept'
<1> DEFINE Snapshot(rows) == \E listing \in RelayListings \cup {{}} : rows \subseteq listing
           Ticks == DOMAIN tick = Tickers /\ \A t \in Tickers : Fetched(tick[t])
<1>1. Ticks /\ Snapshot(llmModels) /\ Snapshot(sdModels)
  BY DEF CachesKept
<1>2. UNCHANGED <<queueVars, times>>
  BY DEF LoadNext, CatalogNext, FetchLoadedModels, ReplaceLLMModels, ReplaceSDModels, CatalogTick,
         BeginCatalogRefresh, QueryFails, ListChat, ListImages, WriteCatalog, QueryEnabledKeys, ChangeKeys
<1>3. SUFFICES Ticks' /\ Snapshot(llmModels)' /\ Snapshot(sdModels)'
  BY <1>2 DEF CachesKept, queueVars
<1>4. "loaded" \in Tickers /\ "catalog" \in Tickers
  BY DEF Tickers
<1>5. Fetched(NoTick)
  BY DEF Fetched, NoTick
<1>6. ASSUME NEW t \in Tickers, NEW tk, Fetched(tk), tick' = [tick EXCEPT ![t] = tk] PROVE Ticks'
  <2>1. DOMAIN tick' = Tickers /\ \A s \in Tickers : tick'[s] = IF s = t THEN tk ELSE tick[s]
    BY <1>1, <1>6
  <2> QED
    BY <1>1, <1>6, <2>1
<1>7. CASE FetchLoadedModels
  <2>1. PICK listing \in RelayListings :
          tick' = [tick EXCEPT !["loaded"] = [NoTick EXCEPT !.at = "fetched", !.listing = listing]]
    BY <1>7 DEF FetchLoadedModels
  <2> DEFINE tk == [NoTick EXCEPT !.at = "fetched", !.listing = listing]
  <2>2. Fetched(tk)
    BY DEF Fetched, NoTick
  <2> HIDE DEF tk
  <2>3. tick' = [tick EXCEPT !["loaded"] = tk]
    BY <2>1 DEF tk
  <2>4. Ticks'
    BY <1>4, <1>6, <2>2, <2>3
  <2> QED
    BY <1>1, <1>7, <2>4 DEF FetchLoadedModels
<1>8. ASSUME NEW t \in Tickers, NEW at, Step(t, at) PROVE Ticks'
  <2> DEFINE tk == [tick[t] EXCEPT !.at = at]
  <2>1. Fetched(tk)
    BY <1>1, FieldKept
  <2>2. tick' = [tick EXCEPT ![t] = tk]
    BY <1>8 DEF Step
  <2> HIDE DEF tk
  <2> QED
    BY <1>6, <2>1, <2>2
<1>9. \A type : Kept(tick["loaded"].listing, type) \subseteq tick["loaded"].listing
      /\ tick["loaded"].listing \in RelayListings \cup {{}}
  BY <1>1, <1>4 DEF Kept, Fetched
<1>10. CASE ReplaceLLMModels
  <2>1. Ticks'
    BY <1>4, <1>8, <1>10 DEF ReplaceLLMModels
  <2> QED
    BY <1>1, <1>9, <1>10, <2>1 DEF ReplaceLLMModels
<1>11. CASE ReplaceSDModels
  <2>1. Ticks'
    BY <1>4, <1>8, <1>11 DEF ReplaceSDModels
  <2> QED
    BY <1>1, <1>9, <1>11, <2>1 DEF ReplaceSDModels
<1>12. ASSUME CatalogNext PROVE UNCHANGED <<llmModels, sdModels>>
  BY <1>12 DEF CatalogNext, CatalogTick, BeginCatalogRefresh, QueryFails, ListChat, ListImages, WriteCatalog,
              QueryEnabledKeys, ChangeKeys
<1>13. ASSUME CatalogTick PROVE Ticks'
  BY <1>4, <1>8, <1>13 DEF CatalogTick
<1>14. ASSUME NEW t \in Tickers, BeginCatalogRefresh(t) PROVE Ticks'
  <2> DEFINE tk == [NoTick EXCEPT !.at = "query"]
  <2>1. Fetched(tk)
    BY <1>5, FieldKept
  <2>2. tick' = [tick EXCEPT ![t] = tk]
    BY <1>14 DEF BeginCatalogRefresh
  <2> HIDE DEF tk
  <2> QED
    BY <1>6, <2>1, <2>2
<1>15. ASSUME NEW t \in Tickers, QueryFails(t) PROVE Ticks'
  <2> DEFINE seen == [tick[t] EXCEPT !.seen = catalog.seen]
             tk == [seen EXCEPT !.at = "chat"]
  <2>1. Fetched(seen)
    BY <1>1, FieldKept
  <2>2. Fetched(tk)
    <3> HIDE DEF seen
    <3> QED
      BY <2>1, FieldKept
  <2>3. tick' = [tick EXCEPT ![t] = tk]
    <3>1. tick[t] = tick[t] /\ DOMAIN tick = Tickers /\ DOMAIN tick[t] = DOMAIN NoTick
      BY <1>1 DEF Fetched
    <3> QED
      BY <1>15, <3>1 DEF QueryFails, NoTick
  <2> HIDE DEF tk
  <2> QED
    BY <1>6, <2>2, <2>3
<1>16. ASSUME NEW t \in Tickers, ListChat(t) PROVE Ticks'
  <2> DEFINE chat == [tick[t] EXCEPT !.chat = Visible(llmModels)]
             tk == [chat EXCEPT !.at = "image"]
  <2>1. Fetched(chat)
    BY <1>1, FieldKept
  <2>2. Fetched(tk)
    <3> HIDE DEF chat
    <3> QED
      BY <2>1, FieldKept
  <2>3. tick' = [tick EXCEPT ![t] = tk]
    <3>1. DOMAIN tick = Tickers /\ DOMAIN tick[t] = DOMAIN NoTick
      BY <1>1 DEF Fetched
    <3> QED
      BY <1>16, <3>1 DEF ListChat, NoTick
  <2> HIDE DEF tk
  <2> QED
    BY <1>6, <2>2, <2>3
<1>17. ASSUME NEW t \in Tickers, ListImages(t) PROVE Ticks'
  <2> DEFINE image == [tick[t] EXCEPT !.image = Visible(sdModels)]
             tk == [image EXCEPT !.at = "write"]
  <2>1. Fetched(image)
    BY <1>1, FieldKept
  <2>2. Fetched(tk)
    <3> HIDE DEF image
    <3> QED
      BY <2>1, FieldKept
  <2>3. tick' = [tick EXCEPT ![t] = tk]
    <3>1. DOMAIN tick = Tickers /\ DOMAIN tick[t] = DOMAIN NoTick
      BY <1>1 DEF Fetched
    <3> QED
      BY <1>17, <3>1 DEF ListImages, NoTick
  <2> HIDE DEF tk
  <2> QED
    BY <1>6, <2>2, <2>3
<1>18. ASSUME NEW t \in Tickers, WriteCatalog(t) PROVE Ticks'
  BY <1>5, <1>6, <1>18 DEF WriteCatalog
<1>19. ASSUME NEW t \in Tickers, NEW p, QueryEnabledKeys(t, p) PROVE Ticks'
  <2> DEFINE seen == [q \in DOMAIN tick[t].seen \cup {p} |-> IF q = p THEN keyChanges[p] ELSE tick[t].seen[q]]
             tk == [tick[t] EXCEPT !.seen = seen]
  <2>1. tick' = [tick EXCEPT ![t] = tk]
    BY <1>19 DEF QueryEnabledKeys
  <2> HIDE DEF seen
  <2>2. Fetched(tk)
    BY <1>1, FieldKept
  <2> HIDE DEF tk
  <2> QED
    BY <1>6, <2>1, <2>2
<1>20. ASSUME NEW p, ChangeKeys(p) PROVE Ticks'
  BY <1>1, <1>20 DEF ChangeKeys, tickVars
<1>21. CASE CatalogNext
  <2>1. Ticks'
    <3> HIDE DEF Ticks
    <3> QED
      BY <1>13, <1>14, <1>15, <1>16, <1>17, <1>18, <1>19, <1>20, <1>21 DEF CatalogNext
  <2> QED
    BY <1>1, <1>12, <1>21, <2>1
<1> QED
  BY <1>7, <1>10, <1>11, <1>21 DEF LoadNext

\* The refreshes of the queue priorities.
LEMMA HintsKept ==
  ASSUME CachesKept, HintNext
  PROVE  CachesKept'
<1>1. CASE RefreshQueuedPriority
  <2>1. UNCHANGED <<llmModels, sdModels, tick, providerQueue, times>>
    BY <1>1 DEF RefreshQueuedPriority
  <2>2. PICK s \in QueueListings : queue' = s /\ lastMedian' = IF s.median # -1 /\ s.count > 0 THEN s.median ELSE lastMedian
    BY <1>1 DEF RefreshQueuedPriority
  <2>3. s \in Snapshots /\ s.median \in Int
    BY CachesAssumption DEF Snapshots
  <2>4. queue' \in Snapshots /\ lastMedian' \in Int
    BY <2>2, <2>3 DEF CachesKept
  <2> QED
    BY <2>1, <2>4 DEF CachesKept
<1>2. CASE RefreshProviderQueue
  <2>1. UNCHANGED <<llmModels, sdModels, tick, queue, lastMedian, times>>
    BY <1>2 DEF RefreshProviderQueue
  <2>2. PICK first \in ProviderQueues, second \in ProviderQueues :
          providerQueue' = IF first = {} THEN NoQueue
                           ELSE IF second = {} THEN providerQueue
                           ELSE [NoQueue EXCEPT !.count = 1, !.lowest = Min(first), !.highest = Max(second)]
    BY <1>2 DEF RefreshProviderQueue
  <2>3. CASE first # {} /\ second # {}
    <3>1. first \in SUBSET Nat /\ second \in SUBSET Nat /\ IsFiniteSet(second)
      BY CachesAssumption
    <3>2. Min(first) \in Nat /\ Max(second) \in Nat
      BY <2>3, <3>1, LeastIsMin, GreatestIsMax
    <3>3. providerQueue' = [count |-> 1, highest |-> Max(second), median |-> -1, lowest |-> Min(first)]
      BY <2>2, <2>3 DEF NoQueue
    <3> QED
      BY <2>1, <3>2, <3>3 DEF CachesKept, Snapshots
  <2>4. CASE first = {} \/ second = {}
    <3>1. providerQueue' = NoQueue \/ providerQueue' = providerQueue
      BY <2>2, <2>4
    <3> QED
      BY <2>1, <3>1, NoQueueTyped DEF CachesKept
  <2> QED
    BY <2>3, <2>4
<1> QED
  BY <1>1, <1>2 DEF HintNext

\* An entry that Relay answered.
LEMMA TimesKept ==
  ASSUME CachesKept, NEW query, NEW time \in TimeListings, CacheTime(query, time),
         UNCHANGED <<llmModels, sdModels, tick, queueVars>>
  PROVE  CachesKept'
<1>1. \A q \in DOMAIN times' : q = query \/ q \in DOMAIN times
  BY DEF CacheTime
<1>2. \A q \in DOMAIN times' : times'[q].time \in TimeListings
  BY DEF CacheTime, CachesKept
<1> QED
  BY <1>2 DEF CachesKept, queueVars

\* The clock, and the steps elsewhere, leave the caches as they are.
LEMMA CachesUnchanged ==
  ASSUME CachesKept, UNCHANGED <<llmModels, sdModels, tick, queueVars, times>>
  PROVE  CachesKept'
BY DEF CachesKept, queueVars

\* pickBest returns one of the rows, which the order of ties makes unique.
LEMMA BestIsOne ==
  ASSUME NEW listing \in RelayListings \cup {{}}, NEW rows, rows \subseteq listing, rows # {}
  PROVE  Best(rows) \in rows /\ Best(rows).vram \in Nat
<1> DEFINE R == {p \in rows \X rows : Better(p[1], p[2])}
<1>1. /\ IsFiniteSet(rows)
      /\ \A r \in rows : r.vram \in Nat /\ r.order \in Nat
      /\ \A r, s \in rows : r.order = s.order => r = s
  <2>1. listing \in RelayListings
    OBVIOUS
  <2>2. IsFiniteSet(listing)
    BY <2>1, CachesAssumption
  <2> QED
    BY <2>1, <2>2, CachesAssumption, FS_Subset
<1>2. \A x, y \in rows : <<x, y>> \in R <=> Better(x, y)
  OBVIOUS
<1>3. \A x, y, z \in rows : <<x, y>> \in R /\ <<y, z>> \in R => <<x, z>> \in R
  BY <1>1, <1>2 DEF Better
<1>4. \A x \in rows : <<x, x>> \notin R
  BY <1>1, <1>2 DEF Better
<1> HIDE DEF R
<1>5. PICK x \in rows : \A y \in rows : <<y, x>> \notin R
  BY <1>1, <1>3, <1>4, FiniteBest
<1>6. ASSUME NEW s \in rows \ {x} PROVE Better(x, s)
  <2>1. ~Better(s, x) /\ s.order # x.order
    BY <1>1, <1>2, <1>5
  <2>2. s.vram \in Nat /\ s.order \in Nat /\ x.vram \in Nat /\ x.order \in Nat
    BY <1>1
  <2> QED
    BY <2>1, <2>2 DEF Better
<1>7. \E r \in rows : \A s \in rows \ {r} : Better(r, s)
  BY <1>6
<1>8. Best(rows) \in rows
  BY <1>7 DEF Best
<1> QED
  BY <1>1, <1>8

\* The vram that is resolved from the loaded models, or the default, is a number.
LEMMA LimitsTyped ==
  ASSUME CachesKept
  PROVE  /\ \A model : EffectiveVram(model, -1) \in Nat
         /\ \A ask : RawVram(ask) \in Nat
         /\ \A ask : ResolveImageExecution(ask).ok => ResolveImageExecution(ask).vram \in Nat
<1>1. DefaultVram \in Nat
  BY CachesAssumption
<1>2. ASSUME NEW rows, rows \subseteq llmModels \/ rows \subseteq sdModels, rows # {} PROVE Best(rows).vram \in Nat
  <2>1. PICK listing \in RelayListings \cup {{}} : rows \subseteq listing
    BY <1>2 DEF CachesKept
  <2> QED
    BY <1>2, <2>1, BestIsOne
<1>3. \A model, dtype, quant : MatchingLLM(model, dtype, quant) \subseteq llmModels
  BY DEF MatchingLLM
<1>4. ASSUME NEW model PROVE EffectiveVram(model, -1) \in Nat
  <2> DEFINE rows == MatchingLLM(model, "", "")
  <2>1. EffectiveVram(model, -1) = IF rows # {} THEN Best(rows).vram ELSE DefaultVram
    BY DEF EffectiveVram
  <2>2. rows \subseteq llmModels
    BY <1>3
  <2> HIDE DEF rows
  <2> QED
    BY <1>1, <1>2, <2>1, <2>2
<1>5. ASSUME NEW ask PROVE RawVram(ask) \in Nat
  <2> DEFINE any == MatchingLLM(ask.model, "", "")
             exact == {r \in any : r.dtype = ask.dtype /\ r.quant = IF ask.quant = "" THEN "null" ELSE ask.quant}
  <2>1. RawVram(ask) = IF exact # {} /\ Best(exact).vram > 0 THEN Best(exact).vram
                       ELSE IF any # {} /\ Best(any).vram > 0 THEN Best(any).vram ELSE DefaultVram
    BY DEF RawVram
  <2>2. any \subseteq llmModels /\ exact \subseteq llmModels
    BY <1>3
  <2> HIDE DEF any, exact
  <2> QED
    BY <1>1, <1>2, <2>1, <2>2
<1>6. ASSUME NEW ask, ResolveImageExecution(ask).ok PROVE ResolveImageExecution(ask).vram \in Nat
  <2> DEFINE rows == MatchingSD(ask, ask.dtype \in ConcreteDTypes)
             vram == IF rows # {} /\ Best(rows).vram > 0 THEN Best(rows).vram ELSE DefaultVram
  <2>1. ResolveImageExecution(ask).ok => ResolveImageExecution(ask).vram = vram
    BY DEF ResolveImageExecution
  <2>2. rows \subseteq sdModels
    BY DEF MatchingSD
  <2> HIDE DEF rows
  <2>3. vram \in Nat
    BY <1>1, <1>2, <2>2
  <2> QED
    BY <1>6, <2>1, <2>3
<1> QED
  BY <1>4, <1>5, <1>6

-----------------------------------------------------------------------------
(* The project. *)

\* A project row, once it is created, and a row that a handler loaded.
Rows == [status : {"active", "deleted"}, key : Nat, mode : {"static", "auto"},
         priority : MinPriority..MaxPriority, position : Int, maxCredits : Nat]

ProjectKept ==
  /\ project.status # "none" => project \in Rows
  /\ DOMAIN editing = Handlers
  /\ \A h \in Handlers : editing[h] = NoEdit \/ (editing[h].edit \in Edits /\ editing[h].row \in Rows)

\* The static priorities are priorities.
LEMMA StaticBoundsAreBounds ==
  ASSUME HasStaticBounds
  PROVE  /\ StaticBounds.lo \in MinPriority..MaxPriority /\ StaticBounds.hi \in MinPriority..MaxPriority
         /\ \A p \in Int : Clamp(p, StaticBounds.lo, StaticBounds.hi) \in MinPriority..MaxPriority
<1> DEFINE low == Larger(MinPriority, Kgwei)
           x == low + Kgwei - 1
<1>1. MinPriority \in Nat \ {0} /\ MaxPriority \in Nat /\ Kgwei \in Nat \ {0}
  BY ConstantsTyped, PricingAssumption
<1>2. low \in Nat /\ MinPriority <= low
  BY <1>1 DEF Larger
<1>3. StaticBounds.lo = (x \div Kgwei) * Kgwei /\ StaticBounds.hi = (MaxPriority \div Kgwei) * Kgwei
  BY DEF StaticBounds
<1> HIDE DEF low
<1>4. x \in Nat /\ x = low + Kgwei - 1
  BY <1>1, <1>2
<1> HIDE DEF x
<1>5. x \div Kgwei \in Nat /\ x < (x \div Kgwei + 1) * Kgwei
  BY <1>1, <1>4, Quotients
<1>6. (x \div Kgwei + 1) * Kgwei = (x \div Kgwei) * Kgwei + Kgwei
  BY <1>1, <1>5
<1>7. (MaxPriority \div Kgwei) * Kgwei <= MaxPriority /\ MaxPriority \div Kgwei \in Nat
  BY <1>1, Quotients
<1>8. (MaxPriority \div Kgwei) * Kgwei \in Nat /\ (x \div Kgwei) * Kgwei \in Nat
  BY <1>1, <1>5, <1>7, Products
<1> DEFINE a == (x \div Kgwei) * Kgwei
           b == (MaxPriority \div Kgwei) * Kgwei
<1>9. StaticBounds.lo = a /\ StaticBounds.hi = b /\ a \in Nat /\ b \in Nat /\ x < a + Kgwei /\ b <= MaxPriority /\ a <= b
  BY <1>3, <1>5, <1>6, <1>7, <1>8 DEF HasStaticBounds
<1> HIDE DEF a, b
<1>10. MinPriority <= a /\ a <= b /\ b <= MaxPriority
  BY <1>1, <1>2, <1>4, <1>9
<1> QED
  BY <1>1, <1>9, <1>10 DEF Clamp

\* A static priority the API accepts is a priority.
LEMMA StaticPrioritiesAre ==
  ASSUME NEW p, IsStaticPriority(p)
  PROVE  p \in MinPriority..MaxPriority
<1>1. HasStaticBounds /\ p \in StaticBounds.lo..StaticBounds.hi
  BY DEF IsStaticPriority
<1> QED
  BY <1>1, StaticBoundsAreBounds, ConstantsTyped

\* A project that is not yet created keeps the invariant.
LEMMA ProjectKeptInit == ProjectInit => ProjectKept
BY DEF ProjectInit, ProjectKept, NoProject

\* A project is created at a priority, whatever the queue says.
LEMMA InitialPriority ==
  ASSUME CachesKept, HasStaticBounds
  PROVE  InitialProjectPriority \in MinPriority..MaxPriority
<1>1. QueueMedianHint \in Int
  BY PricingAssumption DEF QueueMedianHint, CachesKept, Snapshots, LLMConfigIsChecked
<1>2. ClampPriority(QueueMedianHint) \in Int
  BY <1>1, ConstantsTyped DEF ClampPriority, Clamp
<1> DEFINE p == ClampPriority(QueueMedianHint)
<1> HIDE DEF p
<1>3. ((p + Kgwei \div 2) \div Kgwei) * Kgwei \in Int
  <2>1. p \in Int /\ Kgwei \in Nat \ {0}
    BY <1>2, PricingAssumption DEF p
  <2>2. p + Kgwei \div 2 \in Int
    BY <2>1
  <2> DEFINE y == p + Kgwei \div 2
  <2> HIDE DEF y
  <2>3. y \div Kgwei \in Int
    BY <2>1, <2>2 DEF y
  <2> DEFINE z == y \div Kgwei
  <2> HIDE DEF z
  <2>4. z * Kgwei \in Int
    BY <2>1, <2>3 DEF z
  <2> QED
    BY <2>4 DEF z, y
<1>4. InitialProjectPriority = Clamp(((p + Kgwei \div 2) \div Kgwei) * Kgwei, StaticBounds.lo, StaticBounds.hi)
  BY DEF InitialProjectPriority, NormalizeStaticPriority, p
<1> QED
  BY <1>3, <1>4, StaticBoundsAreBounds

\* A valid edit of a row makes a row.
LEMMA UpdatesAreRows ==
  ASSUME NEW row \in Rows, NEW e \in Edits, IsValidUpdate(e, row)
  PROVE  Updated(row, e) \in Rows
<1>1. e \in ProjectEdits
  BY ProjectsAssumption
<1>2. e.mode \in {"", "static", "auto"} /\ e.priority \in Nat /\ e.position \in Int /\ e.maxCredits \in Nat
  BY <1>1 DEF ProjectEdits
<1>3. e.priority # 0 => e.priority \in MinPriority..MaxPriority
  BY StaticPrioritiesAre DEF IsValidUpdate
<1> DEFINE mode == IF e.mode # "" THEN e.mode ELSE row.mode
           priority == IF e.priority # 0 THEN e.priority ELSE row.priority
           position == IF e.position # -1 THEN e.position
                       ELSE IF e.mode = "auto" /\ row.position = -1 THEN 50 ELSE row.position
           maxCredits == IF e.maxCredits # 0 THEN e.maxCredits ELSE row.maxCredits
<1>4. Updated(row, e) =
        [row EXCEPT !.mode = mode, !.priority = priority, !.position = position, !.maxCredits = maxCredits]
  BY DEF Updated
<1>5. /\ mode \in {"static", "auto"} /\ priority \in MinPriority..MaxPriority /\ position \in Int
      /\ maxCredits \in Nat
  <2>1. row.mode \in {"static", "auto"} /\ row.priority \in MinPriority..MaxPriority /\ row.position \in Int
        /\ row.maxCredits \in Nat
    BY DEF Rows
  <2>2. mode \in {"static", "auto"}
    BY <1>2, <2>1
  <2>3. priority \in MinPriority..MaxPriority
    BY <1>3, <2>1
  <2>4. position \in Int
    <3>1. position = e.position \/ position = 50 \/ position = row.position
      OBVIOUS
    <3>2. e.position \in Int
      BY <1>2
    <3>3. row.position \in Int
      BY <2>1
    <3>4. 50 \in Int
      OBVIOUS
    <3> HIDE DEF position
    <3> QED
      BY <3>1, <3>2, <3>3, <3>4
  <2>5. maxCredits \in Nat
    BY <1>2, <2>1
  <2> QED
    BY <2>2, <2>3, <2>4, <2>5
<1> HIDE DEF mode, priority, position, maxCredits
<1>6. [row EXCEPT !.mode = mode, !.priority = priority, !.position = position, !.maxCredits = maxCredits] \in Rows
  BY <1>5 DEF Rows
<1> QED
  BY <1>4, <1>6

\* The handlers of a project keep the invariant, on whatever copy they work.
LEMMA ProjectSteps ==
  ASSUME CachesKept, ProjectKept, ProjectNext
  PROVE  ProjectKept'
<1>1. CASE CreateProject
  <2>1. project' = NewProject /\ editing' = editing
    BY <1>1 DEF CreateProject
  <2>2. NewProject \in Rows
    <3>1. InitialProjectPriority \in MinPriority..MaxPriority
      BY <1>1, InitialPriority DEF CreateProject
    <3> QED
      BY <3>1, ProjectsAssumption DEF NewProject, Rows
  <2> QED
    BY <2>1, <2>2 DEF ProjectKept
<1>2. ASSUME NEW h \in Handlers, FindProject(h) PROVE ProjectKept'
  <2>1. PICK e \in Edits : editing' = [editing EXCEPT ![h] = [edit |-> e, row |-> project]]
    BY <1>2 DEF FindProject
  <2>2. project' = project /\ project \in Rows
    BY <1>2 DEF FindProject, ProjectKept
  <2> QED
    BY <2>1, <2>2 DEF ProjectKept
<1>3. ASSUME NEW h \in Handlers, editing[h] # NoEdit, project' = project \/ project' \in Rows,
             editing' = [editing EXCEPT ![h] = NoEdit]
      PROVE  ProjectKept'
  BY <1>3 DEF ProjectKept
<1>4. ASSUME NEW h \in Handlers, editing[h].edit.kind \in {"update", "delete", "reset"}
      PROVE  editing[h] # NoEdit /\ editing[h].edit \in Edits /\ editing[h].row \in Rows
  BY <1>4 DEF ProjectKept, NoEdit
<1>5. ASSUME NEW h \in Handlers, UpdateProject(h) PROVE ProjectKept'
  <2>1. editing[h] # NoEdit /\ editing[h].edit \in Edits /\ editing[h].row \in Rows
    BY <1>4, <1>5 DEF UpdateProject
  <2>2. project' = project \/ project' \in Rows
    BY <1>5, <2>1, UpdatesAreRows DEF UpdateProject
  <2> QED
    BY <1>3, <1>5, <2>1, <2>2 DEF UpdateProject
<1>6. ASSUME NEW h \in Handlers, DeleteProject(h) PROVE ProjectKept'
  <2>1. editing[h] # NoEdit /\ editing[h].row \in Rows
    BY <1>4, <1>6 DEF DeleteProject
  <2>2. project' \in Rows
    BY <1>6, <2>1 DEF DeleteProject, Rows
  <2> QED
    BY <1>3, <1>6, <2>1, <2>2 DEF DeleteProject
<1>7. ASSUME NEW h \in Handlers, ResetAPIKey(h) PROVE ProjectKept'
  <2>1. editing[h] # NoEdit /\ editing[h].row \in Rows /\ editing[h].edit \in ProjectEdits
    BY <1>4, <1>7, ProjectsAssumption DEF ResetAPIKey
  <2>2. project' \in Rows
    BY <1>7, <2>1 DEF ResetAPIKey, Rows, ProjectEdits
  <2> QED
    BY <1>3, <1>7, <2>1, <2>2 DEF ResetAPIKey
<1> QED
  BY <1>1, <1>2, <1>5, <1>6, <1>7 DEF ProjectNext

\* The priority a row asks for, on whatever snapshot there is, is a priority.
LEMMA WishesArePriorities ==
  ASSUME NEW row \in Rows, CachesKept
  PROVE  /\ ResolveEffectivePriority(row, queue).error = "none" =>
              ResolveEffectivePriority(row, queue).priority \in MinPriority..MaxPriority
         /\ ProviderEffectivePriority(row).error = "none" =>
              ProviderEffectivePriority(row).priority \in MinPriority..MaxPriority
<1>1. MinPriority \in Nat /\ MaxPriority \in Nat /\ MinPriority <= MaxPriority
  BY ConstantsTyped
<1>2. \A n \in Int : ClampPriority(n) \in MinPriority..MaxPriority
  BY <1>1 DEF ClampPriority, Clamp
<1> DEFINE position == IF row.position = -1 THEN 50 ELSE row.position
<1>3. position \in Int
  BY DEF Rows
<1> HIDE DEF position
<1>4. ASSUME NEW a \in Int, NEW b \in Int PROVE a + ((b - a) * position) \div 100 \in Int
  BY <1>3
<1>5. row.priority \in MinPriority..MaxPriority
  BY DEF Rows
<1>6. queue.lowest \in Int /\ queue.highest \in Int /\ providerQueue.lowest \in Int /\ providerQueue.highest \in Int
  BY DEF CachesKept, Snapshots
<1>7. AutoPriority(row, queue) \in MinPriority..MaxPriority
  BY <1>1, <1>2, <1>4, <1>6 DEF AutoPriority, position
<1>8. \/ ProviderEffectivePriority(row).error # "none"
      \/ ProviderEffectivePriority(row) = Accepted(row.priority)
      \/ ProviderEffectivePriority(row) = Accepted(MinPriority)
      \/ ProviderEffectivePriority(row) =
           Accepted(ClampPriority(providerQueue.lowest + ((providerQueue.highest - providerQueue.lowest) * position) \div 100))
  BY DEF ProviderEffectivePriority, Rejected, position
<1>9. \A p : Accepted(p).priority = p
  BY DEF Accepted
<1>10. ProviderEffectivePriority(row).error = "none" =>
         ProviderEffectivePriority(row).priority \in MinPriority..MaxPriority
  <2>1. ClampPriority(providerQueue.lowest + ((providerQueue.highest - providerQueue.lowest) * position) \div 100)
          \in MinPriority..MaxPriority
    BY <1>2, <1>4, <1>6
  <2>2. MinPriority \in MinPriority..MaxPriority
    BY <1>1
  <2> QED
    BY <1>5, <1>8, <1>9, <2>1, <2>2
<1>11. ResolveEffectivePriority(row, queue).error = "none" =>
         ResolveEffectivePriority(row, queue).priority \in MinPriority..MaxPriority
  BY <1>5, <1>7 DEF ResolveEffectivePriority, Accepted, Rejected
<1> QED
  BY <1>10, <1>11

-----------------------------------------------------------------------------
(* The usage a stream reports. *)

Counted(u) == u.known => u.report.parts \in [Components -> Nat]
IsMessage(m) == DOMAIN m = DOMAIN NoMessage /\ Counted(m.usage)

\* A stream that was confirmed has reported usage.
StreamKept ==
  /\ DOMAIN upstream = DOMAIN NoCall /\ IsMessage(upstream.message)
  /\ upstream.at \notin {"none", "settled"} => upstream.service \in ServiceProviders
  /\ upstream.at = "confirmed" => upstream.message.usage.known

\* The usage read from a report of each provider counts its parts.
LEMMA UsagesCount ==
  ASSUME NEW r \in Reports
  PROVE  /\ OpenAIUsage(r).parts \in [Components -> Nat]
         /\ AnthropicUsage(r).parts \in [Components -> Nat]
         /\ GoogleUsage(r).parts \in [Components -> Nat]
         /\ \A provider : ImageUsage(provider, r).parts \in [Components -> Nat]
<1>1. r \in [Components -> Nat]
  BY StreamsAssumption
<1>2. \A comps : Only(r, comps) \in [Components -> Nat]
  BY <1>1 DEF Only
<1>3. OpenAIUsage(r).parts \in [Components -> Nat]
  BY <1>2 DEF OpenAIUsage
<1>4. AnthropicUsage(r).parts \in [Components -> Nat]
  BY <1>2 DEF AnthropicUsage
<1>5. GoogleUsage(r).parts \in [Components -> Nat]
  BY <1>2 DEF GoogleUsage
<1>6. ASSUME NEW provider PROVE ImageUsage(provider, r).parts \in [Components -> Nat]
  <2> DEFINE comps == {"input_tokens", "image_output_tokens"}
                        \cup IF provider = "openai" THEN {"image_input_tokens"} ELSE {"reasoning_tokens"}
  <2>1. ImageUsage(provider, r).parts = Only(r, comps)
    BY DEF ImageUsage
  <2> HIDE DEF comps
  <2> QED
    BY <1>2, <2>1
<1> QED
  BY <1>3, <1>4, <1>5, <1>6

\* The fields of a message; the empty one has no usage yet.
LEMMA MessageFields ==
  DOMAIN NoMessage = {"text", "tools", "finish", "usage"} /\ IsMessage(NoMessage)
BY DEF NoMessage, IsMessage, NoUsage, Counted

\* What a chunk does to a message leaves it one.
LEMMA MessageGrows ==
  ASSUME NEW m, IsMessage(m), NEW n, DOMAIN n = DOMAIN m, n.usage = m.usage \/ Counted(n.usage)
  PROVE  IsMessage(n)
BY DEF IsMessage

\* Each thing a chunk can say leaves a message.
LEMMA ChunkPartsKept ==
  ASSUME NEW m, IsMessage(m)
  PROVE  /\ \A text, emitted : IsMessage(TextDelta(m, text, emitted).message)
         /\ \A id, args : IsMessage(OpenTool(m, id, args).message)
         /\ \A i, args, emitted : IsMessage(MoreArgs(m, i, args, emitted).message)
         /\ \A u : u.parts \in [Components -> Nat] => IsMessage(WithUsage(m, u).message)
         /\ \A reason, events : IsMessage(Chunk([m EXCEPT !.finish = reason], events).message)
         /\ \A i, events : IsMessage(Chunk([m EXCEPT !.tools[i].open = FALSE], events).message)
<1>0. DOMAIN m = {"text", "tools", "finish", "usage"} /\ Counted(m.usage)
  BY MessageFields DEF IsMessage
<1>1. \A k, events : Chunk(k, events).message = k
  BY DEF Chunk
<1>2. ASSUME NEW text, NEW emitted PROVE IsMessage(TextDelta(m, text, emitted).message)
  <2> DEFINE n == TextDelta(m, text, emitted).message
  <2>1. n = [m EXCEPT !.text = text]
    BY <1>1 DEF TextDelta
  <2>2. DOMAIN n = DOMAIN m /\ n.usage = m.usage
    BY <1>0, <2>1
  <2> HIDE DEF n
  <2>3. IsMessage(n)
    BY <2>2, MessageGrows
  <2> QED
    BY <2>3 DEF n
<1>3. ASSUME NEW id, NEW args PROVE IsMessage(OpenTool(m, id, args).message)
  <2> DEFINE n == OpenTool(m, id, args).message
  <2>1. n = [m EXCEPT !.tools = Append(m.tools, [id |-> id, args |-> args, open |-> TRUE])]
    BY <1>1 DEF OpenTool
  <2>2. DOMAIN n = DOMAIN m /\ n.usage = m.usage
    BY <1>0, <2>1
  <2> HIDE DEF n
  <2>3. IsMessage(n)
    BY <2>2, MessageGrows
  <2> QED
    BY <2>3 DEF n
<1>4. ASSUME NEW i, NEW args, NEW emitted PROVE IsMessage(MoreArgs(m, i, args, emitted).message)
  <2> DEFINE n == MoreArgs(m, i, args, emitted).message
  <2>1. n = [m EXCEPT !.tools[i].args = args]
    BY <1>1 DEF MoreArgs
  <2>2. DOMAIN n = DOMAIN m /\ n.usage = m.usage
    BY <1>0, <2>1
  <2> HIDE DEF n
  <2>3. IsMessage(n)
    BY <2>2, MessageGrows
  <2> QED
    BY <2>3 DEF n
<1>5. ASSUME NEW u, u.parts \in [Components -> Nat] PROVE IsMessage(WithUsage(m, u).message)
  <2> DEFINE n == WithUsage(m, u).message
             x == [known |-> TRUE, report |-> u]
  <2>1. n = [m EXCEPT !.usage = x]
    BY <1>1 DEF WithUsage
  <2>2. Counted(x)
    BY <1>5 DEF Counted
  <2> HIDE DEF x
  <2>3. DOMAIN n = DOMAIN m /\ n.usage = x
    BY <1>0, <2>1
  <2> HIDE DEF n
  <2>4. IsMessage(n)
    BY <2>2, <2>3, MessageGrows
  <2> QED
    BY <2>4 DEF n
<1>6. ASSUME NEW reason, NEW events PROVE IsMessage(Chunk([m EXCEPT !.finish = reason], events).message)
  <2> DEFINE n == Chunk([m EXCEPT !.finish = reason], events).message
  <2>1. n = [m EXCEPT !.finish = reason]
    BY <1>1
  <2>2. DOMAIN n = DOMAIN m /\ n.usage = m.usage
    BY <1>0, <2>1
  <2> HIDE DEF n
  <2>3. IsMessage(n)
    BY <2>2, MessageGrows
  <2> QED
    BY <2>3 DEF n
<1>7. ASSUME NEW i, NEW events PROVE IsMessage(Chunk([m EXCEPT !.tools[i].open = FALSE], events).message)
  <2> DEFINE n == Chunk([m EXCEPT !.tools[i].open = FALSE], events).message
  <2>1. n = [m EXCEPT !.tools[i].open = FALSE]
    BY <1>1
  <2>2. DOMAIN n = DOMAIN m /\ n.usage = m.usage
    BY <1>0, <2>1
  <2> HIDE DEF n
  <2>3. IsMessage(n)
    BY <2>2, MessageGrows
  <2> QED
    BY <2>3 DEF n
<1> QED
  BY <1>2, <1>3, <1>4, <1>5, <1>6, <1>7

\* The chunks of text, tool calls and ends that the providers share.
LEMMA ContentKept ==
  ASSUME NEW m, IsMessage(m)
  PROVE  /\ \A c \in TextPieces(m) : IsMessage(c.message)
         /\ \A c \in ToolStarts(m) : IsMessage(c.message)
         /\ \A i : \A c \in ArgsPieces(m, i) : IsMessage(c.message)
         /\ \A i : IsMessage(BlockStop(m, i).message)
         /\ \A events : IsMessage(Finish(m, events).message)
<1>1. ASSUME NEW c \in TextPieces(m) PROVE IsMessage(c.message)
  <2>1. PICK p : c = TextDelta(m, Append(m.text, p), <<p>>)
    BY DEF TextPieces
  <2> QED
    BY <2>1, ChunkPartsKept
<1>2. ASSUME NEW c \in ToolStarts(m) PROVE IsMessage(c.message)
  <2>1. PICK id, args : c = OpenTool(m, id, args)
    BY DEF ToolStarts
  <2> QED
    BY <2>1, ChunkPartsKept
<1>3. ASSUME NEW i, NEW c \in ArgsPieces(m, i) PROVE IsMessage(c.message)
  <2>1. PICK p : c = MoreArgs(m, i, Append(m.tools[i].args, p), <<p>>)
    BY DEF ArgsPieces
  <2> QED
    BY <2>1, ChunkPartsKept
<1>4. ASSUME NEW i PROVE IsMessage(BlockStop(m, i).message)
  BY ChunkPartsKept DEF BlockStop
<1>5. ASSUME NEW events PROVE IsMessage(Finish(m, events).message)
  BY ChunkPartsKept DEF Finish
<1> QED
  BY <1>1, <1>2, <1>3, <1>4, <1>5

\* The chunks of OpenAI.
LEMMA OpenAIKept ==
  ASSUME NEW m, IsMessage(m), NEW c \in OpenAIChunks(m)
  PROVE  IsMessage(c.message)
<1>1. c \in OpenAIContent(m) \/ \E r \in Reports : c = WithUsage(m, OpenAIUsage(r))
  BY DEF OpenAIChunks
<1>2. ASSUME c \in OpenAIContent(m) PROVE IsMessage(c.message)
  <2>1. \/ c \in TextPieces(m)
        \/ c \in ToolStarts(m)
        \/ \E i : c \in ArgsPieces(m, i)
        \/ c = Finish(m, AllCompleted(m))
    BY <1>2 DEF OpenAIContent
  <2> QED
    BY <2>1, ContentKept
<1>3. ASSUME NEW r \in Reports PROVE IsMessage(WithUsage(m, OpenAIUsage(r)).message)
  BY UsagesCount, ChunkPartsKept
<1> QED
  BY <1>1, <1>2, <1>3

\* The chunks of Anthropic.
LEMMA AnthropicKept ==
  ASSUME NEW m, IsMessage(m), NEW c \in AnthropicChunks(m)
  PROVE  IsMessage(c.message)
<1>1. c \in AnthropicContent(m) \/ \E r \in Reports : c = WithUsage(m, AnthropicUsage(r))
  BY DEF AnthropicChunks
<1>2. ASSUME c \in AnthropicContent(m) PROVE IsMessage(c.message)
  <2>1. \/ c \in TextPieces(m)
        \/ c \in ToolStarts(m)
        \/ \E i : c \in ArgsPieces(m, i) \/ c = BlockStop(m, i)
        \/ c = Finish(m, <<>>)
    BY <1>2 DEF AnthropicContent
  <2> QED
    BY <2>1, ContentKept
<1>3. ASSUME NEW r \in Reports PROVE IsMessage(WithUsage(m, AnthropicUsage(r)).message)
  BY UsagesCount, ChunkPartsKept
<1> QED
  BY <1>1, <1>2, <1>3

\* The chunks of Google, of which every one may also report the end.
LEMMA GoogleKept ==
  ASSUME NEW m, IsMessage(m), NEW c \in GoogleChunks(m)
  PROVE  IsMessage(c.message)
<1>1. ASSUME NEW n, IsMessage(n), NEW events, NEW reason
      PROVE  IsMessage(FinishIs(reason, Chunk(n, events)).message)
  <2> DEFINE k == FinishIs(reason, Chunk(n, events)).message
  <2>1. k = [n EXCEPT !.finish = reason]
    BY DEF FinishIs, Chunk
  <2>2. DOMAIN n = {"text", "tools", "finish", "usage"}
    BY <1>1, MessageFields DEF IsMessage
  <2>3. DOMAIN k = DOMAIN n /\ k.usage = n.usage
    BY <2>1, <2>2
  <2> HIDE DEF k
  <2>4. IsMessage(k)
    BY <1>1, <2>3, MessageGrows
  <2> QED
    BY <2>4 DEF k
<1> DEFINE Is(k) == \E n, events : IsMessage(n) /\ k = Chunk(n, events)
<1>2. ASSUME NEW k, Is(k), NEW reason PROVE IsMessage(FinishIs(reason, k).message)
  BY <1>1, <1>2
<1>3. ASSUME NEW n, NEW events, IsMessage(Chunk(n, events).message) PROVE Is(Chunk(n, events))
  BY <1>3 DEF Chunk
<1> HIDE DEF Is
<1>4. ASSUME NEW text, NEW emitted PROVE Is(TextDelta(m, text, emitted))
  BY <1>3, ChunkPartsKept DEF TextDelta
<1>5. ASSUME NEW id, NEW args PROVE Is(OpenTool(m, id, args))
  BY <1>3, ChunkPartsKept DEF OpenTool
<1>6. ASSUME NEW i, NEW args, NEW emitted PROVE Is(MoreArgs(m, i, args, emitted))
  BY <1>3, ChunkPartsKept DEF MoreArgs
<1>7. ASSUME NEW u, u.parts \in [Components -> Nat] PROVE Is(WithUsage(m, u))
  BY <1>3, <1>7, ChunkPartsKept DEF WithUsage
<1>8. Is(Chunk(m, <<>>))
  <2>1. Chunk(m, <<>>).message = m
    BY DEF Chunk
  <2> QED
    BY <1>3, <2>1
<1>9. \A t : Is(GoogleText(m, t))
  BY <1>4, <1>8 DEF GoogleText
<1>10. \A id, args : Is(GoogleCall(m, id, args))
  BY <1>5, <1>6, <1>8 DEF GoogleCall
<1>11. ASSUME c \in GoogleTexts(m) PROVE IsMessage(c.message)
  <2>1. PICK t : c = FinishIs("stop", GoogleText(m, t))
    BY <1>11 DEF GoogleTexts
  <2> QED
    BY <2>1, <1>2, <1>9
<1>12. ASSUME c \in GoogleCalls(m) \/ c \in GoogleRepeats(m) PROVE IsMessage(c.message)
  <2>1. ASSUME c \in GoogleCalls(m) PROVE \E id, args : c = FinishIs("tool_calls", GoogleCall(m, id, args))
    BY <2>1 DEF GoogleCalls
  <2>2. ASSUME c \in GoogleRepeats(m) PROVE \E id, args : c = FinishIs("tool_calls", GoogleCall(m, id, args))
    BY <2>2 DEF GoogleRepeats
  <2>3. PICK id, args : c = FinishIs("tool_calls", GoogleCall(m, id, args))
    BY <1>12, <2>1, <2>2
  <2> QED
    BY <2>3, <1>2, <1>10
<1>13. ASSUME c \in GoogleCounts(m) PROVE IsMessage(c.message)
  <2>1. PICK r \in Reports : c = FinishIs("stop", WithUsage(m, GoogleUsage(r)))
    BY <1>13 DEF GoogleCounts
  <2>2. Is(WithUsage(m, GoogleUsage(r)))
    BY <1>7, UsagesCount
  <2> QED
    BY <2>1, <2>2, <1>2
<1>14. c \in GoogleTexts(m) \/ c \in GoogleCalls(m) \/ c \in GoogleRepeats(m) \/ c \in GoogleCounts(m)
  BY DEF GoogleChunks
<1> QED
  BY <1>11, <1>12, <1>13, <1>14

\* The chunks of any provider.
LEMMA ChunksKept ==
  ASSUME NEW m, IsMessage(m), NEW service \in ServiceProviders, NEW c \in ChunksOf(service, m)
  PROVE  IsMessage(c.message)
<1>1. CASE service = "openai"
  BY <1>1, OpenAIKept DEF ChunksOf
<1>2. CASE service = "anthropic"
  BY <1>2, AnthropicKept DEF ChunksOf
<1>3. CASE service = "google"
  BY <1>3, GoogleKept DEF ChunksOf
<1> QED
  BY <1>1, <1>2, <1>3 DEF ServiceProviders

\* No stream ends well without usage.
LEMMA EndsWithUsage ==
  ASSUME NEW m, NEW service \in ServiceProviders
  PROVE  EndOf(service, m).outcome = "confirmed" => m.usage.known
<1>1. \A events : Confirmed(events).outcome = "confirmed"
  BY DEF Confirmed
<1>2. \A code : Failure(code).outcome = "failed"
  BY DEF Failure
<1>3. CASE service = "openai"
  BY <1>1, <1>2, <1>3 DEF EndOf, OpenAIEnd
<1>4. CASE service = "anthropic"
  BY <1>1, <1>2, <1>4 DEF EndOf, AnthropicEnd
<1>5. CASE service = "google"
  BY <1>1, <1>2, <1>5 DEF EndOf, GoogleEnd
<1> QED
  BY <1>3, <1>4, <1>5 DEF ServiceProviders

\* The fields of an upstream call.
LEMMA CallFields ==
  DOMAIN NoCall = {"service", "at", "attempts", "chunks", "message"}
BY DEF NoCall

\* The steps of a stream change its phase, its message or its counters.
LEMMA CallKept ==
  ASSUME StreamKept, upstream.at \notin {"none", "settled"},
         NEW call, DOMAIN call = DOMAIN upstream, call.service = upstream.service, IsMessage(call.message),
         call.at = "confirmed" => call.message.usage.known, upstream' = call
  PROVE  StreamKept'
BY DEF StreamKept, IsMessage, Counted

\* A step of a stream that only changes its phase, to confirmed only with usage.
LEMMA PhaseKept ==
  ASSUME StreamKept, upstream.at \notin {"none", "settled"}, NEW at, At(at),
         at = "confirmed" => upstream.message.usage.known
  PROVE  StreamKept'
<1> DEFINE call == [upstream EXCEPT !.at = at]
<1>1. DOMAIN upstream = {"service", "at", "attempts", "chunks", "message"} /\ IsMessage(upstream.message)
  BY CallFields DEF StreamKept
<1>2. /\ DOMAIN call = DOMAIN upstream /\ call.service = upstream.service /\ call.message = upstream.message
      /\ call.at = at
  BY <1>1
<1>3. upstream' = call
  BY DEF At
<1> HIDE DEF call
<1> QED
  BY <1>1, <1>2, <1>3, CallKept

\* The steps of a stream keep the invariant.
LEMMA StreamSteps ==
  ASSUME StreamKept, StreamNext \/ SettleStream
  PROVE  StreamKept'
<1>1. DOMAIN upstream = {"service", "at", "attempts", "chunks", "message"} /\ IsMessage(upstream.message)
  BY CallFields DEF StreamKept
<1>2. CASE UNCHANGED upstream
  BY <1>2 DEF StreamKept, IsMessage, Counted
<1>3. CASE StreamBegins
  BY <1>3, PhaseKept DEF StreamBegins
<1>4. CASE KeyIsSwitched
  <2> DEFINE call == [upstream EXCEPT !.attempts = upstream.attempts + 1]
  <2>1. /\ DOMAIN call = DOMAIN upstream /\ call.service = upstream.service /\ call.message = upstream.message
        /\ call.at = upstream.at
    BY <1>1
  <2>2. upstream' = call /\ upstream.at = "queued"
    BY <1>4 DEF KeyIsSwitched
  <2> HIDE DEF call
  <2> QED
    BY <1>1, <2>1, <2>2, CallKept
<1>5. CASE NoOtherKey
  BY <1>5, PhaseKept DEF NoOtherKey
<1>6. CASE CallIsRefused
  BY <1>6, PhaseKept DEF CallIsRefused
<1>7. CASE ReadChunk
  <2>1. PICK c \in ChunksOf(upstream.service, upstream.message) :
          upstream' = [upstream EXCEPT !.message = c.message, !.chunks = upstream.chunks + 1]
    BY <1>7 DEF ReadChunk
  <2> DEFINE call == [upstream EXCEPT !.message = c.message, !.chunks = upstream.chunks + 1]
  <2>2. /\ DOMAIN call = DOMAIN upstream /\ call.service = upstream.service /\ call.message = c.message
        /\ call.at = upstream.at
    BY <1>1
  <2>3. upstream.at = "reading" /\ upstream.service \in ServiceProviders
    BY <1>7 DEF ReadChunk, StreamKept
  <2>4. IsMessage(c.message)
    BY <1>1, <2>3, ChunksKept
  <2>5. upstream' = call
    BY <2>1
  <2> HIDE DEF call
  <2> QED
    BY <2>2, <2>3, <2>4, <2>5, CallKept
<1>8. CASE EndStream
  <2> DEFINE end == EndOf(upstream.service, upstream.message)
  <2>1. upstream.at = "reading" /\ upstream.service \in ServiceProviders /\ upstream' = [upstream EXCEPT !.at = end.outcome]
    BY <1>8 DEF EndStream, StreamKept
  <2>2. end.outcome = "confirmed" => upstream.message.usage.known
    BY <2>1, EndsWithUsage
  <2> HIDE DEF end
  <2> QED
    BY <2>1, <2>2, PhaseKept DEF At
<1>9. CASE InterruptStream
  BY <1>9, PhaseKept DEF InterruptStream
<1>10. CASE SettleStream
  BY <1>10, PhaseKept DEF SettleStream
<1> QED
  BY <1>2, <1>3, <1>4, <1>5, <1>6, <1>7, <1>8, <1>9, <1>10
     DEF StreamNext, PublishNext, LeaveStream, WriteFrames, ChannelIsClosed, ClientLeaves

\* A stream that is opened keeps the invariant.
LEMMA StreamOpens ==
  ASSUME NEW service \in ServiceProviders, NEW api, NEW includeUsage, OpenStream(service, api, includeUsage)
  PROVE  StreamKept'
<1>1. upstream' = [NoCall EXCEPT !.service = service, !.at = "queued"]
  BY DEF OpenStream
<1>2. IsMessage(NoCall.message)
  BY MessageFields DEF NoCall
<1>3. /\ DOMAIN upstream' = DOMAIN NoCall /\ upstream'.service = service /\ upstream'.at = "queued"
      /\ upstream'.message = NoCall.message
  BY <1>1 DEF NoCall
<1> QED
  BY <1>2, <1>3 DEF StreamKept, IsMessage, Counted

\* A simulated stream, which is written at once, keeps the invariant.
LEMMA CompletedKept ==
  ASSUME NEW answer, NEW ask, WriteCompleted(answer, ask)
  PROVE  StreamKept'
<1> DEFINE result == ResultOf(answer, ask)
           tools == [i \in DOMAIN result.calls |-> [id |-> result.calls[i].name, args |-> result.calls[i].args, open |-> FALSE]]
           message == [NoMessage EXCEPT !.text = result.text, !.tools = tools, !.finish = result.finish]
<1>1. upstream' = [NoCall EXCEPT !.service = "crynux", !.at = "settled", !.message = message]
  BY DEF WriteCompleted
<1>2. DOMAIN message = DOMAIN NoMessage /\ message.usage = NoMessage.usage
  BY DEF NoMessage
<1> HIDE DEF message
<1>3. IsMessage(message)
  BY <1>2, MessageFields, MessageGrows
<1>4. DOMAIN upstream' = DOMAIN NoCall /\ upstream'.at = "settled" /\ upstream'.message = message
  BY <1>1 DEF NoCall
<1> QED
  BY <1>3, <1>4 DEF StreamKept, IsMessage, Counted

\* No stream keeps the invariant.
LEMMA StreamKeptInit == StreamInit => StreamKept
BY MessageFields DEF StreamInit, StreamKept, NoCall

-----------------------------------------------------------------------------
(* The request. *)

\* What is left of a handler's steps follows the order of its kind.
Follows(ask) ==
  IF IsProvider(ask)
  THEN {<<"wish", "create">>, <<"create", "execute">>, <<"create", "stream">>,
        <<"execute", "settle">>, <<"stream", "settle">>}
  ELSE {<<"execution", "vram">>, <<"execution", "model">>, <<"vram", "model">>, <<"model", "vram">>,
        <<"vram", "wish">>, <<"model", "wish">>, <<"wish", "price">>, <<"price", "create">>,
        <<"create", "settle">>, <<"settle", "answer">>}
\* A result is streamed for Chat and Completions only.
StreamsText(ask) == ask.stream => ask.api \in {"chat", "completions"}
StepsFor(ask) ==
  IF IsProvider(ask) THEN {"wish", "create", "execute", "stream", "settle"}
  ELSE {"execution", "vram", "model", "wish", "price", "create", "settle"}
         \cup (IF StreamsText(ask) THEN {"answer"} ELSE {})

IsPlan(todo, ask) ==
  /\ todo \in Seq(StepsFor(ask))
  /\ \A i \in 1..(Len(todo) - 1) : <<todo[i], todo[i + 1]>> \in Follows(ask)

\* What is left of a plan after a step is a plan, and its first step follows that step.
LEMMA TailsArePlans ==
  ASSUME NEW todo, NEW ask, IsPlan(todo, ask), todo # <<>>
  PROVE  /\ Head(todo) \in StepsFor(ask)
         /\ IsPlan(Tail(todo), ask)
         /\ Tail(todo) # <<>> => <<Head(todo), Head(Tail(todo))>> \in Follows(ask)
<1> DEFINE S == StepsFor(ask)
           F == Follows(ask)
<1>1. todo \in Seq(S) /\ Len(todo) > 0 /\ \A i \in 1..(Len(todo) - 1) : <<todo[i], todo[i + 1]>> \in F
  BY DEF IsPlan
<1>2. \A t \in Seq(S) : IsPlan(t, ask) <=> \A i \in 1..(Len(t) - 1) : <<t[i], t[i + 1]>> \in F
  BY DEF IsPlan
<1> HIDE DEF S, F
<1>3. /\ Tail(todo) \in Seq(S) /\ Len(Tail(todo)) = Len(todo) - 1
      /\ \A i \in 1..Len(Tail(todo)) : Tail(todo)[i] = todo[i + 1]
  BY <1>1
<1>4. Head(todo) \in S
  BY <1>1
<1>5. \A i \in 1..(Len(Tail(todo)) - 1) : <<Tail(todo)[i], Tail(todo)[i + 1]>> \in F
  <2> SUFFICES ASSUME NEW i \in 1..(Len(Tail(todo)) - 1) PROVE <<Tail(todo)[i], Tail(todo)[i + 1]>> \in F
    OBVIOUS
  <2>1. i + 1 \in 1..(Len(todo) - 1) /\ i \in 1..Len(Tail(todo)) /\ i + 1 \in 1..Len(Tail(todo))
    BY <1>1, <1>3
  <2>2. Tail(todo)[i] = todo[i + 1] /\ Tail(todo)[i + 1] = todo[(i + 1) + 1]
    BY <1>3, <2>1
  <2> QED
    BY <1>1, <2>1, <2>2
<1>6. Tail(todo) # <<>> => <<Head(todo), Head(Tail(todo))>> \in F
  <2> SUFFICES ASSUME Tail(todo) # <<>> PROVE <<Head(todo), Head(Tail(todo))>> \in F
    OBVIOUS
  <2>1. Len(Tail(todo)) > 0
    BY <1>3
  <2>2. 1 \in 1..(Len(todo) - 1) /\ 1 \in 1..Len(Tail(todo))
    BY <1>1, <1>3, <2>1
  <2>3. Head(todo) = todo[1] /\ Head(Tail(todo)) = Tail(todo)[1] /\ Tail(todo)[1] = todo[1 + 1]
    BY <1>1, <1>3, <2>2
  <2> QED
    BY <1>1, <2>2, <2>3
<1> QED
  BY <1>2, <1>3, <1>4, <1>5, <1>6 DEF S, F

\* A request that is over has no steps left.
LEMMA EmptyIsPlan == \A ask : IsPlan(<<>>, ask)
BY DEF IsPlan

\* The steps of a handler that accepts the request are a plan.
LEMMA HandlersArePlans ==
  ASSUME NEW ask, ask \in RequestFields, ~StreamIsUnsupported(ask)
  PROVE  IsPlan(StepsOf(ask), ask)
<1>1. ASSUME NEW t, t \in Seq(StepsFor(ask)), NEW n \in Nat, Len(t) = n + 1,
             \A i \in 1..n : <<t[i], t[i + 1]>> \in Follows(ask)
      PROVE  IsPlan(t, ask)
  BY <1>1 DEF IsPlan
<1>2. CASE IsProvider(ask)
  <2> DEFINE x == IF ask.stream THEN "stream" ELSE "execute"
             t == <<"wish", "create", x, "settle">>
  <2>1. StepsOf(ask) = t
    BY <1>2 DEF StepsOf, ProviderSteps
  <2>2. x \in {"stream", "execute"}
    OBVIOUS
  <2> HIDE DEF x
  <2>3. t \in Seq(StepsFor(ask)) /\ Len(t) = 3 + 1
    BY <1>2, <2>2 DEF StepsFor
  <2>4. ASSUME NEW i \in 1..3 PROVE <<t[i], t[i + 1]>> \in Follows(ask)
    <3>1. i = 1 \/ i = 2 \/ i = 3
      OBVIOUS
    <3>2. <<t[1], t[1 + 1]>> = <<"wish", "create">> /\ <<t[2], t[2 + 1]>> = <<"create", x>> /\ <<t[3], t[3 + 1]>> = <<x, "settle">>
      OBVIOUS
    <3> QED
      BY <1>2, <2>2, <3>1, <3>2 DEF Follows
  <2> HIDE DEF t
  <2> QED
    BY <1>1, <2>1, <2>3, <2>4
<1>3. CASE ~IsProvider(ask)
  <2>1. ASSUME StreamsText(ask) PROVE IsPlan(TextSteps, ask)
    <3> DEFINE t == <<"execution", "vram", "model", "wish", "price", "create", "settle", "answer">>
    <3>1. t \in Seq(StepsFor(ask))
      BY <1>3, <2>1 DEF StepsFor
    <3>2. Len(t) = 7 + 1
      OBVIOUS
    <3>3. <<t[1], t[1 + 1]>> \in Follows(ask) /\ <<t[2], t[2 + 1]>> \in Follows(ask)
      BY <1>3 DEF Follows
    <3>4. <<t[3], t[3 + 1]>> \in Follows(ask) /\ <<t[4], t[4 + 1]>> \in Follows(ask)
      BY <1>3 DEF Follows
    <3>5. <<t[5], t[5 + 1]>> \in Follows(ask) /\ <<t[6], t[6 + 1]>> \in Follows(ask)
      BY <1>3 DEF Follows
    <3>6. <<t[7], t[7 + 1]>> \in Follows(ask)
      BY <1>3 DEF Follows
    <3>7. TextSteps = t
      BY DEF TextSteps
    <3> HIDE DEF t
    <3>8. ASSUME NEW i \in 1..7 PROVE <<t[i], t[i + 1]>> \in Follows(ask)
      <4>1. i = 1 \/ i = 2 \/ i = 3 \/ i = 4 \/ i = 5 \/ i = 6 \/ i = 7
        OBVIOUS
      <4> QED
        BY <3>3, <3>4, <3>5, <3>6, <4>1
    <3> QED
      BY <1>1, <3>1, <3>2, <3>7, <3>8
  <2>2. IsPlan(ImageSteps, ask)
    <3> DEFINE t == <<"execution", "model", "wish", "price", "create", "settle">>
    <3>1. t \in Seq(StepsFor(ask))
      BY <1>3 DEF StepsFor
    <3>2. Len(t) = 5 + 1
      OBVIOUS
    <3>3. <<t[1], t[1 + 1]>> \in Follows(ask) /\ <<t[2], t[2 + 1]>> \in Follows(ask)
      BY <1>3 DEF Follows
    <3>4. <<t[3], t[3 + 1]>> \in Follows(ask) /\ <<t[4], t[4 + 1]>> \in Follows(ask)
      BY <1>3 DEF Follows
    <3>5. <<t[5], t[5 + 1]>> \in Follows(ask)
      BY <1>3 DEF Follows
    <3>7. ImageSteps = t
      BY DEF ImageSteps
    <3> HIDE DEF t
    <3>8. ASSUME NEW i \in 1..5 PROVE <<t[i], t[i + 1]>> \in Follows(ask)
      <4>1. i = 1 \/ i = 2 \/ i = 3 \/ i = 4 \/ i = 5
        OBVIOUS
      <4> QED
        BY <3>3, <3>4, <3>5, <4>1
    <3> QED
      BY <1>1, <3>1, <3>2, <3>7, <3>8
  <2>3. IsPlan(RawSteps, ask)
    <3> DEFINE t == <<"execution", "model", "vram", "wish", "price", "create", "settle">>
    <3>1. t \in Seq(StepsFor(ask))
      BY <1>3 DEF StepsFor
    <3>2. Len(t) = 6 + 1
      OBVIOUS
    <3>3. <<t[1], t[1 + 1]>> \in Follows(ask) /\ <<t[2], t[2 + 1]>> \in Follows(ask)
      BY <1>3 DEF Follows
    <3>4. <<t[3], t[3 + 1]>> \in Follows(ask) /\ <<t[4], t[4 + 1]>> \in Follows(ask)
      BY <1>3 DEF Follows
    <3>5. <<t[5], t[5 + 1]>> \in Follows(ask) /\ <<t[6], t[6 + 1]>> \in Follows(ask)
      BY <1>3 DEF Follows
    <3>7. RawSteps = t
      BY DEF RawSteps
    <3> HIDE DEF t
    <3>8. ASSUME NEW i \in 1..6 PROVE <<t[i], t[i + 1]>> \in Follows(ask)
      <4>1. i = 1 \/ i = 2 \/ i = 3 \/ i = 4 \/ i = 5 \/ i = 6
        OBVIOUS
      <4> QED
        BY <3>3, <3>4, <3>5, <4>1
    <3> QED
      BY <1>1, <3>1, <3>2, <3>7, <3>8
  <2>4. StepsOf(ask) = ImageSteps \/ StepsOf(ask) = RawSteps \/ (StepsOf(ask) = TextSteps /\ StreamsText(ask))
    <3>1. ask.api \in {"chat", "completions", "responses", "images", "raw_llm", "raw_image"}
      BY DEF RequestFields
    <3> QED
      BY <1>3, <3>1 DEF StepsOf, StreamsText, StreamIsUnsupported, IsRaw
  <2> QED
    BY <2>1, <2>2, <2>3, <2>4
<1> QED
  BY <1>2, <1>3

\* The fields of a request that was received.
RequestNames == {"todo", "answer", "row", "ask", "dtype", "quant", "vram", "wish", "time", "offer", "hold", "median",
                 "usage", "generated", "charge"}

Measured(ask) ==
  /\ ask.prompt \in Nat /\ ask.completion \in Nat /\ ask.vram \in Int
  /\ {ask.image.count, ask.image.width, ask.image.height, ask.image.steps} \subseteq Nat

\* What a request is billed at priority p, and the offer its project's rules make it.
AmountOf(r, p) == IF IsProvider(r.ask) THEN ProviderAmount(r, p) ELSE CrynuxAmount(r, p)
OfferOf(r) ==
  IF IsProvider(r.ask) THEN ProviderOffer(r)
  ELSE EnforceMinTaskFee(r.row, r.wish, CrynuxMinFee(r.ask), [p \in MinPriority..MaxPriority |-> Gwei(CrynuxAmount(r, p))])

IsOfferedTo(r) ==
  /\ r.wish \in MinPriority..MaxPriority
  /\ ~IsProvider(r.ask) => r.time \in ExecutionTimes
  /\ r.offer = OfferOf(r)

IsAdmitted(r) == IsOfferedTo(r) /\ r.offer.error = "none" /\ r.hold = Credits(AmountOf(r, r.offer.priority))

IsChargedFor(r, prompt, completion) ==
  r.charge = Credits(CrynuxBillable(r.offer.priority, NodeSeconds(r.time, prompt, completion), r.vram))

IsCharged(r) ==
  /\ IsAdmitted(r)
  /\ IF IsProvider(r.ask) THEN r.usage.known /\ r.charge = ProviderCharge(r)
     ELSE IF IsImage(r.ask) THEN r.charge = r.hold
     ELSE \E prompt \in 0..r.ask.prompt, completion \in 0..r.ask.completion : IsChargedFor(r, prompt, completion)

Early == {"execution", "vram", "model"}

\* What holds of a request whose next step is step.
AtStep(r, step) ==
  /\ step \notin Early \cup {"wish"} => r.wish \in MinPriority..MaxPriority
  /\ step \in Early \cup {"wish", "price"} => r.offer = Rejected("none")
  /\ step = "create" => IsAdmitted(r) \/ (IsProvider(r.ask) /\ r.offer = Rejected("none"))
  /\ step \in {"execute", "stream", "settle"} => IsAdmitted(r)
  /\ step = "settle" /\ IsProvider(r.ask) => r.usage.known
  /\ step # "answer" => r.charge = -1

RequestIs(r) ==
  /\ DOMAIN r = RequestNames
  /\ r.row \in Rows /\ Measured(r.ask) /\ r.vram \in Int /\ Counted(r.usage)
  /\ IsPlan(r.todo, r.ask)
  /\ r.offer # Rejected("none") => IsOfferedTo(r)
  /\ r.charge # -1 => IsCharged(r)
  /\ r.todo # <<>> => AtStep(r, Head(r.todo))

RequestKept == request = NoRequest \/ RequestIs(request)

\* Two requests that agree on these fields are billed and offered the same.
LEMMA SameOffer ==
  ASSUME NEW r, NEW s, s.row = r.row, s.ask = r.ask, s.wish = r.wish, s.time = r.time, s.vram = r.vram
  PROVE  /\ OfferOf(s) = OfferOf(r) /\ \A p : AmountOf(s, p) = AmountOf(r, p)
         /\ \A p : CrynuxAmount(s, p) = CrynuxAmount(r, p)
<1>1. \A p : CrynuxAmount(s, p) = CrynuxAmount(r, p)
  BY DEF CrynuxAmount
<1>2. \A p : ProviderAmount(s, p) = ProviderAmount(r, p)
  BY DEF ProviderAmount
<1>3. \A p : AmountOf(s, p) = AmountOf(r, p)
  BY <1>1, <1>2 DEF AmountOf
<1>4. ProviderOffer(s) = ProviderOffer(r)
  <2>1. [p \in MinPriority..MaxPriority |-> ProviderAmount(s, p)] = [p \in MinPriority..MaxPriority |-> ProviderAmount(r, p)]
    BY <1>2
  <2> QED
    BY <2>1 DEF ProviderOffer
<1>5. [p \in MinPriority..MaxPriority |-> Gwei(CrynuxAmount(s, p))] = [p \in MinPriority..MaxPriority |-> Gwei(CrynuxAmount(r, p))]
  BY <1>1
<1>6. OfferOf(s) = OfferOf(r)
  BY <1>4, <1>5 DEF OfferOf
<1> QED
  BY <1>1, <1>3, <1>6

\* Two requests that agree on these fields were made the same offer.
LEMMA SameDeal ==
  ASSUME NEW r, NEW s, s.row = r.row, s.ask = r.ask, s.wish = r.wish, s.time = r.time, s.vram = r.vram,
         s.offer = r.offer, s.hold = r.hold
  PROVE  /\ IsOfferedTo(r) => IsOfferedTo(s)
         /\ IsAdmitted(r) => IsAdmitted(s)
         /\ s.usage = r.usage /\ s.charge = r.charge /\ IsCharged(r) => IsCharged(s)
<1>1. OfferOf(s) = OfferOf(r) /\ AmountOf(s, s.offer.priority) = AmountOf(r, r.offer.priority)
  BY SameOffer
<1>2. IsOfferedTo(r) => IsOfferedTo(s)
  BY <1>1 DEF IsOfferedTo
<1>3. IsAdmitted(r) => IsAdmitted(s)
  BY <1>1, <1>2 DEF IsAdmitted
<1>4. ASSUME s.usage = r.usage, s.charge = r.charge, IsCharged(r) PROVE IsCharged(s)
  <2>1. \A prompt, completion : IsChargedFor(r, prompt, completion) => IsChargedFor(s, prompt, completion)
    BY <1>4 DEF IsChargedFor
  <2>2. ProviderCharge(s) = ProviderCharge(r)
    BY <1>4 DEF ProviderCharge
  <2> QED
    BY <1>3, <1>4, <2>1, <2>2 DEF IsCharged
<1> QED
  BY <1>2, <1>3, <1>4

\* A request that is over keeps what it was offered and charged.
LEMMA EndsKept ==
  ASSUME NEW r, RequestIs(r),
         NEW k, DOMAIN k = RequestNames, k.todo = <<>>, \A f \in RequestNames \ {"todo", "answer"} : k[f] = r[f]
  PROVE  RequestIs(k)
<1>1. /\ k.row = r.row /\ k.ask = r.ask /\ k.wish = r.wish /\ k.time = r.time /\ k.vram = r.vram
      /\ k.offer = r.offer /\ k.hold = r.hold /\ k.usage = r.usage /\ k.charge = r.charge
  BY DEF RequestNames
<1>2. /\ IsOfferedTo(r) => IsOfferedTo(k)
      /\ IsCharged(r) => IsCharged(k)
  BY <1>1, SameDeal
<1> QED
  BY <1>1, <1>2, EmptyIsPlan DEF RequestIs

\* A request that is refused keeps the invariant.
LEMMA RefuseKept ==
  ASSUME RequestIs(request), NEW answer, Refuse(answer)
  PROVE  RequestIs(request')
<1> DEFINE k == [request EXCEPT !.todo = <<>>, !.answer = answer]
<1>1. DOMAIN request = RequestNames
  BY DEF RequestIs
<1>2. DOMAIN k = RequestNames /\ k.todo = <<>> /\ \A f \in RequestNames \ {"todo", "answer"} : k[f] = request[f]
  BY <1>1 DEF RequestNames
<1>3. request' = k
  BY DEF Refuse
<1> HIDE DEF k
<1>4. RequestIs(k)
  BY <1>2, EndsKept
<1> QED
  BY <1>3, <1>4

\* The next step: what it needs holds of what this one leaves.
LEMMA ProceedKept ==
  ASSUME RequestIs(request), request.todo # <<>>,
         NEW n, DOMAIN n = RequestNames, n.todo = request.todo, n.ask = request.ask, n.row = request.row,
         n.vram \in Int, Counted(n.usage),
         n.offer # Rejected("none") => IsOfferedTo(n),
         n.charge # -1 => IsCharged(n),
         \A step : <<Head(request.todo), step>> \in Follows(request.ask) => AtStep(n, step),
         Proceed(n)
  PROVE  RequestIs(request')
<1> DEFINE k == [n EXCEPT !.todo = Tail(n.todo)]
<1>1. DOMAIN k = RequestNames /\ k.todo = Tail(request.todo) /\ \A f \in RequestNames \ {"todo"} : k[f] = n[f]
  BY DEF RequestNames
<1>2. request' = k
  BY DEF Proceed
<1> HIDE DEF k
<1>3. /\ k.row = n.row /\ k.ask = n.ask /\ k.wish = n.wish /\ k.time = n.time /\ k.vram = n.vram
      /\ k.offer = n.offer /\ k.hold = n.hold /\ k.usage = n.usage /\ k.charge = n.charge
  BY <1>1 DEF RequestNames
<1>4. /\ IsOfferedTo(n) => IsOfferedTo(k)
      /\ IsAdmitted(n) => IsAdmitted(k)
      /\ IsCharged(n) => IsCharged(k)
  BY <1>3, SameDeal
<1>5. /\ IsPlan(k.todo, k.ask)
      /\ k.todo # <<>> => <<Head(request.todo), Head(k.todo)>> \in Follows(request.ask)
  BY <1>1, <1>3, TailsArePlans DEF RequestIs
<1>6. ASSUME NEW step, AtStep(n, step) PROVE AtStep(k, step)
  BY <1>3, <1>4, <1>6 DEF AtStep
<1>7. RequestIs(k)
  BY <1>1, <1>3, <1>4, <1>5, <1>6 DEF RequestIs
<1> QED
  BY <1>2, <1>7

-----------------------------------------------------------------------------
(* The steps of a request before its price. *)

\* What is known of a request whose next step is taken.
LEMMA WorkedOn ==
  ASSUME RequestKept, NEW step, Doing(step)
  PROVE  RequestIs(request) /\ request.todo # <<>> /\ Head(request.todo) = step /\ AtStep(request, step)
BY DEF RequestKept, Doing, Idle, NoRequest, RequestIs

\* A step before the wish, which may only change the execution.
LEMMA EarlyKept ==
  ASSUME RequestIs(request), request.todo # <<>>, Head(request.todo) \in Early,
         NEW n, DOMAIN n = RequestNames, \A f \in RequestNames \ {"dtype", "quant", "vram"} : n[f] = request[f],
         n.vram \in Int, Proceed(n)
  PROVE  RequestIs(request')
<1>1. /\ n.todo = request.todo /\ n.ask = request.ask /\ n.row = request.row /\ n.usage = request.usage
      /\ n.offer = request.offer /\ n.charge = request.charge
  BY DEF RequestNames
<1>2. n.offer = Rejected("none") /\ n.charge = -1
  <2>1. AtStep(request, Head(request.todo))
    BY DEF RequestIs
  <2> QED
    BY <1>1, <2>1 DEF AtStep, Early
<1>3. ASSUME NEW step, <<Head(request.todo), step>> \in Follows(request.ask) PROVE AtStep(n, step)
  <2>1. step \in Early \cup {"wish"}
    BY <1>3 DEF Follows, Early
  <2> QED
    BY <1>2, <2>1 DEF AtStep, Early
<1> QED
  BY <1>1, <1>2, <1>3, ProceedKept DEF RequestIs

\* ResolveExecution keeps the invariant.
LEMMA ExecutionKept ==
  ASSUME RequestKept, CachesKept, ResolveExecution
  PROVE  RequestIs(request')
<1>1. RequestIs(request) /\ request.todo # <<>> /\ Head(request.todo) \in Early
  BY WorkedOn DEF ResolveExecution, Early
<1>2. DOMAIN request = RequestNames /\ request.vram \in Int
  BY <1>1 DEF RequestIs
<1> DEFINE image == ResolveImageExecution(request.ask)
           text == ResolveLLMExecution(request.ask.model, request.ask.dtype, request.ask.quant)
           limit == IF request.vram # -1 THEN request.vram ELSE image.vram
<1>3. \/ Proceed(request)
      \/ Proceed([request EXCEPT !.dtype = text.dtype, !.quant = text.quant])
      \/ Refuse("bad_request")
      \/ image.ok /\ Proceed([request EXCEPT !.dtype = image.dtype, !.quant = image.quant, !.vram = limit])
  BY DEF ResolveExecution
<1>4. CASE Proceed(request)
  BY <1>1, <1>2, <1>4, EarlyKept
<1>5. CASE Proceed([request EXCEPT !.dtype = text.dtype, !.quant = text.quant])
  <2> DEFINE n == [request EXCEPT !.dtype = text.dtype, !.quant = text.quant]
  <2>1. DOMAIN n = RequestNames /\ \A f \in RequestNames \ {"dtype", "quant", "vram"} : n[f] = request[f]
    BY <1>2
  <2>2. n.vram = request.vram
    BY <1>2 DEF RequestNames
  <2>3. Proceed(n)
    BY <1>5
  <2> HIDE DEF n
  <2> QED
    BY <1>1, <1>2, <2>1, <2>2, <2>3, EarlyKept
<1>6. CASE Refuse("bad_request")
  BY <1>1, <1>6, RefuseKept
<1>7. CASE image.ok /\ Proceed([request EXCEPT !.dtype = image.dtype, !.quant = image.quant, !.vram = limit])
  <2> DEFINE n == [request EXCEPT !.dtype = image.dtype, !.quant = image.quant, !.vram = limit]
  <2>1. DOMAIN n = RequestNames /\ \A f \in RequestNames \ {"dtype", "quant", "vram"} : n[f] = request[f]
    BY <1>2
  <2>2. n.vram = limit
    BY <1>2 DEF RequestNames
  <2>3. Proceed(n)
    BY <1>7
  <2>4. limit \in Int
    BY <1>2, <1>7, LimitsTyped
  <2> HIDE DEF n, limit
  <2> QED
    BY <1>1, <1>2, <2>1, <2>2, <2>3, <2>4, EarlyKept
<1> QED
  BY <1>3, <1>4, <1>5, <1>6, <1>7

\* ResolveVram keeps the invariant.
LEMMA VramKept ==
  ASSUME RequestKept, CachesKept, ResolveVram
  PROVE  RequestIs(request')
<1>1. RequestIs(request) /\ request.todo # <<>> /\ Head(request.todo) \in Early
  BY WorkedOn DEF ResolveVram, Early
<1>2. DOMAIN request = RequestNames /\ request.vram \in Int
  BY <1>1 DEF RequestIs
<1> DEFINE limit == IF request.vram # -1 THEN request.vram
                    ELSE IF IsRaw(request.ask) THEN RawVram(request.ask) ELSE EffectiveVram(request.ask.model, -1)
           n == [request EXCEPT !.vram = limit]
<1>3. Refuse("bad_request") \/ Proceed(n)
  BY DEF ResolveVram
<1>4. CASE Refuse("bad_request")
  BY <1>1, <1>4, RefuseKept
<1>5. CASE Proceed(n)
  <2>1. DOMAIN n = RequestNames /\ \A f \in RequestNames \ {"dtype", "quant", "vram"} : n[f] = request[f]
    BY <1>2
  <2>2. n.vram = limit
    BY <1>2 DEF RequestNames
  <2>3. limit \in Int
    BY <1>2, LimitsTyped
  <2> HIDE DEF n, limit
  <2> QED
    BY <1>1, <1>5, <2>1, <2>2, <2>3, EarlyKept
<1> QED
  BY <1>3, <1>4, <1>5

\* ValidateModel keeps the invariant.
LEMMA ModelKept ==
  ASSUME RequestKept, ValidateModel
  PROVE  RequestIs(request')
<1>1. RequestIs(request) /\ request.todo # <<>> /\ Head(request.todo) \in Early
  BY WorkedOn DEF ValidateModel, Early
<1>2. DOMAIN request = RequestNames /\ request.vram \in Int
  BY <1>1 DEF RequestIs
<1>3. Proceed(request) \/ Refuse("bad_request") \/ Refuse("server_error")
  BY DEF ValidateModel
<1> QED
  BY <1>1, <1>2, <1>3, EarlyKept, RefuseKept

\* ResolveWish keeps the invariant: the wish is a priority.
LEMMA WishKept ==
  ASSUME RequestKept, CachesKept, ResolveWish
  PROVE  RequestIs(request')
<1>1. /\ RequestIs(request) /\ request.todo # <<>> /\ Head(request.todo) = "wish" /\ AtStep(request, "wish")
  BY WorkedOn DEF ResolveWish
<1>2. DOMAIN request = RequestNames /\ request.row \in Rows /\ request.offer = Rejected("none") /\ request.charge = -1
  BY <1>1 DEF RequestIs, AtStep
<1> DEFINE wish == Wish(request.row).priority
           n == [request EXCEPT !.wish = wish]
<1>3. Refuse("server_error") \/ (Wish(request.row).error = "none" /\ Proceed(n))
  BY DEF ResolveWish
<1>4. CASE Refuse("server_error")
  BY <1>1, <1>4, RefuseKept
<1>5. CASE Wish(request.row).error = "none" /\ Proceed(n)
  <2>1. wish \in MinPriority..MaxPriority
    BY <1>2, <1>5, WishesArePriorities DEF Wish
  <2>2. /\ DOMAIN n = RequestNames /\ n.todo = request.todo /\ n.ask = request.ask /\ n.row = request.row
        /\ n.vram = request.vram /\ n.usage = request.usage /\ n.offer = request.offer /\ n.charge = request.charge
        /\ n.wish = wish
    BY <1>2 DEF RequestNames
  <2> HIDE DEF n, wish
  <2>3. ASSUME NEW step, <<Head(request.todo), step>> \in Follows(request.ask) PROVE AtStep(n, step)
    <3>1. step = "price" \/ (step = "create" /\ IsProvider(n.ask))
      BY <1>1, <2>2, <2>3 DEF Follows
    <3> QED
      BY <1>2, <2>1, <2>2, <3>1 DEF AtStep, Early
  <2> QED
    BY <1>1, <1>2, <1>5, <2>2, <2>3, ProceedKept DEF RequestIs
<1> QED
  BY <1>3, <1>4, <1>5

-----------------------------------------------------------------------------
(* Price, job and execution. *)

\* An offer that is an error ends the request; another one goes on to the creation of the job.
LEMMA PriceKept ==
  ASSUME RequestKept, Doing("price"), NEW time \in TimeListings, PriceCrynux(time)
  PROVE  RequestIs(request')
<1>1. RequestIs(request) /\ request.todo # <<>> /\ Head(request.todo) = "price" /\ AtStep(request, "price")
  BY WorkedOn
<1>2. /\ DOMAIN request = RequestNames /\ request.offer = Rejected("none") /\ request.charge = -1
      /\ request.wish \in MinPriority..MaxPriority /\ ~IsProvider(request.ask)
  <2>1. "price" \in StepsFor(request.ask)
    BY <1>1, TailsArePlans DEF RequestIs
  <2> QED
    BY <1>1, <2>1 DEF RequestIs, AtStep, Early, StepsFor
<1> DEFINE median == QueueMedianHint
           r == [request EXCEPT !.time = time, !.median = median]
           fee == [p \in MinPriority..MaxPriority |-> Gwei(CrynuxAmount(r, p))]
           offer == EnforceMinTaskFee(r.row, r.wish, CrynuxMinFee(r.ask), fee)
           hold == Credits(CrynuxAmount(r, offer.priority))
<1>3. \E answer : Refuse(answer) \/ Offered(r, offer, hold)
  BY DEF PriceCrynux
<1>4. /\ DOMAIN r = RequestNames /\ \A f \in RequestNames \ {"time", "median"} : r[f] = request[f]
  BY <1>2
<1>5. r.time = time
  BY <1>2 DEF RequestNames
<1>6. OfferOf(r) = offer
  BY <1>2, <1>4 DEF OfferOf, RequestNames
<1>7. time \in ExecutionTimes
  BY CachesAssumption
<1>8. AmountOf(r, offer.priority) = CrynuxAmount(r, offer.priority)
  BY <1>2, <1>4 DEF AmountOf, RequestNames
<1>9. /\ r.todo = request.todo /\ r.ask = request.ask /\ r.row = request.row /\ r.vram = request.vram
      /\ r.usage = request.usage /\ r.charge = -1 /\ r.wish = request.wish
  BY <1>2, <1>4 DEF RequestNames
<1> HIDE DEF r, offer
<1>10. ASSUME NEW n, DOMAIN n = RequestNames, \A f \in RequestNames \ {"todo", "answer", "offer", "hold"} : n[f] = r[f],
              n.offer = offer
       PROVE  IsOfferedTo(n)
  <2>1. n.row = r.row /\ n.ask = r.ask /\ n.wish = r.wish /\ n.time = r.time /\ n.vram = r.vram
    BY <1>10 DEF RequestNames
  <2>2. OfferOf(n) = OfferOf(r)
    BY <2>1, SameOffer
  <2> QED
    BY <1>2, <1>5, <1>6, <1>7, <1>9, <1>10, <2>1, <2>2 DEF IsOfferedTo
<1>11. CASE \E answer : Refuse(answer)
  BY <1>1, <1>11, RefuseKept
<1>12. CASE Offered(r, offer, hold) /\ offer.error # "none"
  <2> DEFINE k == [r EXCEPT !.offer = offer, !.todo = <<>>, !.answer = "bad_request"]
  <2>1. request' = k
    BY <1>12 DEF Offered
  <2>2. /\ DOMAIN k = RequestNames /\ k.todo = <<>> /\ k.offer = offer
        /\ \A f \in RequestNames \ {"todo", "answer", "offer", "hold"} : k[f] = r[f]
    BY <1>4 DEF RequestNames
  <2>3. /\ k.row = request.row /\ k.ask = request.ask /\ k.vram = request.vram /\ k.usage = request.usage /\ k.charge = -1
    BY <1>9, <2>2 DEF RequestNames
  <2> HIDE DEF k
  <2>4. IsOfferedTo(k)
    BY <1>10, <2>2
  <2>5. RequestIs(k)
    BY <1>1, <2>2, <2>3, <2>4, EmptyIsPlan DEF RequestIs
  <2> QED
    BY <2>1, <2>5
<1>13. CASE Offered(r, offer, hold) /\ offer.error = "none"
  <2> DEFINE n == [r EXCEPT !.offer = offer, !.hold = hold]
  <2>1. Proceed(n)
    BY <1>13 DEF Offered
  <2>2. /\ DOMAIN n = RequestNames /\ n.offer = offer /\ n.hold = hold
        /\ \A f \in RequestNames \ {"todo", "answer", "offer", "hold"} : n[f] = r[f]
    BY <1>4 DEF RequestNames
  <2>3. /\ n.row = request.row /\ n.ask = request.ask /\ n.vram = request.vram /\ n.usage = request.usage /\ n.charge = -1
        /\ n.wish = request.wish
    BY <1>9, <2>2 DEF RequestNames
  <2>4. n.todo = request.todo
    BY <1>4, <1>9 DEF RequestNames
  <2>5. IsOfferedTo(n)
    <3> HIDE DEF n
    <3> QED
      BY <1>10, <2>2
  <2>6. AmountOf(n, offer.priority) = AmountOf(r, offer.priority)
    <3>1. n.row = r.row /\ n.ask = r.ask /\ n.wish = r.wish /\ n.time = r.time /\ n.vram = r.vram
      BY <2>2 DEF RequestNames
    <3> HIDE DEF n
    <3> QED
      BY <3>1, SameOffer
  <2>7. hold = Credits(AmountOf(r, offer.priority))
    BY <1>8
  <2> HIDE DEF n, hold
  <2>8. IsAdmitted(n)
    BY <1>13, <2>2, <2>5, <2>6, <2>7 DEF IsAdmitted
  <2>9. ASSUME NEW step, <<Head(request.todo), step>> \in Follows(request.ask) PROVE AtStep(n, step)
    <3>1. step = "create"
      BY <1>1, <1>2, <2>9 DEF Follows
    <3> QED
      BY <1>2, <2>3, <2>8, <3>1 DEF AtStep, Early
  <2> QED
    BY <1>1, <2>1, <2>2, <2>3, <2>4, <2>5, <2>9, ProceedKept DEF RequestIs
<1> QED
  BY <1>3, <1>11, <1>12, <1>13

\* PriceProvider keeps the invariant: a Provider request is admitted with the offer and the hold of its row.
LEMMA ProviderPriceKept ==
  ASSUME RequestKept, PriceProvider
  PROVE  RequestIs(request')
<1>1. RequestIs(request) /\ request.todo # <<>> /\ Head(request.todo) = "create" /\ AtStep(request, "create")
  BY WorkedOn DEF PriceProvider
<1>2. /\ DOMAIN request = RequestNames /\ request.charge = -1
      /\ request.wish \in MinPriority..MaxPriority /\ IsProvider(request.ask)
  BY <1>1 DEF RequestIs, AtStep, Early, PriceProvider
<1> DEFINE offer == ProviderOffer(request)
           hold == Credits(ProviderAmount(request, offer.priority))
           k == [request EXCEPT !.offer = offer, !.todo = <<>>, !.answer = "bad_request"]
           n == [request EXCEPT !.offer = offer, !.hold = hold]
<1>3. (offer.error # "none" /\ request' = k) \/ (offer.error = "none" /\ request' = n)
  BY DEF PriceProvider
<1>4. OfferOf(request) = offer /\ AmountOf(request, offer.priority) = ProviderAmount(request, offer.priority)
  BY <1>2 DEF OfferOf, AmountOf
<1> HIDE DEF offer
<1>5. /\ DOMAIN k = RequestNames /\ k.todo = <<>> /\ k.offer = offer /\ k.charge = -1
      /\ k.row = request.row /\ k.ask = request.ask /\ k.wish = request.wish /\ k.time = request.time
      /\ k.vram = request.vram /\ k.usage = request.usage
  BY <1>2 DEF RequestNames
<1>6. /\ DOMAIN n = RequestNames /\ n.todo = request.todo /\ n.offer = offer /\ n.hold = hold /\ n.charge = -1
      /\ n.row = request.row /\ n.ask = request.ask /\ n.wish = request.wish /\ n.time = request.time
      /\ n.vram = request.vram /\ n.usage = request.usage
  BY <1>2 DEF RequestNames
<1>7. hold = Credits(AmountOf(request, offer.priority))
  BY <1>4
<1> HIDE DEF k, n, hold
<1>8. IsOfferedTo(k) /\ IsOfferedTo(n) /\ AmountOf(n, offer.priority) = AmountOf(request, offer.priority)
  BY <1>2, <1>4, <1>5, <1>6, SameOffer DEF IsOfferedTo
<1>9. RequestIs(k)
  BY <1>1, <1>5, <1>8, EmptyIsPlan DEF RequestIs
<1>10. ASSUME offer.error = "none" PROVE RequestIs(n)
  <2>1. IsAdmitted(n)
    BY <1>6, <1>7, <1>8, <1>10 DEF IsAdmitted
  <2>2. AtStep(n, Head(n.todo))
    BY <1>1, <1>2, <1>6, <2>1 DEF AtStep, Early
  <2> QED
    BY <1>1, <1>6, <1>8, <2>2 DEF RequestIs
<1> QED
  BY <1>3, <1>9, <1>10

\* Creating the job keeps the invariant: only admitted requests get one.
LEMMA CreateKept ==
  ASSUME RequestKept, CreateCrynuxJob \/ CreateProviderJob
  PROVE  RequestIs(request')
<1>1. RequestIs(request) /\ request.todo # <<>> /\ Head(request.todo) = "create" /\ AtStep(request, "create")
  BY WorkedOn DEF CreateCrynuxJob, CreateProviderJob
<1>2. IsAdmitted(request) /\ request.charge = -1 /\ request.wish \in MinPriority..MaxPriority
  BY <1>1 DEF AtStep, Early, CreateCrynuxJob, CreateProviderJob, Rejected
<1>3. ASSUME NEW step, <<Head(request.todo), step>> \in Follows(request.ask) PROVE AtStep(request, step)
  <2>1. IF IsProvider(request.ask) THEN step \in {"execute", "stream"} ELSE step = "settle"
    BY <1>1, <1>3 DEF Follows
  <2> QED
    BY <1>2, <2>1 DEF AtStep, Early
<1>4. Proceed(request)
  BY DEF CreateCrynuxJob, CreateProviderJob
<1> QED
  BY <1>1, <1>3, <1>4, ProceedKept DEF RequestIs

\* A Provider request has a route.
LEMMA ProviderRoute ==
  ASSUME NEW ask, IsProvider(ask)
  PROVE  RouteOf(ask.model) \in Routes
<1>1. \E r \in Routes : r.name = ask.model
  BY DEF IsProvider, IsProviderModel
<1> QED
  BY <1>1 DEF RouteOf

\* A Provider job has run, with usage.
LEMMA RunKept ==
  ASSUME RequestIs(request), request.todo # <<>>, Head(request.todo) \in {"execute", "stream"},
         NEW usage, Counted(usage), usage.known,
         Proceed([request EXCEPT !.usage = usage])
  PROVE  RequestIs(request')
<1>1. AtStep(request, Head(request.todo)) /\ DOMAIN request = RequestNames
  BY DEF RequestIs
<1>2. IsAdmitted(request) /\ request.charge = -1 /\ request.wish \in MinPriority..MaxPriority
  BY <1>1 DEF AtStep, Early
<1> DEFINE n == [request EXCEPT !.usage = usage]
<1>3. /\ DOMAIN n = RequestNames /\ n.todo = request.todo /\ n.offer = request.offer /\ n.hold = request.hold /\ n.charge = -1
      /\ n.row = request.row /\ n.ask = request.ask /\ n.wish = request.wish /\ n.time = request.time
      /\ n.vram = request.vram /\ n.usage = usage
  BY <1>1, <1>2 DEF RequestNames
<1> HIDE DEF n
<1>4. IsAdmitted(n) /\ IsOfferedTo(n)
  BY <1>2, <1>3, SameDeal DEF IsAdmitted
<1>5. ASSUME NEW step, <<Head(request.todo), step>> \in Follows(request.ask) PROVE AtStep(n, step)
  <2>1. step = "settle"
    BY <1>5 DEF Follows
  <2> QED
    BY <1>2, <1>3, <1>4, <2>1 DEF AtStep, Early
<1>6. Proceed(n)
  BY DEF n
<1> QED
  BY <1>3, <1>4, <1>5, <1>6, ProceedKept DEF RequestIs

\* ExecuteProvider keeps the invariant: the answer counts its usage.
LEMMA ExecuteKept ==
  ASSUME RequestKept, ExecuteProvider
  PROVE  RequestIs(request')
<1>1. RequestIs(request) /\ request.todo # <<>> /\ Head(request.todo) = "execute"
  BY WorkedOn DEF ExecuteProvider
<1>2. PICK r \in Reports : Proceed([request EXCEPT !.usage = [known |-> TRUE, report |-> UsageOf(request.ask, r)]])
  BY DEF ExecuteProvider
<1>3. IsProvider(request.ask)
  <2>1. "execute" \in StepsFor(request.ask)
    BY <1>1, TailsArePlans DEF RequestIs
  <2> QED
    BY <2>1 DEF StepsFor
<1>4. UsageOf(request.ask, r).parts \in [Components -> Nat]
  <2>1. RouteOf(request.ask.model).provider \in ServiceProviders
    BY <1>3, ProviderRoute, RoutesTyped
  <2> QED
    BY <2>1, UsagesCount DEF UsageOf, ServiceProviders
<1> DEFINE usage == [known |-> TRUE, report |-> UsageOf(request.ask, r)]
<1>5. Counted(usage) /\ usage.known
  BY <1>4 DEF Counted
<1>6. Proceed([request EXCEPT !.usage = usage])
  BY <1>2
<1> HIDE DEF usage
<1> QED
  BY <1>1, <1>5, <1>6, RunKept

\* A confirmed stream hands its usage to the request.
LEMMA ConfirmationKept ==
  ASSUME RequestKept, StreamKept, StreamIsConfirmed
  PROVE  RequestIs(request')
<1>1. RequestIs(request) /\ request.todo # <<>> /\ Head(request.todo) = "stream"
  BY WorkedOn DEF StreamIsConfirmed
<1>2. Counted(upstream.message.usage) /\ upstream.message.usage.known
  BY DEF StreamIsConfirmed, StreamKept, IsMessage
<1>3. Proceed([request EXCEPT !.usage = upstream.message.usage])
  BY DEF StreamIsConfirmed
<1> QED
  BY <1>1, <1>2, <1>3, RunKept

-----------------------------------------------------------------------------
(* Settlement, answer and the next request. *)

\* SettleCrynux keeps the invariant: the charge is for the tokens of an answer within the request.
LEMMA SettleCrynuxKept ==
  ASSUME RequestKept, SettleCrynux
  PROVE  RequestIs(request')
<1>1. RequestIs(request) /\ request.todo # <<>> /\ Head(request.todo) = "settle" /\ AtStep(request, "settle")
  BY WorkedOn DEF SettleCrynux
<1>2. /\ DOMAIN request = RequestNames /\ IsAdmitted(request) /\ request.wish \in MinPriority..MaxPriority
      /\ ~IsProvider(request.ask)
  BY <1>1 DEF RequestIs, AtStep, Early, SettleCrynux
<1>3. PICK a \in Answers :
        /\ a.prompt <= request.ask.prompt /\ a.completion <= request.ask.completion
        /\ LET seconds == NodeSeconds(request.time, a.prompt, a.completion)
               billable == CrynuxBillable(request.offer.priority, seconds, request.vram)
           IN IF IsImage(request.ask) THEN Proceed([request EXCEPT !.charge = request.hold])
              ELSE Proceed([request EXCEPT !.generated = a, !.charge = Credits(billable)])
  BY DEF SettleCrynux
<1> DEFINE charge == Credits(CrynuxBillable(request.offer.priority, NodeSeconds(request.time, a.prompt, a.completion), request.vram))
<1>4. \/ IsImage(request.ask) /\ Proceed([request EXCEPT !.charge = request.hold])
      \/ ~IsImage(request.ask) /\ Proceed([request EXCEPT !.generated = a, !.charge = charge])
  BY <1>3
<1>5. ASSUME NEW n, DOMAIN n = RequestNames, \A f \in RequestNames \ {"generated", "charge"} : n[f] = request[f],
             IsCharged(n), Proceed(n)
      PROVE  RequestIs(request')
  <2>1. /\ n.todo = request.todo /\ n.offer = request.offer /\ n.hold = request.hold
        /\ n.row = request.row /\ n.ask = request.ask /\ n.wish = request.wish /\ n.time = request.time
        /\ n.vram = request.vram /\ n.usage = request.usage
    BY <1>5 DEF RequestNames
  <2>2. IsAdmitted(n) /\ IsOfferedTo(n)
    BY <1>5 DEF IsCharged, IsAdmitted
  <2>3. ASSUME NEW step, <<Head(request.todo), step>> \in Follows(request.ask) PROVE AtStep(n, step)
    <3>1. step = "answer"
      BY <1>1, <1>2, <2>3 DEF Follows
    <3> QED
      BY <1>2, <2>1, <3>1 DEF AtStep, Early
  <2> QED
    BY <1>1, <1>5, <2>1, <2>2, <2>3, ProceedKept DEF RequestIs
<1>6. CASE IsImage(request.ask) /\ Proceed([request EXCEPT !.charge = request.hold])
  <2> DEFINE n == [request EXCEPT !.charge = request.hold]
  <2>1. DOMAIN n = RequestNames /\ \A f \in RequestNames \ {"generated", "charge"} : n[f] = request[f]
    BY <1>2
  <2>2. n.charge = request.hold
    BY <1>2 DEF RequestNames
  <2>3. /\ n.offer = request.offer /\ n.hold = request.hold
        /\ n.row = request.row /\ n.ask = request.ask /\ n.wish = request.wish /\ n.time = request.time
        /\ n.vram = request.vram
    BY <2>1 DEF RequestNames
  <2>4. Proceed(n)
    BY <1>6
  <2> HIDE DEF n
  <2>5. IsAdmitted(n)
    BY <1>2, <2>3, SameDeal
  <2>6. IsCharged(n)
    BY <1>2, <1>6, <2>2, <2>3, <2>5 DEF IsCharged
  <2> QED
    BY <1>5, <2>1, <2>4, <2>6
<1>7. CASE ~IsImage(request.ask) /\ Proceed([request EXCEPT !.generated = a, !.charge = charge])
  <2> DEFINE n == [request EXCEPT !.generated = a, !.charge = charge]
  <2>1. DOMAIN n = RequestNames /\ \A f \in RequestNames \ {"generated", "charge"} : n[f] = request[f]
    BY <1>2
  <2>2. n.charge = charge
    BY <1>2 DEF RequestNames
  <2>3. /\ n.offer = request.offer /\ n.hold = request.hold
        /\ n.row = request.row /\ n.ask = request.ask /\ n.wish = request.wish /\ n.time = request.time
        /\ n.vram = request.vram
    BY <2>1 DEF RequestNames
  <2>4. Proceed(n)
    BY <1>7
  <2> HIDE DEF n
  <2>5. IsAdmitted(n)
    BY <1>2, <2>3, SameDeal
  <2>6. IsChargedFor(n, a.prompt, a.completion)
    BY <2>2, <2>3 DEF IsChargedFor
  <2>7. a.prompt \in 0..n.ask.prompt /\ a.completion \in 0..n.ask.completion
    <3>1. a.prompt \in Nat /\ a.completion \in Nat
      BY AnswersAssumption
    <3>2. n.ask.prompt \in Nat /\ n.ask.completion \in Nat
      BY <1>1, <2>3 DEF RequestIs, Measured
    <3> QED
      BY <1>3, <2>3, <3>1, <3>2
  <2>8. IsCharged(n)
    BY <1>2, <1>7, <2>3, <2>5, <2>6, <2>7 DEF IsCharged
  <2> QED
    BY <1>5, <2>1, <2>4, <2>8
<1> QED
  BY <1>4, <1>6, <1>7

\* SettleProvider keeps the invariant: the charge is for the reported usage, at the offered priority.
LEMMA SettleProviderKept ==
  ASSUME RequestKept, SettleProvider
  PROVE  RequestIs(request')
<1>1. RequestIs(request) /\ request.todo # <<>> /\ Head(request.todo) = "settle" /\ AtStep(request, "settle")
  BY WorkedOn DEF SettleProvider
<1>2. /\ DOMAIN request = RequestNames /\ IsAdmitted(request) /\ IsProvider(request.ask) /\ request.usage.known
  BY <1>1 DEF RequestIs, AtStep, SettleProvider
<1> DEFINE charge == ProviderCharge(request)
           n == [request EXCEPT !.charge = charge]
<1>3. /\ DOMAIN n = RequestNames
      /\ n.todo = request.todo /\ n.offer = request.offer /\ n.hold = request.hold
      /\ n.row = request.row /\ n.ask = request.ask /\ n.wish = request.wish /\ n.time = request.time
      /\ n.vram = request.vram /\ n.usage = request.usage /\ n.charge = charge
  BY <1>2 DEF RequestNames
<1>4. Proceed(n)
  BY DEF SettleProvider
<1> HIDE DEF n
<1>5. IsAdmitted(n) /\ IsOfferedTo(n)
  BY <1>2, <1>3, SameDeal DEF IsAdmitted
<1>6. ProviderCharge(n) = charge
  BY <1>3 DEF ProviderCharge
<1>7. IsCharged(n)
  BY <1>2, <1>3, <1>5, <1>6 DEF IsCharged
<1>8. \A step : <<Head(request.todo), step>> \notin Follows(request.ask)
  BY <1>1, <1>2 DEF Follows
<1> QED
  BY <1>1, <1>3, <1>4, <1>5, <1>7, <1>8, ProceedKept DEF RequestIs

\* AnswerText keeps the invariant.
LEMMA AnswerKept ==
  ASSUME RequestKept, AnswerText
  PROVE  RequestIs(request')
<1>1. RequestIs(request) /\ request.todo # <<>> /\ Head(request.todo) = "answer"
  BY WorkedOn DEF AnswerText
<1>2. \A step : <<Head(request.todo), step>> \notin Follows(request.ask)
  BY <1>1 DEF Follows
<1> QED
  BY <1>1, <1>2, ProceedKept DEF RequestIs, AnswerText

\* Receive keeps the invariant: a request starts with the row as it is then, and all the steps of its handler.
LEMMA ReceiveKept ==
  ASSUME ProjectKept, Receive
  PROVE  RequestIs(request')
<1>1. project \in Rows
  BY DEF Receive, ProjectKept
<1>2. PICK ask \in Asks :
        LET started == [todo |-> StepsOf(ask), answer |-> "none", row |-> project,
                        ask |-> [ask EXCEPT !.tools.choice = NormalizeToolChoice(ask.tools)],
                        dtype |-> ask.dtype, quant |-> ask.quant, vram |-> ask.vram, wish |-> -1, time |-> <<>>,
                        offer |-> Rejected("none"), hold |-> 0, median |-> -1, usage |-> NoUsage, generated |-> NoAnswer,
                        charge |-> -1]
        IN request' = IF ~IsAuthorized(ask.key) THEN [started EXCEPT !.todo = <<>>, !.answer = "unauthorized"]
                      ELSE IF IsRefused(ask) THEN [started EXCEPT !.todo = <<>>, !.answer = "bad_request"]
                      ELSE started
  BY DEF Receive
<1> DEFINE choice == NormalizeToolChoice(ask.tools)
           asked == [ask EXCEPT !.tools.choice = choice]
<1>3. /\ Measured(asked) /\ asked.model = ask.model /\ asked.api = ask.api /\ ask.vram \in Int
      /\ asked.stream = ask.stream /\ ask \in RequestFields
  <2>1. ask \in RequestFields
    BY RequestsAssumption
  <2>2. /\ asked.prompt = ask.prompt /\ asked.completion = ask.completion /\ asked.vram = ask.vram
        /\ asked.image = ask.image /\ asked.model = ask.model /\ asked.api = ask.api /\ asked.stream = ask.stream
    BY <2>1 DEF RequestFields
  <2>3. /\ ask.prompt \in Nat /\ ask.completion \in Nat /\ ask.vram \in Int
        /\ {ask.image.count, ask.image.width, ask.image.height, ask.image.steps} \subseteq Nat
    BY <2>1 DEF RequestFields
  <2> HIDE DEF asked
  <2> QED
    BY <2>1, <2>2, <2>3 DEF Measured
<1> DEFINE plan == IF IsRefused(ask) THEN <<>> ELSE StepsOf(ask)
           Begun(todo) == [todo |-> todo, answer |-> "none", row |-> project, ask |-> asked,
                           dtype |-> ask.dtype, quant |-> ask.quant, vram |-> ask.vram, wish |-> -1, time |-> <<>>,
                           offer |-> Rejected("none"), hold |-> 0, median |-> -1, usage |-> NoUsage,
                           generated |-> NoAnswer, charge |-> -1]
           started == Begun(plan)
           Refused(k) == /\ DOMAIN k = RequestNames /\ k.todo = <<>>
                         /\ \A f \in RequestNames \ {"todo", "answer"} : k[f] = started[f]
<1>4. request' = started \/ Refused(request')
  <2>1. request' = IF ~IsAuthorized(ask.key) THEN [Begun(StepsOf(ask)) EXCEPT !.todo = <<>>, !.answer = "unauthorized"]
                   ELSE IF IsRefused(ask) THEN [Begun(StepsOf(ask)) EXCEPT !.todo = <<>>, !.answer = "bad_request"]
                   ELSE Begun(StepsOf(ask))
    BY <1>2
  <2> HIDE DEF asked, plan
  <2>2. ASSUME NEW todo, NEW answer PROVE Refused([Begun(todo) EXCEPT !.todo = <<>>, !.answer = answer])
    <3> DEFINE b == Begun(todo)
               k == [b EXCEPT !.todo = <<>>, !.answer = answer]
    <3>1. DOMAIN b = RequestNames /\ \A f \in RequestNames \ {"todo", "answer"} : b[f] = started[f]
      BY DEF RequestNames
    <3> HIDE DEF b, started, Begun
    <3>2. DOMAIN k = RequestNames /\ k.todo = <<>> /\ \A f \in RequestNames \ {"todo", "answer"} : k[f] = b[f]
      BY <3>1 DEF RequestNames
    <3> HIDE DEF k
    <3>3. Refused(k)
      BY <3>1, <3>2
    <3> QED
      BY <3>3 DEF k, b
  <2>3. ~IsRefused(ask) => started = Begun(StepsOf(ask))
    BY DEF plan
  <2> HIDE DEF Refused, Begun, started
  <2> QED
    BY <2>1, <2>2, <2>3
<1> HIDE DEF asked
<1>5. /\ DOMAIN started = RequestNames /\ started.row = project /\ started.ask = asked /\ started.vram = ask.vram
      /\ started.usage = NoUsage /\ started.offer = Rejected("none") /\ started.charge = -1
      /\ started.todo = plan
  BY DEF RequestNames
<1> HIDE DEF started
<1>6. Counted(NoUsage)
  BY DEF Counted, NoUsage
<1>7. IsProvider(asked) = IsProvider(ask)
  BY <1>3 DEF IsProvider, IsRaw
<1>8. IsPlan(plan, asked)
  <2>1. IsPlan(plan, ask)
    BY <1>3, HandlersArePlans, EmptyIsPlan DEF IsRefused
  <2>2. StepsFor(asked) = StepsFor(ask) /\ Follows(asked) = Follows(ask)
    BY <1>3, <1>7 DEF StepsFor, Follows, StreamsText
  <2> QED
    BY <2>1, <2>2 DEF IsPlan
<1>9. plan # <<>> => AtStep(started, Head(plan))
  <2>1. IF IsProvider(ask) THEN Head(StepsOf(ask)) = "wish" ELSE Head(StepsOf(ask)) = "execution"
    BY DEF StepsOf, ProviderSteps, RawSteps, ImageSteps, TextSteps
  <2> QED
    BY <1>5, <2>1 DEF AtStep, Early
<1> HIDE DEF plan
<1>10. RequestIs(started)
  BY <1>1, <1>3, <1>5, <1>6, <1>8, <1>9 DEF RequestIs
<1>11. ASSUME NEW k, Refused(k) PROVE RequestIs(k)
  BY <1>5, <1>10, <1>11, EndsKept
<1> QED
  BY <1>4, <1>10, <1>11

-----------------------------------------------------------------------------
(* The invariant. *)

RequestsInv == CachesKept /\ ProjectKept /\ StreamKept /\ RequestKept

\* Initially there is no project, no request and nothing cached.
LEMMA RequestsInvInit == Init => RequestsInv
BY CachesKeptInit, ProjectKeptInit, StreamKeptInit DEF Init, RequestsInv, RequestKept

\* Each part of the invariant is about its own variables.
LEMMA OthersUnchanged ==
  /\ CachesKept /\ UNCHANGED cacheVars => CachesKept'
  /\ ProjectKept /\ UNCHANGED projectVars => ProjectKept'
  /\ StreamKept /\ UNCHANGED streamVars => StreamKept'
  /\ RequestKept /\ UNCHANGED request => RequestKept'
<1>1. CachesKept /\ UNCHANGED cacheVars => CachesKept'
  BY CachesUnchanged DEF cacheVars, queueVars
<1>2. ProjectKept /\ UNCHANGED projectVars => ProjectKept'
  BY DEF ProjectKept, projectVars
<1>3. StreamKept /\ UNCHANGED streamVars => StreamKept'
  BY DEF StreamKept, streamVars, IsMessage, Counted
<1>4. RequestKept /\ UNCHANGED request => RequestKept'
  <2>1. RequestIs(request) /\ request' = request => RequestIs(request')
    OBVIOUS
  <2> QED
    BY <2>1 DEF RequestKept, RequestIs
<1> QED
  BY <1>1, <1>2, <1>3, <1>4

\* Steps of the request that leave the rest alone.
LEMMA AloneKept ==
  ASSUME RequestsInv, RequestKept', UNCHANGED <<cacheVars, projectVars, streamVars>>
  PROVE  RequestsInv'
BY OthersUnchanged DEF RequestsInv

\* Every step of a request keeps the invariant, what it does to streams and caches included.
LEMMA RequestSteps ==
  ASSUME RequestsInv, RequestNext
  PROVE  RequestsInv'
<1>0. CachesKept /\ ProjectKept /\ StreamKept /\ RequestKept
  BY DEF RequestsInv
<1>1. RequestIs(request') => RequestKept'
  BY DEF RequestKept
<1>2. CASE Receive
  BY <1>0, <1>1, <1>2, ReceiveKept, AloneKept DEF Receive
<1>3. CASE ResolveExecution
  BY <1>0, <1>1, <1>3, ExecutionKept, AloneKept DEF ResolveExecution
<1>4. CASE ResolveVram
  BY <1>0, <1>1, <1>4, VramKept, AloneKept DEF ResolveVram
<1>5. CASE ValidateModel
  BY <1>0, <1>1, <1>5, ModelKept, AloneKept DEF ValidateModel
<1>6. CASE ResolveWish
  BY <1>0, <1>1, <1>6, WishKept, AloneKept DEF ResolveWish
<1>7. CASE PriceFromCache
  <2>1. times[Query].time \in TimeListings
    BY <1>0, <1>7 DEF PriceFromCache, IsCached, CachesKept
  <2>2. RequestIs(request')
    BY <1>0, <1>7, <2>1, PriceKept DEF PriceFromCache
  <2> QED
    BY <1>1, <1>7, <2>2, AloneKept DEF PriceFromCache
<1>8. CASE PriceFromRelay
  <2>1. PICK time \in TimeListings : PriceCrynux(time) /\ CacheTime(Query, time)
    BY <1>8 DEF PriceFromRelay
  <2>2. RequestIs(request')
    BY <1>0, <1>8, <2>1, PriceKept DEF PriceFromRelay
  <2>3. CachesKept'
    BY <1>0, <1>8, <2>1, TimesKept DEF PriceFromRelay, tickVars
  <2> QED
    BY <1>0, <1>1, <1>8, <2>2, <2>3, OthersUnchanged DEF PriceFromRelay, RequestsInv
<1>9. ASSUME NEW answer, ~Idle, Refuse(answer), UNCHANGED <<cacheVars, projectVars, streamVars>> PROVE RequestsInv'
  <2>1. RequestIs(request)
    BY <1>0, <1>9 DEF RequestKept, Idle, NoRequest
  <2> QED
    BY <1>1, <1>9, <2>1, RefuseKept, AloneKept
<1>10. CASE PriceFails
  BY <1>9, <1>10 DEF PriceFails, Doing
<1>11. CASE PriceProvider
  BY <1>0, <1>1, <1>11, ProviderPriceKept, AloneKept DEF PriceProvider
<1>12. CASE CreateCrynuxJob
  BY <1>0, <1>1, <1>12, CreateKept, AloneKept DEF CreateCrynuxJob
<1>13. CASE CreateProviderJob
  <2>1. RequestIs(request')
    BY <1>0, <1>13, CreateKept
  <2>2. RouteOf(request.ask.model).provider \in ServiceProviders
    BY <1>13, ProviderRoute, RoutesTyped DEF CreateProviderJob
  <2>3. StreamKept'
    <3>1. CASE request.ask.stream
      BY <1>13, <2>2, <3>1, StreamOpens DEF CreateProviderJob
    <3>2. CASE ~request.ask.stream
      BY <1>0, <1>13, <3>2, OthersUnchanged DEF CreateProviderJob
    <3> QED
      BY <3>1, <3>2
  <2> QED
    BY <1>0, <1>1, <1>13, <2>1, <2>3, OthersUnchanged DEF CreateProviderJob, RequestsInv
<1>14. CASE CreateIsRefused
  BY <1>9, <1>14 DEF CreateIsRefused, Doing
<1>15. CASE SettleCrynux
  BY <1>0, <1>1, <1>15, SettleCrynuxKept, AloneKept DEF SettleCrynux
<1>16. CASE AnswerText
  <2>1. RequestIs(request')
    BY <1>0, <1>16, AnswerKept
  <2>2. StreamKept'
    BY <1>0, <1>16, CompletedKept, OthersUnchanged DEF AnswerText
  <2> QED
    BY <1>0, <1>1, <1>16, <2>1, <2>2, OthersUnchanged DEF AnswerText, RequestsInv
<1>17. CASE ExecuteProvider
  BY <1>0, <1>1, <1>17, ExecuteKept, AloneKept DEF ExecuteProvider
<1>18. CASE StreamIsConfirmed
  BY <1>0, <1>1, <1>18, ConfirmationKept, AloneKept DEF StreamIsConfirmed
<1>19. CASE SettleProvider
  <2>1. RequestIs(request')
    BY <1>0, <1>19, SettleProviderKept
  <2>2. StreamKept'
    BY <1>0, <1>19, StreamSteps, OthersUnchanged DEF SettleProvider
  <2> QED
    BY <1>0, <1>1, <1>19, <2>1, <2>2, OthersUnchanged DEF SettleProvider, RequestsInv
<1>20. CASE JobFails
  BY <1>9, <1>20 DEF JobFails
<1> QED
  BY <1>2, <1>3, <1>4, <1>5, <1>6, <1>7, <1>8, <1>10, <1>11, <1>12, <1>13, <1>14, <1>15, <1>16, <1>17, <1>18, <1>19, <1>20
     DEF RequestNext

\* Every step keeps the invariant.
LEMMA RequestsInvStep == RequestsInv /\ [Next]_vars => RequestsInv'
<1> SUFFICES ASSUME RequestsInv, [Next]_vars PROVE RequestsInv'
  OBVIOUS
<1>0. CachesKept /\ ProjectKept /\ StreamKept /\ RequestKept
  BY DEF RequestsInv
<1>1. CASE RequestNext
  BY <1>1, RequestSteps
<1>2. CASE RetrySettlement \/ UNCHANGED vars
  BY <1>0, <1>2, OthersUnchanged DEF RetrySettlement, vars, RequestsInv
<1>3. CASE StreamNext /\ UNCHANGED <<cacheVars, projectVars, request, served>>
  BY <1>0, <1>3, StreamSteps, OthersUnchanged DEF RequestsInv
<1>4. CASE TimePasses /\ UNCHANGED <<projectVars, streamVars, request, served>>
  <2>1. CachesKept'
    BY <1>0, <1>4, CachesUnchanged DEF TimePasses, tickVars
  <2> QED
    BY <1>0, <1>4, <2>1, OthersUnchanged DEF RequestsInv
<1>5. CASE (LoadNext \/ CatalogNext) /\ UNCHANGED <<projectVars, streamVars, request, served>>
  <2>1. CachesKept'
    BY <1>0, <1>5, TickersKept
  <2> QED
    BY <1>0, <1>5, <2>1, OthersUnchanged DEF RequestsInv
<1>6. CASE HintNext /\ UNCHANGED <<projectVars, streamVars, request, served>>
  <2>1. CachesKept'
    BY <1>0, <1>6, HintsKept
  <2> QED
    BY <1>0, <1>6, <2>1, OthersUnchanged DEF RequestsInv
<1>7. CASE ProjectNext /\ UNCHANGED <<cacheVars, streamVars, request, served>>
  <2>1. ProjectKept'
    BY <1>0, <1>7, ProjectSteps
  <2> QED
    BY <1>0, <1>7, <2>1, OthersUnchanged DEF RequestsInv
<1> QED
  BY <1>1, <1>2, <1>3, <1>4, <1>5, <1>6, <1>7 DEF Next

\* In every reachable state the caches, the project row, the stream and the request are what
\* RequestsInv says: a request goes through the steps of its handler in order, it is offered
\* what its row as loaded allows, is held for that offer, and is charged for its own usage.
THEOREM RequestsCorrect == Spec => []RequestsInv
<1> QED
  BY RequestsInvInit, RequestsInvStep, PTL DEF Spec

-----------------------------------------------------------------------------
(* What the invariant implies. *)

\* An offer that was made is the offer of the row, the wish and the times the request kept.
LEMMA OfferIsMade ==
  ASSUME RequestKept, IsOffered
  PROVE  RequestIs(request) /\ IsOfferedTo(request)
BY DEF RequestKept, IsOffered, RequestIs

\* The times and the minimum a Crynux request is priced with.
LEMMA CrynuxPriceTyped ==
  ASSUME NEW r, Measured(r.ask), r.time \in ExecutionTimes, r.vram \in Int
  PROVE  /\ \A prompt, completion \in Nat : NodeSeconds(r.time, prompt, completion) \in Nat
         /\ \E seconds \in Nat : \A p : CrynuxAmount(r, p) = CrynuxBillable(p, seconds, r.vram)
         /\ ~IsImage(r.ask) => \A p : CrynuxAmount(r, p) =
              CrynuxBillable(p, NodeSeconds(r.time, r.ask.prompt, r.ask.completion), r.vram)
         /\ CrynuxMinFee(r.ask) \in Nat
<1>1. /\ r.time.constant \in Nat /\ r.time.input \in Nat /\ r.time.output \in Nat /\ r.time.overhead \in Nat
      /\ r.time.step \in Nat
  BY DEF ExecutionTimes
<1>2. ASSUME NEW prompt \in Nat, NEW completion \in Nat PROVE NodeSeconds(r.time, prompt, completion) \in Nat
  <2>1. r.time.input * prompt \in Nat /\ r.time.output * completion \in Nat
    BY <1>1, Products
  <2> QED
    BY <1>1, <2>1 DEF NodeSeconds
<1>3. ImageUnits(r.ask) \in Nat
  <2> DEFINE a == r.ask.image.count
             b == r.ask.image.width
             c == r.ask.image.height
             d == r.ask.image.steps
  <2>1. a \in Nat /\ b \in Nat /\ c \in Nat /\ d \in Nat
    BY DEF Measured
  <2> HIDE DEF a, b, c, d
  <2>2. a * b * c * d \in Nat
    BY <2>1, Products
  <2>3. ImageUnits(r.ask) = IF a * b * c * d > MaxUint64 THEN 0 ELSE a * b * c * d
    BY DEF ImageUnits, ImagePixelStepUnits, a, b, c, d
  <2> QED
    BY <2>2, <2>3
<1>4. ImageSeconds(r.time, ImageUnits(r.ask)) \in Nat
  <2>1. ImageUnits(r.ask) * r.time.step \in Nat
    BY <1>1, <1>3, Products
  <2> DEFINE n == r.time.overhead + ImageUnits(r.ask) * r.time.step
  <2>2. n \in Nat
    BY <1>1, <2>1
  <2> HIDE DEF n
  <2>3. Larger(SecondScale, n) \in Nat
    BY <2>2, ConstantsTyped DEF Larger
  <2> QED
    BY <2>3 DEF ImageSeconds, n
<1>5. r.ask.prompt \in Nat /\ r.ask.completion \in Nat
  BY DEF Measured
<1>6. \E seconds \in Nat : \A p : CrynuxAmount(r, p) = CrynuxBillable(p, seconds, r.vram)
  BY <1>2, <1>4, <1>5 DEF CrynuxAmount
<1>7. ~IsImage(r.ask) => \A p : CrynuxAmount(r, p) =
        CrynuxBillable(p, NodeSeconds(r.time, r.ask.prompt, r.ask.completion), r.vram)
  BY DEF CrynuxAmount
<1>8. ASSUME NEW units \in Nat, NEW baseline \in Nat \ {0} PROVE ScaleMinTaskFee(MinTaskFee["crynux"], units, baseline) \in Nat
  <2>1. MinTaskFee["crynux"] \in Nat
    BY PricingAssumption DEF MinTaskPricesAreChecked
  <2>2. MinTaskFee["crynux"] * units \in Nat
    BY <2>1, Products
  <2> QED
    BY <2>2, Quotients DEF ScaleMinTaskFee
<1>9. BaselineUnits \in Nat \ {0} /\ DefaultMaxTokens \in Nat \ {0}
  BY PricingAssumption DEF LLMConfigIsChecked
<1>10. CrynuxMinFee(r.ask) \in Nat
  BY <1>3, <1>5, <1>8, <1>9 DEF CrynuxMinFee
<1> QED
  BY <1>2, <1>6, <1>7, <1>10

\* The priorities up to top can be the affordable ones of PriorityIsReference.
IsBudget(top) ==
  /\ WithinBudget(0) \subseteq MinPriority..top
  /\ MinPriority..top \subseteq WithinBudget(CreditsOfOneGwei)

\* A budget found on amounts rounded down to Gwei is a budget of the exact ones, but for the Credits of a Gwei.
LEMMA FlooredBudget ==
  ASSUME NEW top \in Int, top <= MaxPriority, request.row.maxCredits \in Nat, NEW Amount,
         \A p \in MinPriority..MaxPriority : Amount[p] \in Nat /\ HoldAt(p) = Credits(Amount[p]),
         \A p \in MinPriority..MaxPriority :
           p <= top <=> Affordable(request.row, Gwei(Amount[p]) * FeeScale)
  PROVE  IsBudget(top)
<1> DEFINE most == request.row.maxCredits
<1> SUFFICES ASSUME NEW p \in MinPriority..MaxPriority
             PROVE  /\ HoldAt(p) <= most => p <= top
                    /\ p <= top => HoldAt(p) <= most + CreditsOfOneGwei
  <2>1. MinPriority \in Nat /\ MaxPriority \in Nat /\ most + 0 = most
    BY ConstantsTyped
  <2>2. \A p \in MinPriority..top : p \in MinPriority..MaxPriority /\ p <= top
    BY <2>1
  <2>3. \A p \in MinPriority..MaxPriority : p <= top => p \in MinPriority..top
    BY <2>1
  <2> HIDE DEF most
  <2>4. WithinBudget(0) = {p \in MinPriority..MaxPriority : HoldAt(p) <= most}
    BY <2>1 DEF WithinBudget, most
  <2>5. WithinBudget(CreditsOfOneGwei)
          = {p \in MinPriority..MaxPriority : HoldAt(p) <= most + CreditsOfOneGwei}
    BY DEF WithinBudget, most
  <2> QED
    BY <2>2, <2>3, <2>4, <2>5 DEF IsBudget
<1> DEFINE floored == Credits(Gwei(Amount[p]) * FeeScale)
<1>1. /\ floored \in Nat /\ HoldAt(p) \in Nat /\ CreditsOfOneGwei \in Nat
      /\ floored <= HoldAt(p) /\ HoldAt(p) <= floored + CreditsOfOneGwei
  BY FlooredCredits
<1>2. p <= top <=> floored <= most
  BY DEF Affordable
<1> HIDE DEF floored, most
<1>3. most \in Nat
  BY DEF most
<1> QED
  BY <1>1, <1>2, <1>3

\* The affordable priorities are those up to some highest one.
LEMMA AffordableRange ==
  ASSUME NEW prow, prow.maxCredits \in Nat, NEW Fee, Grows(Fee, MinPriority, MaxPriority)
  PROVE  \E top \in (MinPriority - 1)..MaxPriority :
           {p \in MinPriority..MaxPriority : Affordable(prow, Fee[p] * FeeScale)} = MinPriority..top
<1> DEFINE affordable == {p \in MinPriority..MaxPriority : Affordable(prow, Fee[p] * FeeScale)}
           found == MaxPriorityWithinAutoMaxCredits(prow, Fee)
<1>1. MinPriority \in Nat /\ MaxPriority \in Nat /\ MinPriority <= MaxPriority
  BY ConstantsTyped
<1>2. affordable = {} \/ (found.priority \in affordable /\ affordable = MinPriority..found.priority)
  BY BudgetFinds
<1>3. affordable \subseteq MinPriority..MaxPriority
  OBVIOUS
<1> HIDE DEF affordable, found
<1>4. CASE affordable = {}
  <2>1. MinPriority..(MinPriority - 1) = {} /\ MinPriority - 1 \in (MinPriority - 1)..MaxPriority
    BY <1>1
  <2>2. affordable = MinPriority..(MinPriority - 1)
    BY <1>4, <2>1
  <2> QED
    BY <2>1, <2>2 DEF affordable
<1>5. CASE found.priority \in affordable /\ affordable = MinPriority..found.priority
  <2>1. found.priority \in (MinPriority - 1)..MaxPriority
    BY <1>1, <1>3, <1>5
  <2> QED
    BY <1>5, <2>1 DEF affordable
<1> QED
  BY <1>2, <1>4, <1>5

\* A request has its reference: admission chose it out of some budget.
HasReference ==
  \E top \in (MinPriority - 1)..MaxPriority :
    /\ IsBudget(top)
    /\ Reference(MinPriority..top) = IF request.offer.error = "none" THEN {request.offer.priority} ELSE {}

\* The offer on Crynux is the reference, which knows nothing of searches.
LEMMA CrynuxOfferIsReference ==
  ASSUME RequestIs(request), IsOfferedTo(request), ~IsProvider(request.ask)
  PROVE  HasReference
<1> DEFINE row == request.row
           wish == request.wish
           minFee == CrynuxMinFee(request.ask)
           amount == [p \in MinPriority..MaxPriority |-> CrynuxAmount(request, p)]
           fee == [p \in MinPriority..MaxPriority |-> Gwei(CrynuxAmount(request, p))]
           offer == request.offer
           affordable == {p \in MinPriority..MaxPriority : Affordable(row, fee[p] * FeeScale)}
           willing == IF row.mode = "static" THEN {p \in {wish} : p \in affordable}
                      ELSE {p \in affordable : p >= wish \/ \A q \in affordable : q <= p}
           paying == {p \in willing : fee[p] >= minFee}
<1>1. /\ row.maxCredits \in Nat /\ row.mode \in {"static", "auto"} /\ wish \in MinPriority..MaxPriority /\ minFee \in Nat
      /\ offer = EnforceMinTaskFee(row, wish, minFee, fee)
  BY CrynuxPriceTyped DEF RequestIs, IsOfferedTo, OfferOf, Rows
<1>2. /\ Grows(fee, MinPriority, MaxPriority)
      /\ \A p \in MinPriority..MaxPriority : CrynuxAmount(request, p) \in Nat
  <2>1. PICK seconds \in Nat : \A p : CrynuxAmount(request, p) = CrynuxBillable(p, seconds, request.vram)
    BY CrynuxPriceTyped DEF RequestIs, IsOfferedTo
  <2>2. fee = [p \in MinPriority..MaxPriority |-> Gwei(CrynuxBillable(p, seconds, request.vram))]
    BY <2>1
  <2>3. request.vram \in Int
    BY DEF RequestIs
  <2> HIDE DEF fee
  <2>4. Grows(fee, MinPriority, MaxPriority)
    BY <2>2, <2>3, CrynuxFeesGrow
  <2>5. \A p \in MinPriority..MaxPriority : p \in Nat
    BY ConstantsTyped
  <2>6. \A p \in MinPriority..MaxPriority : CrynuxAmount(request, p) \in Nat
    BY <2>1, <2>3, <2>5, CrynuxBillableIs
  <2> QED
    BY <2>4, <2>6
<1>3. \/ /\ offer.error = "none" /\ offer.priority \in paying
         /\ \A q \in paying : offer.priority <= q
      \/ /\ offer.error # "none" /\ offer = Rejected(offer.error) /\ paying = {}
         /\ row.mode = "auto" => \A p \in affordable : fee[p] < minFee
  <2> HIDE DEF row, wish, minFee, fee, offer
  <2> QED
    BY <1>1, <1>2, CrynuxAdmission
<1>4. PICK top \in (MinPriority - 1)..MaxPriority : affordable = MinPriority..top
  <2> HIDE DEF row, fee
  <2> QED
    BY <1>1, <1>2, AffordableRange
<1>5. IsBudget(top)
  <2>1. \A p \in MinPriority..MaxPriority : amount[p] = CrynuxAmount(request, p) /\ fee[p] = Gwei(amount[p])
    OBVIOUS
  <2>2. \A p \in MinPriority..MaxPriority : p <= top <=> Affordable(row, fee[p] * FeeScale)
    <3>1. MinPriority \in Nat /\ MaxPriority \in Nat
      BY ConstantsTyped
    <3>2. \A p \in MinPriority..MaxPriority : p \in affordable <=> Affordable(row, fee[p] * FeeScale)
      OBVIOUS
    <3>3. \A p \in MinPriority..MaxPriority : p \in MinPriority..top <=> p <= top
      BY <3>1
    <3> HIDE DEF affordable
    <3> QED
      BY <1>4, <3>2, <3>3
  <2>3. \A p \in MinPriority..MaxPriority : HoldAt(p) = Credits(amount[p]) /\ amount[p] \in Nat
    <3>1. \A p : HoldAt(p) = Credits(CrynuxAmount(request, p))
      BY DEF HoldAt
    <3> HIDE DEF amount
    <3> QED
      BY <1>2, <2>1, <3>1
  <2>4. top \in Int
    BY ConstantsTyped
  <2> HIDE DEF amount, fee
  <2>5. \A p \in MinPriority..MaxPriority :
          p <= top <=> Affordable(request.row, Gwei(amount[p]) * FeeScale)
    BY <2>1, <2>2
  <2>6. request.row.maxCredits \in Nat
    BY <1>1
  <2> QED
    BY <2>3, <2>4, <2>5, <2>6, FlooredBudget
<1>6. CrynuxReference(affordable) = {p \in paying : \A q \in paying : p <= q}
                                    \cup {p \in affordable : row.mode = "auto" /\ paying = {} /\ fee[p] >= minFee}
  <2> DEFINE pays(p) == CrynuxAmount(request, p) >= minFee * FeeScale
             willing2 == IF row.mode = "static" THEN affordable \cap {wish}
                         ELSE {p \in affordable : p >= wish \/ \A q \in affordable : q <= p}
             paying2 == {p \in willing2 : pays(p)}
  <2>1. CrynuxReference(affordable) = {p \in paying2 : \A q \in paying2 : p <= q}
                                      \cup {p \in affordable : row.mode = "auto" /\ paying2 = {} /\ pays(p)}
    BY DEF CrynuxReference
  <2>2. \A p \in MinPriority..MaxPriority : pays(p) <=> fee[p] >= minFee
    BY <1>1, <1>2, GweiReach
  <2>3. willing \subseteq MinPriority..MaxPriority /\ affordable \subseteq MinPriority..MaxPriority
    OBVIOUS
  <2> HIDE DEF affordable, fee, pays
  <2>4. willing2 = willing
    OBVIOUS
  <2> HIDE DEF willing, willing2
  <2>5. paying2 = paying
    BY <2>2, <2>3, <2>4
  <2> HIDE DEF paying, paying2
  <2>6. {p \in affordable : row.mode = "auto" /\ paying2 = {} /\ pays(p)}
          = {p \in affordable : row.mode = "auto" /\ paying = {} /\ fee[p] >= minFee}
    BY <2>2, <2>3, <2>5
  <2> QED
    BY <2>1, <2>5, <2>6
<1>7. paying \subseteq MinPriority..MaxPriority /\ affordable \subseteq MinPriority..MaxPriority
  OBVIOUS
<1>8. \A p \in affordable : fee[p] \in Int
  <2>1. \A p \in MinPriority..MaxPriority : fee[p] \in Nat
    BY <1>2 DEF Grows
  <2> HIDE DEF fee
  <2> QED
    BY <2>1, <1>7
<1> HIDE DEF paying, affordable, fee, offer, minFee, amount
<1>9. CrynuxReference(affordable) = IF offer.error = "none" THEN {offer.priority} ELSE {}
  <2>1. CASE offer.error = "none"
    <3>1. offer.priority \in paying /\ \A q \in paying : offer.priority <= q
      BY <1>3, <2>1
    <3>2. \A p \in paying : (\A q \in paying : p <= q) => p = offer.priority
      <4>1. \A p \in paying : p \in Int
        BY <1>7, ConstantsTyped
      <4> SUFFICES ASSUME NEW p \in paying, \A q \in paying : p <= q PROVE p = offer.priority
        OBVIOUS
      <4>2. p <= offer.priority /\ offer.priority <= p /\ p \in Int /\ offer.priority \in Int
        BY <3>1, <4>1
      <4> QED
        BY <4>2
    <3> QED
      BY <1>6, <2>1, <3>1, <3>2
  <2>2. CASE offer.error # "none"
    <3>1. paying = {} /\ (row.mode = "auto" => \A p \in affordable : fee[p] < minFee)
      BY <1>3, <2>2
    <3>2. \A p \in affordable : ~(row.mode = "auto" /\ fee[p] >= minFee)
      BY <1>1, <1>8, <3>1
    <3> QED
      BY <1>6, <2>2, <3>1, <3>2
  <2> QED
    BY <2>1, <2>2
<1>10. Reference(MinPriority..top) = IF offer.error = "none" THEN {offer.priority} ELSE {}
  BY <1>4, <1>9 DEF Reference
<1> QED
  BY <1>5, <1>10 DEF HasReference, offer

\* The lowest priority at which the cheapest model of the kind pays the minimum, in one operator.
SharedFloor(input, output, apiKind) ==
  LET units == {u \in {EstimateProviderUnits(r.weights, input, output) : r \in {r \in Routes : r.apiKind = apiKind}} : u > 0}
      enough == {p \in MinPriority..MaxPriority : \A u \in units : p * u >= MinTaskFee["providers"] * FeeScale}
  IN IF units = {} THEN MinPriority ELSE Min(enough \cup {MaxPriority})

\* The shared minimum the code resolves is the reference.
LEMMA SharedFloorIs ==
  ASSUME NEW input \in Nat, NEW output \in Nat, NEW apiKind
  PROVE  SharedFloor(input, output, apiKind) =
           IF SharedMinPriority(input, output, apiKind) > 0 THEN SharedMinPriority(input, output, apiKind) ELSE MinPriority
BY SharedMinimumIs DEF SharedFloor

\* The offer on a Provider is the reference.
LEMMA ProviderOfferIsReference ==
  ASSUME RequestIs(request), IsOfferedTo(request), IsProvider(request.ask)
  PROVE  HasReference
<1> DEFINE row == request.row
           wish == request.wish
           offer == request.offer
           route == RouteOf(request.ask.model)
           units == EstimateProviderUnits(route.weights, request.ask.prompt, request.ask.completion)
           shared == SharedMinPriority(request.ask.prompt, request.ask.completion, route.apiKind)
           amounts == [p \in MinPriority..MaxPriority |-> ProviderAmount(request, p)]
           lower == IF shared > 0 THEN shared ELSE MinPriority
           allowed == {p \in MinPriority..MaxPriority : Affordable(row, Gwei(amounts[p]) * FeeScale) /\ p >= lower}
<1>1. /\ row.maxCredits \in Nat /\ row.mode \in {"static", "auto"} /\ wish \in MinPriority..MaxPriority
      /\ request.ask.prompt \in Nat /\ request.ask.completion \in Nat
  BY DEF RequestIs, IsOfferedTo, Rows, Measured
<1>2. offer = EnforceSharedMinPriority(row, wish, shared, amounts)
  BY DEF IsOfferedTo, OfferOf, ProviderOffer
<1>3. shared = 0 \/ shared \in MinPriority..MaxPriority
  BY <1>1, SharedMinimumIs
<1>4. SharedReference = lower
  <2> DEFINE apiKind == route.apiKind
             prompt == request.ask.prompt
             completion == request.ask.completion
  <2>1. SharedReference = SharedFloor(prompt, completion, apiKind)
    BY Zenon DEF SharedReference, SharedFloor
  <2>2. shared = SharedMinPriority(prompt, completion, apiKind)
    OBVIOUS
  <2> HIDE DEF apiKind, shared
  <2>3. prompt \in Nat /\ completion \in Nat
    BY <1>1
  <2> HIDE DEF prompt, completion
  <2>4. SharedFloor(prompt, completion, apiKind) = IF shared > 0 THEN shared ELSE MinPriority
    BY <2>2, <2>3, SharedFloorIs
  <2> QED
    BY <2>1, <2>4
<1>5. DOMAIN amounts = MinPriority..MaxPriority /\ Grows(amounts, MinPriority, MaxPriority)
  <2>1. route \in Routes
    BY ProviderRoute
  <2>2. units \in Nat /\ MaxTaskFee[route.provider] \in Nat
    BY <1>1, <2>1, EstimateTyped, RoutesTyped
  <2>3. amounts = [p \in MinPriority..MaxPriority |-> ProviderBillable(p, units, MaxTaskFee[route.provider])]
    BY DEF ProviderAmount
  <2> HIDE DEF amounts, units, route
  <2> QED
    BY <2>2, <2>3, ProviderAmountsGrow
<1>6. /\ row.mode = "static" =>
           IF wish >= lower /\ Affordable(row, amounts[wish])
           THEN offer.error = "none" /\ offer.priority = wish ELSE offer.error # "none"
      /\ row.mode = "auto" =>
           \/ offer.error # "none" /\ allowed = {}
           \/ /\ offer.error = "none" /\ offer.priority \in allowed
              /\ \A q \in allowed : q # offer.priority => Distance(offer.priority, wish) < Distance(q, wish)
  <2>1. IsNearest(row, wish, shared, amounts, offer)
    <3> HIDE DEF row, wish, shared, amounts, offer
    <3> QED
      BY <1>1, <1>2, <1>3, <1>5, ProviderAdmission
  <2> HIDE DEF row, wish, shared, amounts, offer
  <2> QED
    BY <2>1, Zenon DEF IsNearest
<1>7. /\ \A p \in MinPriority..MaxPriority : amounts[p] = ProviderAmount(request, p) /\ amounts[p] \in Nat
      /\ \A p : HoldAt(p) = Credits(ProviderAmount(request, p))
  <2>1. \A p \in MinPriority..MaxPriority : amounts[p] = ProviderAmount(request, p)
    OBVIOUS
  <2>2. \A p \in MinPriority..MaxPriority : amounts[p] \in Nat
    <3> HIDE DEF amounts
    <3> QED
      BY <1>5 DEF Grows
  <2>3. \A p : HoldAt(p) = Credits(ProviderAmount(request, p))
    BY DEF HoldAt
  <2> QED
    BY <2>1, <2>2, <2>3
<1> DEFINE affordable == {p \in MinPriority..MaxPriority : Affordable(row, Gwei(amounts[p]) * FeeScale)}
<1>8. PICK top \in (MinPriority - 1)..MaxPriority : affordable = MinPriority..top
  <2> DEFINE fee == [p \in DOMAIN amounts |-> Gwei(amounts[p])]
  <2> HIDE DEF amounts, row
  <2>1. Grows(fee, MinPriority, MaxPriority)
    BY <1>5, FloorsGrow
  <2>2. \A p \in MinPriority..MaxPriority : fee[p] = Gwei(amounts[p])
    BY <1>5
  <2> HIDE DEF fee
  <2>3. affordable = {p \in MinPriority..MaxPriority : Affordable(row, fee[p] * FeeScale)}
    BY <2>2
  <2> HIDE DEF affordable
  <2> QED
    BY <1>1, <2>1, <2>3, AffordableRange
<1>9. IsBudget(top)
  <2>1. MinPriority \in Nat /\ MaxPriority \in Nat /\ top \in Int
    BY ConstantsTyped
  <2>2. \A p \in MinPriority..MaxPriority : p \in affordable <=> Affordable(row, Gwei(amounts[p]) * FeeScale)
    OBVIOUS
  <2>3. \A p \in MinPriority..MaxPriority : p \in MinPriority..top <=> p <= top
    BY <2>1
  <2> HIDE DEF amounts, affordable
  <2>4. \A p \in MinPriority..MaxPriority :
          p <= top <=> Affordable(request.row, Gwei(amounts[p]) * FeeScale)
    BY <1>8, <2>2, <2>3
  <2>5. \A p \in MinPriority..MaxPriority : amounts[p] \in Nat /\ HoldAt(p) = Credits(amounts[p])
    BY <1>7
  <2>6. request.row.maxCredits \in Nat
    BY <1>1
  <2> QED
    BY <2>1, <2>4, <2>5, <2>6, FlooredBudget
<1>10. CASE row.mode = "static"
  <2>1. ProviderReference(affordable) = {p \in {wish} : p >= lower /\ HoldAt(p) <= row.maxCredits}
    BY <1>4, <1>10 DEF ProviderReference
  <2>2. Affordable(row, amounts[wish]) <=> HoldAt(wish) <= row.maxCredits
    BY <1>1, <1>7 DEF Affordable
  <2> HIDE DEF wish, lower, amounts, offer, affordable
  <2>3. CASE wish >= lower /\ Affordable(row, amounts[wish])
    <3>1. ProviderReference(affordable) = {wish} /\ offer.error = "none" /\ offer.priority = wish
      BY <1>6, <1>10, <2>1, <2>2, <2>3
    <3> QED
      BY <1>8, <1>9, <3>1 DEF offer, Reference, HasReference
  <2>4. CASE ~(wish >= lower /\ Affordable(row, amounts[wish]))
    <3>1. ProviderReference(affordable) = {} /\ offer.error # "none"
      BY <1>6, <1>10, <2>1, <2>2, <2>4
    <3> QED
      BY <1>8, <1>9, <3>1 DEF offer, Reference, HasReference
  <2> QED
    BY <2>3, <2>4
<1>11. CASE row.mode = "auto"
  <2> DEFINE distance(p) == IF p < wish THEN wish - p ELSE p - wish
  <2>1. allowed = {p \in affordable : p >= lower}
    <3> HIDE DEF amounts, lower
    <3> QED
      OBVIOUS
  <2>2. ProviderReference(affordable) = {p \in allowed : \A q \in allowed : distance(p) <= distance(q)}
    <3> HIDE DEF affordable, amounts
    <3> QED
      BY <1>4, <1>11, <2>1 DEF ProviderReference
  <2>3. \A p \in allowed : distance(p) = Distance(p, wish) /\ distance(p) \in Nat
    <3>1. \A p \in allowed : p \in Nat
      BY ConstantsTyped
    <3>2. wish \in Nat
      BY <1>1, ConstantsTyped
    <3> HIDE DEF allowed, wish
    <3> QED
      BY <3>1, <3>2 DEF Distance
  <2> HIDE DEF allowed, offer, distance, affordable
  <2>4. CASE offer.error = "none"
    <3>1. offer.priority \in allowed /\ \A q \in allowed : q # offer.priority => distance(offer.priority) < distance(q)
      BY <1>6, <1>11, <2>3, <2>4
    <3>2. ASSUME NEW q \in allowed PROVE distance(offer.priority) <= distance(q)
      BY <2>3, <3>1
    <3>3. ASSUME NEW p \in allowed, \A q \in allowed : distance(p) <= distance(q) PROVE p = offer.priority
      <4>1. distance(p) <= distance(offer.priority) /\ distance(p) \in Nat /\ distance(offer.priority) \in Nat
        BY <2>3, <3>1, <3>3
      <4> QED
        BY <3>1, <4>1
    <3>4. ProviderReference(affordable) = {offer.priority}
      BY <2>2, <3>1, <3>2, <3>3
    <3> QED
      BY <1>8, <1>9, <2>4, <3>4 DEF offer, Reference, HasReference
  <2>5. CASE offer.error # "none"
    <3>1. allowed = {}
      BY <1>6, <1>11, <2>5
    <3>2. ProviderReference(affordable) = {}
      BY <2>2, <3>1
    <3> QED
      BY <1>8, <1>9, <2>5, <3>2 DEF offer, Reference, HasReference
  <2> QED
    BY <2>4, <2>5
<1> QED
  BY <1>1, <1>10, <1>11

\* The invariant implies that the priority is the reference.
LEMMA PriorityIs == RequestsInv => PriorityIsReference
<1> SUFFICES ASSUME RequestKept, IsOffered PROVE HasReference
  BY DEF RequestsInv, PriorityIsReference, HasReference, IsBudget
<1>1. RequestIs(request) /\ IsOfferedTo(request)
  BY OfferIsMade
<1> QED
  BY <1>1, CrynuxOfferIsReference, ProviderOfferIsReference

-----------------------------------------------------------------------------
(* The charge. *)

\* An offer that is no error has a priority.
LEMMA OfferedPriority ==
  ASSUME RequestIs(request), IsOfferedTo(request), request.offer.error = "none"
  PROVE  request.offer.priority \in MinPriority..MaxPriority
<1>1. request.wish \in MinPriority..MaxPriority
  BY DEF IsOfferedTo
<1>2. HasReference
  BY CrynuxOfferIsReference, ProviderOfferIsReference
<1>3. PICK top \in (MinPriority - 1)..MaxPriority : Reference(MinPriority..top) = {request.offer.priority}
  BY <1>2 DEF HasReference
<1> DEFINE range == MinPriority..top
<1>4. range \subseteq MinPriority..MaxPriority
  BY ConstantsTyped
<1>5. request.offer.priority \in Reference(range)
  BY <1>3
<1> HIDE DEF range
<1>6. ProviderReference(range) \subseteq MinPriority..MaxPriority
  BY <1>1, <1>4 DEF ProviderReference
<1>7. CrynuxReference(range) \subseteq MinPriority..MaxPriority
  BY <1>1, <1>4 DEF CrynuxReference
<1> QED
  BY <1>5, <1>6, <1>7 DEF Reference

\* The invariant implies that a charge is within its hold.
LEMMA ChargesAreCovered == RequestsInv => HoldCoversCharge
<1> SUFFICES ASSUME RequestKept, request # NoRequest, request.charge # -1
             PROVE  IF IsProvider(request.ask)
                    THEN IsWithinEstimate(request.usage.report) => request.charge <= request.hold
                    ELSE LET estimate == CrynuxAmount(request, request.offer.priority)
                             fraction == IF estimate >= MaxTaskFee["crynux"] * FeeScale THEN FeeScale - 1 ELSE 0
                         IN request.charge <= Credits(estimate + fraction)
  BY DEF RequestsInv, HoldCoversCharge
<1> DEFINE p == request.offer.priority
           ask == request.ask
<1>1. RequestIs(request) /\ IsCharged(request) /\ IsAdmitted(request) /\ IsOfferedTo(request) /\ request.offer.error = "none"
  BY DEF RequestKept, RequestIs, IsCharged, IsAdmitted
<1>2. p \in Nat
  BY <1>1, OfferedPriority, ConstantsTyped
<1>3. /\ Measured(ask) /\ ask.prompt \in Nat /\ ask.completion \in Nat /\ request.vram \in Int
      /\ request.hold = Credits(AmountOf(request, p))
  BY <1>1 DEF RequestIs, Measured, IsAdmitted
<1>4. ASSUME IsProvider(ask), IsWithinEstimate(request.usage.report) PROVE request.charge <= request.hold
  <2> DEFINE route == RouteOf(ask.model)
             usage == request.usage.report
             units == CalculateProviderUnits(usage, route.weights)
             estimate == EstimateProviderUnits(route.weights, ask.prompt, ask.completion)
             most == MaxTaskFee[route.provider]
  <2>1. route \in Routes
    BY <1>4, ProviderRoute
  <2>2. usage.parts \in [Components -> Nat]
    BY <1>1, <1>4 DEF RequestIs, Counted, IsCharged
  <2>3. request.charge = Credits(ProviderBillable(p, units, most))
    BY <1>1, <1>4 DEF IsCharged, ProviderCharge
  <2>4. request.hold = Credits(ProviderBillable(p, estimate, most))
    BY <1>3, <1>4 DEF AmountOf, ProviderAmount
  <2>5. estimate \in Nat /\ most \in Nat
    BY <1>3, <2>1, EstimateTyped, RoutesTyped
  <2>6. units \in Nat /\ units <= estimate
    <3>1. LET n == usage.parts
              detail == n["cached_input_tokens"] + n["cache_write_input_tokens"] + n["tool_use_prompt_tokens"]
              input == n["input_tokens"] + n["image_input_tokens"]
              output == n["output_tokens"] + n["image_output_tokens"]
          IN /\ (input <= ask.prompt /\ detail <= n["input_tokens"]) \/ input + detail <= ask.prompt
             /\ IF usage.reasoningIncluded THEN output <= ask.completion /\ n["reasoning_tokens"] <= n["output_tokens"]
                ELSE output + n["reasoning_tokens"] <= ask.completion
      BY <1>4 DEF IsWithinEstimate
    <3> HIDE DEF route, usage, ask
    <3> QED
      BY <1>3, <2>1, <2>2, <3>1, UnitsWithinEstimate
  <2> HIDE DEF units, estimate, most
  <2> QED
    BY <1>2, <2>3, <2>4, <2>5, <2>6, FewerUnitsAreChargedLess
<1>5. ASSUME ~IsProvider(ask)
      PROVE  LET estimate == CrynuxAmount(request, p)
                 fraction == IF estimate >= MaxTaskFee["crynux"] * FeeScale THEN FeeScale - 1 ELSE 0
             IN request.charge <= Credits(estimate + fraction)
  <2> DEFINE estimate == CrynuxAmount(request, p)
             fraction == IF estimate >= MaxTaskFee["crynux"] * FeeScale THEN FeeScale - 1 ELSE 0
  <2>1. request.time \in ExecutionTimes
    BY <1>1, <1>5 DEF IsOfferedTo
  <2>2. request.hold = Credits(estimate)
    BY <1>3, <1>5 DEF AmountOf
  <2>3. PICK seconds \in Nat : estimate = CrynuxBillable(p, seconds, request.vram)
    BY <1>3, <2>1, CrynuxPriceTyped
  <2>4. estimate \in Nat
    BY <1>2, <1>3, <2>3, CrynuxBillableIs
  <2>5. fraction \in Nat
    BY ConstantsTyped
  <2>6. CASE IsImage(ask)
    <3>1. request.charge = Credits(estimate)
      BY <1>1, <1>5, <2>2, <2>6 DEF IsCharged
    <3> HIDE DEF estimate, fraction
    <3>2. estimate + fraction \in Nat /\ estimate <= estimate + fraction
      BY <2>4, <2>5
    <3>3. Credits(estimate) <= Credits(estimate + fraction)
      BY <2>4, <3>2, CreditsGrow
    <3> QED
      BY <3>1, <3>3 DEF estimate, fraction
  <2>7. CASE ~IsImage(ask)
    <3>1. PICK prompt \in 0..ask.prompt, completion \in 0..ask.completion : IsChargedFor(request, prompt, completion)
      BY <1>1, <1>5, <2>7 DEF IsCharged
    <3> DEFINE s == NodeSeconds(request.time, prompt, completion)
               t == NodeSeconds(request.time, ask.prompt, ask.completion)
    <3>2. estimate = CrynuxBillable(p, t, request.vram) /\ request.charge = Credits(CrynuxBillable(p, s, request.vram))
      BY <1>3, <2>1, <2>7, <3>1, CrynuxPriceTyped DEF IsChargedFor
    <3>3. s \in Nat /\ t \in Nat
      <4>1. prompt \in Nat /\ completion \in Nat
        BY <1>3
      <4> QED
        BY <1>3, <2>1, <4>1, CrynuxPriceTyped
    <3>4. s <= t
      <4>1. request.time.constant \in Nat /\ request.time.input \in Nat /\ request.time.output \in Nat
        BY <2>1 DEF ExecutionTimes
      <4>2. /\ prompt \in Nat /\ completion \in Nat /\ prompt <= ask.prompt /\ completion <= ask.completion
            /\ ask.prompt \in Nat /\ ask.completion \in Nat
        BY <1>3
      <4>3. /\ request.time.input * prompt <= request.time.input * ask.prompt
            /\ request.time.output * completion <= request.time.output * ask.completion
        BY <4>1, <4>2, Products
      <4>4. /\ request.time.input * prompt \in Nat /\ request.time.input * ask.prompt \in Nat
            /\ request.time.output * completion \in Nat /\ request.time.output * ask.completion \in Nat
        BY <4>1, <4>2, Products
      <4> QED
        BY <4>1, <4>3, <4>4 DEF NodeSeconds
    <3> HIDE DEF s, t, p
    <3>5. LET whole == CrynuxBillable(p, t, request.vram)
              more == IF whole >= MaxTaskFee["crynux"] * FeeScale THEN FeeScale - 1 ELSE 0
          IN Credits(CrynuxBillable(p, s, request.vram)) <= Credits(whole + more)
      BY <1>2, <1>3, <3>3, <3>4, LessIsChargedLess
    <3> QED
      BY <3>2, <3>5
  <2> QED
    BY <2>6, <2>7
<1> QED
  BY <1>4, <1>5

\* PriorityIsReference in every reachable state: the priority a request is created with, or its
\* refusal, is what the declarative reference says (task_fee.go:262, provider_billing.go), for
\* every configuration, row, queue and request, although the caches are refreshed and the
\* project is edited between the steps of the request. The reference is about the Credits that
\* will be held; those of an accepted request exceed the project's maximum by the Credits of one
\* Gwei at most, and no priority whose Credits are within the maximum counts as beyond it.
THEOREM OffersCorrect == Spec => []PriorityIsReference
BY RequestsCorrect, PriorityIs, PTL

\* HoldCoversCharge in every reachable state: a request is charged no more than was held for it
\* while its usage stays within its estimate; on Crynux a fraction of a Gwei may be added at
\* the maximum fee (provider_billing.go:195, task_fee.go).
THEOREM ChargesCorrect == Spec => []HoldCoversCharge
BY RequestsCorrect, ChargesAreCovered, PTL

-----------------------------------------------------------------------------
(* The public catalog. *)

\* A refresh that has the mutex has seen versions of the keys between those the catalog shows and
\* those there are now; it has seen all of them when its queries are over.
SeesBetween(t) ==
  /\ DOMAIN tick[t].seen \subseteq CatalogProviders
  /\ tick[t].at # "query" => DOMAIN tick[t].seen = CatalogProviders
  /\ \A p \in DOMAIN tick[t].seen :
       /\ tick[t].seen[p] \in Nat
       /\ catalog.seen[p] <= tick[t].seen[p] /\ tick[t].seen[p] <= keyChanges[p]

\* What keeps the catalog from going back: one refresh at a time, and what each one sees.
CatalogInv ==
  /\ DOMAIN catalog.seen = CatalogProviders /\ DOMAIN keyChanges = CatalogProviders
  /\ \A p \in CatalogProviders :
       catalog.seen[p] \in Nat /\ keyChanges[p] \in Nat /\ catalog.seen[p] <= keyChanges[p]
  /\ \A s, t \in Tickers : tick[s].at \in InRefresh /\ tick[t].at \in InRefresh => s = t
  /\ \A t \in Tickers : tick[t].at \in InRefresh => SeesBetween(t)

\* At the start no refresh has the mutex and no key was changed.
LEMMA CatalogInvInit == Init => CatalogInv
<1> SUFFICES ASSUME CacheInit PROVE CatalogInv
  BY DEF Init
<1>1. \A t \in Tickers : tick[t].at \notin InRefresh
  BY DEF CacheInit, NoTick, InRefresh
<1>2. /\ DOMAIN catalog.seen = CatalogProviders /\ DOMAIN keyChanges = CatalogProviders
      /\ \A p \in CatalogProviders : catalog.seen[p] = 0 /\ keyChanges[p] = 0
  BY DEF CacheInit
<1> QED
  BY <1>1, <1>2 DEF CatalogInv

\* A step of one ticker, which touches neither the catalog nor the keys, keeps CatalogInv when the
\* ticker stays outside of the mutex, or has it alone and what it has seen is as SeesBetween says.
LEMMA TickerMoves ==
  ASSUME CatalogInv, DOMAIN tick = Tickers, NEW t \in Tickers, NEW tk,
         tick' = [tick EXCEPT ![t] = tk], UNCHANGED <<catalog, keyChanges>>,
         \/ tk.at \notin InRefresh
         \/ SeesBetween(t)' /\ \A s \in Tickers : tick[s].at \in InRefresh => s = t
  PROVE  CatalogInv'
<1>1. tick'[t] = tk /\ \A s \in Tickers : s # t => tick'[s] = tick[s]
  OBVIOUS
<1>2. ASSUME NEW s \in Tickers, s # t, tick[s].at \in InRefresh PROVE SeesBetween(s)'
  BY <1>1, <1>2 DEF CatalogInv, SeesBetween
<1>3. ASSUME NEW s \in Tickers, tick'[s].at \in InRefresh PROVE SeesBetween(s)'
  BY <1>1, <1>2, <1>3
<1>4. ASSUME NEW r \in Tickers, NEW s \in Tickers, tick'[r].at \in InRefresh, tick'[s].at \in InRefresh
      PROVE  r = s
  BY <1>1, <1>4 DEF CatalogInv
<1>5. InRefresh' = InRefresh
  BY DEF InRefresh
<1> QED
  BY <1>3, <1>4, <1>5 DEF CatalogInv

\* The actions on the catalog and the keys: CatalogInv stays, and no version shown goes back.
LEMMA CatalogSteps ==
  ASSUME CatalogInv, CachesKept, CatalogNext
  PROVE  CatalogInv' /\ \A p \in CatalogProviders : catalog'.seen[p] >= catalog.seen[p]
<1>0. DOMAIN tick = Tickers /\ \A t \in Tickers : DOMAIN tick[t] = {"at", "listing", "seen", "chat", "image"}
  BY DEF CachesKept, Fetched, NoTick
<1>1. \A p \in CatalogProviders : catalog.seen[p] \in Nat /\ keyChanges[p] \in Nat /\ catalog.seen[p] <= keyChanges[p]
  BY DEF CatalogInv
<1>2. ASSUME UNCHANGED catalog PROVE \A p \in CatalogProviders : catalog'.seen[p] >= catalog.seen[p]
  BY <1>1, <1>2
<1>3. ASSUME NEW t \in Tickers, tick[t].at \in InRefresh
      PROVE  SeesBetween(t) /\ \A s \in Tickers : tick[s].at \in InRefresh => s = t
  BY <1>3 DEF CatalogInv
<1>4. CASE CatalogTick
  <2> DEFINE tk == [tick["catalog"] EXCEPT !.at = "lock"]
  <2>1. tick' = [tick EXCEPT !["catalog"] = tk] /\ UNCHANGED <<catalog, keyChanges>>
    BY <1>4 DEF CatalogTick, Step
  <2>2. "catalog" \in Tickers
    BY DEF Tickers
  <2>3. tk.at \notin InRefresh
    BY <1>0, <2>2 DEF InRefresh
  <2> HIDE DEF tk
  <2> QED
    BY <1>0, <1>2, <2>1, <2>2, <2>3, TickerMoves
<1>5. ASSUME NEW t \in Tickers, BeginCatalogRefresh(t) PROVE CatalogInv' /\ UNCHANGED catalog
  <2> DEFINE tk == [NoTick EXCEPT !.at = "query"]
  <2>1. tick' = [tick EXCEPT ![t] = tk] /\ UNCHANGED <<catalog, keyChanges>>
    BY <1>5 DEF BeginCatalogRefresh
  <2>2. \A s \in Tickers : tick[s].at \notin InRefresh
    BY <1>5 DEF BeginCatalogRefresh, RefreshMuIsFree
  <2>3. tk.at = "query" /\ DOMAIN tk.seen = {}
    BY DEF NoTick
  <2> HIDE DEF tk
  <2>4. tick'[t] = tk
    BY <1>0, <2>1
  <2>5. SeesBetween(t)'
    BY <2>3, <2>4 DEF SeesBetween
  <2> QED
    BY <1>0, <2>1, <2>2, <2>5, TickerMoves
<1>6. ASSUME NEW t \in Tickers, NEW p \in CatalogProviders, QueryEnabledKeys(t, p) PROVE CatalogInv' /\ UNCHANGED catalog
  <2> DEFINE seen == [q \in DOMAIN tick[t].seen \cup {p} |-> IF q = p THEN keyChanges[p] ELSE tick[t].seen[q]]
             tk == [tick[t] EXCEPT !.seen = seen]
  <2>1. tick' = [tick EXCEPT ![t] = tk] /\ UNCHANGED <<catalog, keyChanges>>
    BY <1>6 DEF QueryEnabledKeys
  <2>2. tick[t].at = "query"
    BY <1>6 DEF QueryEnabledKeys
  <2>3. tick[t].at \in InRefresh
    BY <2>2 DEF InRefresh
  <2>4. SeesBetween(t) /\ \A s \in Tickers : tick[s].at \in InRefresh => s = t
    BY <1>3, <2>3
  <2>5. DOMAIN seen = DOMAIN tick[t].seen \cup {p}
        /\ \A q \in DOMAIN seen : seen[q] = IF q = p THEN keyChanges[p] ELSE tick[t].seen[q]
    OBVIOUS
  <2> HIDE DEF seen
  <2>6. tk.at = "query" /\ tk.seen = seen
    BY <1>0, <2>2
  <2> HIDE DEF tk
  <2>7. tick'[t] = tk
    BY <1>0, <2>1
  <2>8. SeesBetween(t)'
    BY <1>1, <2>1, <2>4, <2>5, <2>6, <2>7 DEF SeesBetween
  <2> QED
    BY <1>0, <2>1, <2>4, <2>8, TickerMoves
<1>7. ASSUME NEW t \in Tickers, QueryFails(t) PROVE CatalogInv' /\ UNCHANGED catalog
  <2> DEFINE tk == [tick[t] EXCEPT !.seen = catalog.seen, !.at = "chat"]
  <2>1. tick' = [tick EXCEPT ![t] = tk] /\ UNCHANGED <<catalog, keyChanges>>
    BY <1>0, <1>7 DEF QueryFails
  <2>2. tick[t].at \in InRefresh
    BY <1>7 DEF QueryFails, InRefresh
  <2>3. tk.at = "chat" /\ tk.seen = catalog.seen
    BY <1>0
  <2> HIDE DEF tk
  <2>4. tick'[t] = tk
    BY <1>0, <2>1
  <2>5. SeesBetween(t)'
    BY <1>1, <2>1, <2>3, <2>4 DEF SeesBetween, CatalogInv
  <2> QED
    BY <1>0, <1>3, <2>1, <2>2, <2>5, TickerMoves
<1>8. ASSUME NEW t \in Tickers, NEW tk, tick' = [tick EXCEPT ![t] = tk], UNCHANGED <<catalog, keyChanges>>,
             tick[t].at \in InRefresh, tk.seen = tick[t].seen,
             tick[t].at # "query" \/ DOMAIN tick[t].seen = CatalogProviders
      PROVE  CatalogInv' /\ UNCHANGED catalog
  <2>1. SeesBetween(t) /\ \A s \in Tickers : tick[s].at \in InRefresh => s = t
    BY <1>3, <1>8
  <2>2. tick'[t] = tk
    BY <1>0, <1>8
  <2>3. SeesBetween(t)'
    BY <1>8, <2>1, <2>2 DEF SeesBetween
  <2> QED
    BY <1>0, <1>8, <2>1, <2>3, TickerMoves
<1>9. ASSUME NEW t \in Tickers, ListChat(t) PROVE CatalogInv' /\ UNCHANGED catalog
  <2> DEFINE tk == [tick[t] EXCEPT !.chat = Visible(llmModels), !.at = "image"]
  <2>1. tick' = [tick EXCEPT ![t] = tk] /\ UNCHANGED <<catalog, keyChanges>>
    BY <1>0, <1>9 DEF ListChat
  <2>2. tick[t].at \in InRefresh /\ (tick[t].at # "query" \/ DOMAIN tick[t].seen = CatalogProviders)
    BY <1>9 DEF ListChat, InRefresh
  <2>3. tk.seen = tick[t].seen
    BY <1>0
  <2> HIDE DEF tk
  <2> QED
    BY <1>8, <2>1, <2>2, <2>3
<1>10. ASSUME NEW t \in Tickers, ListImages(t) PROVE CatalogInv' /\ UNCHANGED catalog
  <2> DEFINE tk == [tick[t] EXCEPT !.image = Visible(sdModels), !.at = "write"]
  <2>1. tick' = [tick EXCEPT ![t] = tk] /\ UNCHANGED <<catalog, keyChanges>>
    BY <1>0, <1>10 DEF ListImages
  <2>2. tick[t].at \in InRefresh /\ tick[t].at # "query"
    BY <1>10 DEF ListImages, InRefresh
  <2>3. tk.seen = tick[t].seen
    BY <1>0
  <2> HIDE DEF tk
  <2> QED
    BY <1>8, <2>1, <2>2, <2>3
<1>11. ASSUME NEW t \in Tickers, WriteCatalog(t)
       PROVE  CatalogInv' /\ \A p \in CatalogProviders : catalog'.seen[p] >= catalog.seen[p]
  <2>1. tick' = [tick EXCEPT ![t] = NoTick] /\ UNCHANGED keyChanges /\ catalog'.seen = tick[t].seen /\ tick[t].at = "write"
    BY <1>11 DEF WriteCatalog
  <2>2. tick[t].at \in InRefresh
    BY <2>1 DEF InRefresh
  <2>3. SeesBetween(t) /\ \A s \in Tickers : tick[s].at \in InRefresh => s = t
    BY <1>3, <2>2
  <2>4. DOMAIN catalog'.seen = CatalogProviders
        /\ \A p \in CatalogProviders : catalog'.seen[p] \in Nat /\ catalog.seen[p] <= catalog'.seen[p]
                                       /\ catalog'.seen[p] <= keyChanges[p]
    BY <2>1, <2>3 DEF SeesBetween
  <2>5. \A s \in Tickers : tick'[s].at \notin InRefresh
    <3>1. NoTick.at \notin InRefresh
      BY DEF NoTick, InRefresh
    <3>2. tick'[t] = NoTick /\ \A s \in Tickers : s # t => tick'[s] = tick[s]
      BY <1>0, <2>1
    <3> QED
      BY <2>3, <3>1, <3>2
  <2>6. CatalogInv'
    <3>1. InRefresh' = InRefresh
      BY DEF InRefresh
    <3> QED
      BY <1>1, <2>1, <2>4, <2>5, <3>1 DEF CatalogInv
  <2> QED
    BY <1>1, <2>4, <2>6
<1>12. ASSUME NEW p \in CatalogProviders, ChangeKeys(p) PROVE CatalogInv' /\ UNCHANGED catalog
  <2>1. keyChanges' = [keyChanges EXCEPT ![p] = @ + 1] /\ UNCHANGED <<tick, catalog>>
    BY <1>12 DEF ChangeKeys, tickVars
  <2>2. DOMAIN keyChanges' = CatalogProviders
        /\ \A q \in CatalogProviders : keyChanges'[q] \in Nat /\ keyChanges[q] <= keyChanges'[q]
    BY <1>1, <2>1 DEF CatalogInv
  <2>3. ASSUME NEW t \in Tickers, SeesBetween(t) PROVE SeesBetween(t)'
    BY <1>1, <2>1, <2>2, <2>3 DEF SeesBetween
  <2>4. InRefresh' = InRefresh
    BY DEF InRefresh
  <2> QED
    BY <1>1, <2>1, <2>2, <2>3, <2>4 DEF CatalogInv
<1> QED
  BY <1>2, <1>4, <1>5, <1>6, <1>7, <1>9, <1>10, <1>11, <1>12 DEF CatalogNext

\* RefreshLoadedModels works outside of the mutex.
LEMMA LoadsLeaveCatalog ==
  ASSUME CatalogInv, CachesKept, LoadNext
  PROVE  CatalogInv' /\ UNCHANGED catalog
<1>0. DOMAIN tick = Tickers /\ \A t \in Tickers : DOMAIN tick[t] = {"at", "listing", "seen", "chat", "image"}
  BY DEF CachesKept, Fetched, NoTick
<1>1. "loaded" \in Tickers
  BY DEF Tickers
<1>2. ASSUME NEW at, at \in {"fetched", "half", "lock"}, NEW tk, tk.at = at,
             tick' = [tick EXCEPT !["loaded"] = tk], UNCHANGED <<catalog, keyChanges>>
      PROVE  CatalogInv'
  <2>1. tk.at \notin InRefresh
    BY <1>2 DEF InRefresh
  <2> QED
    BY <1>0, <1>1, <1>2, <2>1, TickerMoves
<1>3. CASE FetchLoadedModels
  <2>1. PICK listing : tick' = [tick EXCEPT !["loaded"] = [NoTick EXCEPT !.at = "fetched", !.listing = listing]]
    BY <1>3 DEF FetchLoadedModels
  <2> DEFINE tk == [NoTick EXCEPT !.at = "fetched", !.listing = listing]
  <2>2. tk.at = "fetched"
    BY DEF NoTick
  <2>3. UNCHANGED <<catalog, keyChanges>>
    BY <1>3 DEF FetchLoadedModels
  <2> HIDE DEF tk
  <2> QED
    BY <1>2, <2>1, <2>2, <2>3 DEF tk
<1>4. ASSUME NEW at, at \in {"half", "lock"}, Step("loaded", at), UNCHANGED <<catalog, keyChanges>>
      PROVE  CatalogInv'
  <2> DEFINE tk == [tick["loaded"] EXCEPT !.at = at]
  <2>1. tk.at = at
    BY <1>0, <1>1
  <2>2. tick' = [tick EXCEPT !["loaded"] = tk]
    BY <1>4 DEF Step
  <2> HIDE DEF tk
  <2> QED
    BY <1>2, <1>4, <2>1, <2>2
<1>5. CASE ReplaceLLMModels
  BY <1>4, <1>5 DEF ReplaceLLMModels
<1>6. CASE ReplaceSDModels
  BY <1>4, <1>6 DEF ReplaceSDModels
<1> QED
  BY <1>3, <1>5, <1>6 DEF LoadNext, FetchLoadedModels, ReplaceLLMModels, ReplaceSDModels

\* The steps elsewhere read and write neither the tickers nor the catalog.
LEMMA CatalogUntouched ==
  ASSUME CatalogInv, UNCHANGED <<tick, catalog, keyChanges>>
  PROVE  CatalogInv'
BY DEF CatalogInv, SeesBetween, InRefresh

\* No handler of a request writes the tickers, the catalog or the keys.
LEMMA RequestsLeaveCatalog ==
  ASSUME RequestNext
  PROVE  UNCHANGED <<tick, catalog, keyChanges>>
BY DEF RequestNext, Receive, ResolveExecution, ResolveVram, ValidateModel, ResolveWish, PriceFromCache, PriceFromRelay,
       PriceFails, PriceProvider, CreateCrynuxJob, CreateProviderJob, CreateIsRefused, SettleCrynux, AnswerText,
       ExecuteProvider, StreamIsConfirmed, SettleProvider, JobFails, cacheVars, tickVars

\* Every step keeps CatalogInv, and no version the catalog shows goes back.
LEMMA CatalogInvStep ==
  ASSUME CatalogInv, RequestsInv, [Next]_vars
  PROVE  CatalogInv' /\ [\A p \in CatalogProviders : catalog'.seen[p] >= catalog.seen[p]]_catalog
<1>0. CachesKept
  BY DEF RequestsInv
<1>1. CASE CatalogNext
  BY <1>0, <1>1, CatalogSteps
<1>2. CASE LoadNext
  BY <1>0, <1>2, LoadsLeaveCatalog
<1>3. CASE UNCHANGED <<tick, catalog, keyChanges>>
  BY <1>3, CatalogUntouched
<1>4. ASSUME RequestNext PROVE UNCHANGED <<tick, catalog, keyChanges>>
  BY <1>4, RequestsLeaveCatalog
<1>5. ASSUME TimePasses \/ HintNext \/ UNCHANGED cacheVars PROVE UNCHANGED <<tick, catalog, keyChanges>>
  BY <1>5 DEF TimePasses, HintNext, RefreshQueuedPriority, RefreshProviderQueue, cacheVars, tickVars
<1>6. ASSUME RetrySettlement \/ UNCHANGED vars PROVE UNCHANGED cacheVars
  BY <1>6 DEF RetrySettlement, vars
<1> QED
  BY <1>1, <1>2, <1>3, <1>4, <1>5, <1>6 DEF Next

\* CatalogNeverRegresses of every behaviour: a refresh never replaces Provider rows by rows of an
\* earlier query (models_catalog_cache.go, RefreshModelsCatalog), for every set of routes, however
\* the tickers of the loaded models and of the catalog, failing queries and changes of keys interleave.
THEOREM CatalogCorrect == Spec => CatalogNeverRegresses
<1>1. Init => RequestsInv /\ CatalogInv
  BY RequestsInvInit, CatalogInvInit
<1>2. RequestsInv /\ CatalogInv /\ [Next]_vars => RequestsInv' /\ CatalogInv'
  BY RequestsInvStep, CatalogInvStep
<1>3. RequestsInv /\ CatalogInv /\ [Next]_vars
        => [\A p \in CatalogProviders : catalog'.seen[p] >= catalog.seen[p]]_catalog
  BY CatalogInvStep
<1> QED
  BY <1>1, <1>2, <1>3, PTL DEF Spec, CatalogNeverRegresses
===============================================================================
