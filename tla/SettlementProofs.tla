-------------------------- MODULE SettlementProofs --------------------------
(***************************************************************************)
(* Theorems about Settlement, for every set of heights, members, transfers *)
(* and concurrent callers, every credit and every policy.                  *)
(***************************************************************************)
EXTENDS Settlement, Sums

-----------------------------------------------------------------------------
(***************************************************************************)
(* Ranks.  A gives for each element of a finite set the ones ahead of it.  *)
(***************************************************************************)

IsOrder(A, S) ==
    /\ A \in [S -> SUBSET S]
    /\ \A m \in S : m \notin A[m]
    /\ \A m, n \in S : m # n => m \in A[n] \/ n \in A[m]
    /\ \A m, n \in S : m \in A[n] => A[m] \subseteq A[n]

\* A part of an ordered set has a last element.
LEMMA LastOne ==
    ASSUME NEW S, IsFiniteSet(S), NEW A, IsOrder(A, S), NEW U \in SUBSET S, U # {}
    PROVE  \E z \in U : \A m \in U : z \notin A[m]
<1> DEFINE Last(s) == \E z \in s : \A m \in s : z \notin A[m]
<1> DEFINE Bad == {s \in SUBSET S : s # {} /\ ~Last(s)}
<1> SUFFICES ASSUME Bad # {} PROVE FALSE
  OBVIOUS
<1>1. Bad \in SUBSET (SUBSET S)
  OBVIOUS
<1> HIDE DEF Bad
<1>2. PICK T \in Bad : \A W \in SUBSET T : W \in Bad => W = T
  BY <1>1, SmallestSubset
<1>3. T \in SUBSET S /\ T # {} /\ ~Last(T)
  BY <1>2 DEF Bad
<1>4. PICK e \in T : TRUE
  BY <1>3
<1> DEFINE W == T \ {e}
<1>5. W \in SUBSET T /\ W # T
  OBVIOUS
<1>6. CASE W = {}
  <2>1. \A m \in T : m = e
    BY <1>6
  <2> QED
    BY <1>3, <1>4, <2>1 DEF IsOrder
<1>7. CASE W # {}
  <2>1. W \in SUBSET S /\ W \notin Bad
    BY <1>2, <1>3, <1>5
  <2>2. PICK z \in W : \A m \in W : z \notin A[m]
    BY <1>7, <2>1, Zenon DEF Bad
  <2>3. CASE z \in A[e]
    <3>1. ASSUME NEW m \in T PROVE e \notin A[m]
      <4>1. CASE m = e
        BY <1>3, <1>4, <4>1 DEF IsOrder
      <4>2. CASE m # e
        <5>1. m \in W /\ m \in S /\ e \in S
          BY <1>3, <4>2
        <5> QED
          BY <2>2, <2>3, <5>1 DEF IsOrder
      <4> QED
        BY <4>1, <4>2
    <3> QED
      BY <1>3, <3>1
  <2>4. CASE z \notin A[e]
    <3>1. \A m \in T : z \notin A[m]
      BY <2>2, <2>4
    <3> QED
      BY <1>3, <2>2, <3>1
  <2> QED
    BY <2>3, <2>4
<1> QED
  BY <1>6, <1>7

\* k elements have fewer than k ahead of them.
LEMMA RankCount ==
    ASSUME NEW S, IsFiniteSet(S), NEW A, IsOrder(A, S), NEW k \in 0..Cardinality(S)
    PROVE  Cardinality({m \in S : Cardinality(A[m]) < k}) = k
<1> DEFINE First(s, n) == {m \in s : Cardinality(A[m] \intersect s) < n}
<1> DEFINE Good(s) == \A n \in 0..Cardinality(s) : Cardinality(First(s, n)) = n
<1> DEFINE Bad == {s \in SUBSET S : ~Good(s)}
<1> SUFFICES ASSUME Bad # {} PROVE FALSE
  <2>1. Good(S)
    OBVIOUS
  <2>2. First(S, k) = {m \in S : Cardinality(A[m]) < k}
    <3>1. \A m \in S : A[m] \intersect S = A[m]
      BY DEF IsOrder
    <3> QED
      BY <3>1
  <2> HIDE DEF First
  <2> QED
    BY <2>1, <2>2
<1>1. Bad \in SUBSET (SUBSET S)
  OBVIOUS
<1> HIDE DEF Bad
<1>2. PICK T \in Bad : \A W \in SUBSET T : W \in Bad => W = T
  BY <1>1, SmallestSubset
<1>3. T \in SUBSET S /\ ~Good(T) /\ IsFiniteSet(T)
  BY <1>2, FS_Subset DEF Bad
<1>4. T # {}
  <2>1. Good({})
    <3>1. \A n : First({}, n) = {}
      OBVIOUS
    <3>2. Cardinality({}) = 0
      BY FS_EmptySet
    <3> HIDE DEF First
    <3> QED
      BY <3>1, <3>2
  <2> QED
    BY <1>3, <2>1
<1>5. PICK z \in T : \A m \in T : z \notin A[m]
  BY <1>3, <1>4, LastOne
<1> DEFINE W == T \ {z}
<1>6. W \in SUBSET T /\ W # T /\ IsFiniteSet(W)
  BY <1>3, FS_Subset
<1>7. Good(W)
  <2>1. W \in SUBSET S /\ W \notin Bad
    BY <1>2, <1>3, <1>6
  <2> HIDE DEF Good
  <2> QED
    BY <2>1, Zenon DEF Bad
<1>8. Cardinality(W) \in Nat /\ Cardinality(T) = Cardinality(W) + 1
  BY <1>3, <1>5, <1>6, FS_RemoveElement, FS_CardinalityType
<1>9. A[z] \intersect T = W
  BY <1>3, <1>5 DEF IsOrder
<1>10. \A m \in W : A[m] \intersect T = A[m] \intersect W
  BY <1>5
<1>11. ASSUME NEW n \in 0..Cardinality(T) PROVE Cardinality(First(T, n)) = n
  <2>1. CASE n \in 0..Cardinality(W)
    <3>1. First(T, n) = First(W, n)
      <4>1. ~(Cardinality(A[z] \intersect T) < n)
        BY <1>8, <1>9, <2>1
      <4> QED
        BY <1>10, <4>1
    <3> HIDE DEF First
    <3> QED
      BY <1>7, <2>1, <3>1
  <2>2. CASE n = Cardinality(T)
    <3>1. ASSUME NEW m \in T PROVE Cardinality(A[m] \intersect T) < n
      <4>1. A[m] \intersect T \subseteq W
        BY <1>3, <1>5, <1>9
      <4>2. Cardinality(A[m] \intersect T) <= Cardinality(W) /\ Cardinality(A[m] \intersect T) \in Nat
        BY <1>6, <4>1, FS_Subset, FS_CardinalityType
      <4> QED
        BY <1>8, <2>2, <4>2
    <3>2. First(T, n) = T
      BY <3>1
    <3> HIDE DEF First
    <3> QED
      BY <2>2, <3>2
  <2> QED
    BY <1>8, <2>1, <2>2
<1> QED
  BY <1>3, <1>11

-----------------------------------------------------------------------------
(***************************************************************************)
(* The allocation of a pot.                                                *)
(***************************************************************************)

\* Larger remainders first, and then the member ids, is an order.
LEMMA AheadIsOrder ==
    ASSUME NEW left \in [Members -> Nat]
    PROVE  IsOrder(Ahead(left), Members)
<1> DEFINE A == Ahead(left)
<1>1. \A m, n \in Members :
         m \in A[n] <=> m # n /\ (left[m] > left[n] \/ (left[m] = left[n] /\ Before(m, n)))
  BY DEF Ahead
<1>2. A \in [Members -> SUBSET Members]
  BY DEF Ahead
<1>3. \A m \in Members : left[m] \in Nat
  OBVIOUS
<1> HIDE DEF A
<1>4. \A m \in Members : m \notin A[m]
  BY <1>1
<1>5. \A m, n \in Members : m # n => m \in A[n] \/ n \in A[m]
  BY <1>1, <1>3, OrderAssumption
<1>6. ASSUME NEW m \in Members, NEW n \in Members, m \in A[n], NEW k \in A[m] PROVE k \in A[n]
  <2>1. k \in Members
    BY <1>2, <1>6
  <2>2. /\ m # n /\ (left[m] > left[n] \/ (left[m] = left[n] /\ Before(m, n)))
        /\ k # m /\ (left[k] > left[m] \/ (left[k] = left[m] /\ Before(k, m)))
    BY <1>1, <1>6, <2>1
  <2>3. left[k] > left[n] \/ (left[k] = left[n] /\ Before(k, n))
    BY <1>3, <2>1, <2>2, OrderAssumption
  <2>4. k # n
    <3> SUFFICES ASSUME k = n PROVE FALSE
      OBVIOUS
    <3>1. ~(left[k] > left[n])
      BY <1>3
    <3> QED
      BY <2>3, <3>1, OrderAssumption
  <2> QED
    BY <1>1, <2>1, <2>3, <2>4
<1>7. \A m, n \in Members : m \in A[n] => A[m] \subseteq A[n]
  BY <1>6
<1>8. IsOrder(A, Members)
  BY <1>2, <1>4, <1>5, <1>7 DEF IsOrder
<1> QED
  BY <1>8 DEF A

\* The shares rounded down, and what is left of each.
Rounded(rest, credits)   == [m \in Members |-> (rest * credits[m]) \div Sum(credits, Members)]
Remainder(rest, credits) == [m \in Members |-> (rest * credits[m]) % Sum(credits, Members)]

\* What is left over after rounding down is one unit for some of the members
\* whose share is not whole.
LEMMA LeftOver ==
    ASSUME NEW rest \in Nat, NEW credits \in [Members -> Nat], Sum(credits, Members) > 0,
           NEW down, down = Rounded(rest, credits),
           NEW left, left = Remainder(rest, credits)
    PROVE  /\ down \in [Members -> Nat]
           /\ left \in [Members -> 0..(Sum(credits, Members) - 1)]
           /\ \A m \in Members : rest * credits[m] = Sum(credits, Members) * down[m] + left[m]
           /\ Sum(down, Members) \in Nat
           /\ rest - Sum(down, Members) \in 0..Cardinality({m \in Members : left[m] > 0})
<1> DEFINE total == Sum(credits, Members)
<1> DEFINE product == [m \in Members |-> rest * credits[m]]
<1> DEFINE whole == [m \in Members |-> total * down[m]]
<1> DEFINE Part == {m \in Members : left[m] > 0}
<1> DEFINE over == rest - Sum(down, Members)
<1>1. IsFiniteSet(Members)
  BY CreditAssumption
<1>2. total \in Nat \ {0}
  BY <1>1, SumNat DEF Sum
<1>3. \A m \in Members : product[m] \in Nat /\ credits[m] \in Nat
  OBVIOUS
<1>4. \A m \in Members : /\ down[m] = product[m] \div total
                         /\ left[m] = product[m] % total
  BY DEF Rounded, Remainder
<1> HIDE DEF total, product
<1>5. ASSUME NEW m \in Members
      PROVE  /\ down[m] \in Nat
             /\ left[m] \in 0..(total - 1)
             /\ product[m] = total * down[m] + left[m]
  <2>1. product[m] \in Nat /\ down[m] = product[m] \div total /\ left[m] = product[m] % total
    BY <1>3, <1>4
  <2>2. ASSUME NEW a \in Nat, NEW d, NEW r, d = a \div total, r = a % total
        PROVE  d \in Nat /\ r \in 0..(total - 1) /\ a = total * d + r
    BY <1>2, <2>2, Division
  <2> HIDE DEF product
  <2> QED
    BY <2>1, <2>2
<1>6. down \in [Members -> Nat] /\ left \in [Members -> 0..(total - 1)]
  <2>1. down = [m \in Members |-> down[m]] /\ left = [m \in Members |-> left[m]]
    BY DEF Rounded, Remainder
  <2> QED
    BY <1>5, <2>1
<1>7. Sum(product, Members) = rest * total
  BY <1>1, <1>3, SumTimes DEF product, total, Sum
<1>8. Sum(down, Members) \in Nat /\ Sum(left, Members) \in Nat
  <2>1. \A m \in Members : down[m] \in Nat /\ left[m] \in Nat
    BY <1>2, <1>5
  <2> QED
    BY <1>1, <2>1, SumNat DEF Sum
<1>9. Sum(whole, Members) = total * Sum(down, Members)
  BY <1>1, <1>2, <1>5, SumTimes DEF Sum
<1>10. Sum(product, Members) = Sum(whole, Members) + Sum(left, Members)
  <2>1. \A m \in Members : /\ whole[m] \in Int /\ left[m] \in Int
                           /\ product[m] = whole[m] + left[m]
    BY <1>2, <1>5
  <2> HIDE DEF whole
  <2> QED
    BY <1>1, <2>1, SumPlus DEF Sum
<1> HIDE DEF whole
<1>11. total * over = Sum(left, Members)
  <2>1. total * over = total * rest - total * Sum(down, Members)
    BY <1>2, <1>8
  <2>2. total * rest = rest * total
    BY <1>2
  <2>3. total * rest \in Nat /\ total * Sum(down, Members) \in Nat
    BY <1>2, <1>8
  <2> QED
    BY <1>7, <1>8, <1>9, <1>10, <2>1, <2>2, <2>3
<1>12. over \in Int
  BY <1>8
<1>13. Cardinality(Part) \in Nat /\ IsFiniteSet(Part)
  BY <1>1, FS_Subset, FS_CardinalityType
<1>14. Sum(left, Members) <= (total - 1) * Cardinality(Part)
  <2>1. \A m \in Members : left[m] \in Int /\ left[m] <= total - 1
    BY <1>2, <1>5
  <2>2. \A m \in Members \ Part : left[m] = 0
    BY <1>2, <1>5
  <2>3. Part \in SUBSET Members
    OBVIOUS
  <2> HIDE DEF Part
  <2>4. Sum(left, Members) = Sum(left, Part)
    BY <1>1, <2>1, <2>2, <2>3, SumSupport DEF Sum
  <2>5. Sum(left, Part) <= (total - 1) * Cardinality(Part)
    BY <1>2, <1>13, <2>1, <2>3, SumBound DEF Sum
  <2> QED
    BY <2>4, <2>5
<1> HIDE DEF over, Part
<1>15. over >= 0
  <2> SUFFICES ASSUME over < 0 PROVE FALSE
    BY <1>12
  <2>1. total * over <= total * (-1)
    BY <1>2, <1>12, Larger
  <2> QED
    BY <1>2, <1>8, <1>11, <2>1
<1>16. over <= Cardinality(Part)
  <2> SUFFICES ASSUME over >= Cardinality(Part) + 1 PROVE FALSE
    BY <1>12, <1>13
  <2>1. total * (Cardinality(Part) + 1) <= total * over
    BY <1>2, <1>12, <1>13, Larger
  <2>2. total * (Cardinality(Part) + 1) = total * Cardinality(Part) + total
    BY <1>2, <1>13
  <2>3. (total - 1) * Cardinality(Part) = total * Cardinality(Part) - Cardinality(Part)
    BY <1>2, <1>13
  <2>4. total * Cardinality(Part) \in Nat
    BY <1>2, <1>13
  <2> QED
    BY <1>2, <1>8, <1>11, <1>13, <1>14, <2>1, <2>2, <2>3, <2>4
<1>17. over \in 0..Cardinality(Part)
  BY <1>12, <1>13, <1>15, <1>16
<1> QED
  BY <1>3, <1>5, <1>6, <1>8, <1>17 DEF total, product, over, Part

\* The members who are first in the order, as many as units are left over, are
\* each given one; none of them has a whole share already.
LEMMA Handed ==
    ASSUME NEW left \in [Members -> Nat],
           NEW over \in 0..Cardinality({m \in Members : left[m] > 0}),
           NEW extra,
           extra = [m \in Members |-> IF Cardinality(Ahead(left)[m]) < over THEN 1 ELSE 0]
    PROVE  /\ Sum(extra, Members) = over
           /\ extra \in [Members -> {0, 1}]
           /\ \A m \in Members : left[m] = 0 => extra[m] = 0
           /\ \A m, n \in Members : left[m] > left[n] => extra[m] >= extra[n]
<1> DEFINE A == Ahead(left)
<1> DEFINE Part == {m \in Members : left[m] > 0}
<1> DEFINE Given == {m \in Members : Cardinality(A[m]) < over}
<1>1. IsFiniteSet(Members)
  BY CreditAssumption
<1>2. IsOrder(A, Members)
  BY AheadIsOrder
<1>3. \A m, n \in Members : left[m] > left[n] => m \in A[n]
  <2> SUFFICES ASSUME NEW m \in Members, NEW n \in Members, left[m] > left[n] PROVE m \in A[n]
    OBVIOUS
  <2>1. m # n
    <3> SUFFICES ASSUME m = n PROVE FALSE
      OBVIOUS
    <3>1. left[n] \in Nat
      OBVIOUS
    <3> QED
      BY <3>1
  <2> QED
    BY <2>1 DEF Ahead
<1>4. \A m \in Members : extra[m] = IF Cardinality(A[m]) < over THEN 1 ELSE 0
  OBVIOUS
<1>5. over \in Nat /\ over <= Cardinality(Part) /\ Part \in SUBSET Members
  <2>1. Cardinality(Part) \in Nat
    BY <1>1, FS_Subset, FS_CardinalityType
  <2> QED
    BY <2>1
<1>6. extra \in [Members -> {0, 1}]
  OBVIOUS
<1> HIDE DEF A, Part
<1>7. \A m \in Members : A[m] \in SUBSET Members /\ IsFiniteSet(A[m])
                         /\ Cardinality(A[m]) \in Nat
  BY <1>1, <1>2, FS_Subset, FS_CardinalityType DEF IsOrder
<1>8. Cardinality(Given) = over
  <2>1. Cardinality(Part) <= Cardinality(Members) /\ Cardinality(Members) \in Nat
    BY <1>1, <1>5, FS_Subset, FS_CardinalityType
  <2>2. over \in 0..Cardinality(Members)
    <3>1. Cardinality(Part) \in Nat
      BY <1>1, <1>5, FS_Subset, FS_CardinalityType
    <3> QED
      BY <1>5, <2>1, <3>1
  <2> QED
    BY <1>1, <1>2, <2>2, RankCount
<1>9. Sum(extra, Members) = over
  <2>1. Given \in SUBSET Members
    OBVIOUS
  <2>2. \A m \in Members : extra[m] = IF m \in Given THEN 1 ELSE 0
    BY <1>4
  <2> HIDE DEF Given
  <2> QED
    BY <1>1, <1>8, <2>1, <2>2, SumCount DEF Sum
<1>10. ASSUME NEW m \in Members, left[m] = 0 PROVE extra[m] = 0
  <2>1. Part \subseteq A[m]
    BY <1>3, <1>10 DEF Part
  <2>2. Cardinality(Part) <= Cardinality(A[m]) /\ Cardinality(Part) \in Nat
    BY <1>7, <2>1, FS_Subset, FS_CardinalityType
  <2>3. ~(Cardinality(A[m]) < over)
    BY <1>5, <1>7, <2>2
  <2> QED
    BY <1>4, <2>3
<1>11. ASSUME NEW m \in Members, NEW n \in Members, left[m] > left[n] PROVE extra[m] >= extra[n]
  <2>1. A[m] \subseteq A[n]
    BY <1>2, <1>3, <1>11 DEF IsOrder
  <2>2. Cardinality(A[m]) <= Cardinality(A[n])
    BY <1>7, <2>1, FS_Subset
  <2>3. Cardinality(A[n]) < over => Cardinality(A[m]) < over
    BY <1>5, <1>7, <2>2
  <2> QED
    BY <1>4, <2>3
<1> QED
  BY <1>6, <1>9, <1>10, <1>11

\* What the pot gives is fair.
Fair(amount, credits, shares) ==
    LET share == shares.members
        total == Sum(credits, Members)
        rest == amount - Fee(amount)
        off(m) == share[m] * total - rest * credits[m]
    IN /\ shares.operator + Sum(share, Members) = amount
       /\ total > 0 => \A m \in Members : off(m) < total /\ -off(m) < total
       /\ \A m, n \in Members : credits[m] > credits[n] => share[m] >= share[n]
       /\ total = 0 => shares.operator = amount

\* The operator's fee is part of the pot.
LEMMA FeeIsPart == ASSUME NEW amount \in Nat PROVE Fee(amount) \in 0..amount
<1>1. amount * 5 \in Nat /\ 100 \in Nat \ {0}
  OBVIOUS
<1>2. /\ Fee(amount) \in Nat /\ (amount * 5) % 100 \in 0..99
      /\ amount * 5 = 100 * Fee(amount) + ((amount * 5) % 100)
  BY <1>1, Division DEF Fee
<1> QED
  BY <1>2

\* For every pot and every credits.
LEMMA AllocationIsFair ==
    ASSUME NEW amount \in Nat, NEW credits \in [Members -> Nat]
    PROVE  /\ Allocation(amount, credits).operator \in Nat
           /\ Allocation(amount, credits).members \in [Members -> Nat]
           /\ Fair(amount, credits, Allocation(amount, credits))
<1> DEFINE total == Sum(credits, Members)
<1> DEFINE rest == amount - Fee(amount)
<1> DEFINE down == [m \in Members |-> (rest * credits[m]) \div total]
<1> DEFINE left == [m \in Members |-> (rest * credits[m]) % total]
<1> DEFINE over == rest - Sum(down, Members)
<1> DEFINE extra == [m \in Members |-> IF Cardinality(Ahead(left)[m]) < over THEN 1 ELSE 0]
<1> DEFINE shares == Allocation(amount, credits)
<1>1. total \in Nat /\ IsFiniteSet(Members)
  BY CreditAssumption, SumNat DEF Sum
<1>2. Fee(amount) \in Nat /\ rest \in Nat
  BY FeeIsPart
<1>3. \A m \in Members : credits[m] \in Nat
  OBVIOUS
<1>4. CASE total = 0
  <2> DEFINE none == [m \in Members |-> 0]
  <2>1. shares = [operator |-> amount, members |-> none]
    BY <1>4 DEF Allocation
  <2>2. Sum(none, Members) = 0
    BY <1>1, SumZero DEF Sum
  <2>3. shares.operator = amount /\ shares.members = none
    BY <2>1
  <2>4. \A m \in Members : none[m] = 0
    OBVIOUS
  <2>5. none \in [Members -> Nat]
    OBVIOUS
  <2> HIDE DEF shares, none
  <2>6. Fair(amount, credits, shares)
    BY <1>4, <2>2, <2>3, <2>4 DEF Fair
  <2> QED
    BY <2>3, <2>5, <2>6 DEF shares
<1>5. CASE total > 0
  <2> DEFINE share == [m \in Members |-> down[m] + extra[m]]
  <2>1. shares = [operator |-> Fee(amount), members |-> share]
    BY <1>5 DEF Allocation
  <2>2. shares.operator = Fee(amount) /\ shares.members = share
    BY <2>1
  <2>3. \A m \in Members : share[m] = down[m] + extra[m]
    OBVIOUS
  <2> HIDE DEF shares
  <2>4. /\ down \in [Members -> Nat]
        /\ left \in [Members -> 0..(total - 1)]
        /\ \A m \in Members : rest * credits[m] = total * down[m] + left[m]
        /\ Sum(down, Members) \in Nat
        /\ over \in 0..Cardinality({m \in Members : left[m] > 0})
    <3>1. down = Rounded(rest, credits) /\ left = Remainder(rest, credits)
      BY DEF Rounded, Remainder
    <3>2. total = Sum(credits, Members) /\ over = rest - Sum(down, Members)
      OBVIOUS
    <3> HIDE DEF total, rest, down, left, over
    <3>3. rest \in Nat /\ credits \in [Members -> Nat] /\ Sum(credits, Members) > 0
      BY <1>2, <1>5, <3>2
    <3>4. /\ down \in [Members -> Nat]
          /\ left \in [Members -> 0..(Sum(credits, Members) - 1)]
          /\ \A m \in Members : rest * credits[m] = Sum(credits, Members) * down[m] + left[m]
          /\ Sum(down, Members) \in Nat
          /\ rest - Sum(down, Members) \in 0..Cardinality({m \in Members : left[m] > 0})
      BY <3>1, <3>3, LeftOver
    <3> QED
      BY <3>2, <3>4, Zenon
  <2>5. left \in [Members -> Nat] /\ \A m \in Members : left[m] < total
    BY <1>1, <2>4
  <2>7. /\ Sum(extra, Members) = over
        /\ extra \in [Members -> {0, 1}]
        /\ \A m \in Members : left[m] = 0 => extra[m] = 0
        /\ \A m, n \in Members : left[m] > left[n] => extra[m] >= extra[n]
    <3>1. extra = [m \in Members |-> IF Cardinality(Ahead(left)[m]) < over THEN 1 ELSE 0]
      OBVIOUS
    <3> HIDE DEF down, left, over, extra
    <3>2. left \in [Members -> Nat] /\ over \in 0..Cardinality({m \in Members : left[m] > 0})
      BY <2>4, <2>5
    <3> QED
      BY <3>1, <3>2, Handed
  <2> HIDE DEF total, down, left, extra, share
  <2>8. \A m \in Members : /\ down[m] \in Nat /\ extra[m] \in {0, 1} /\ left[m] \in Nat
                           /\ left[m] < total /\ share[m] \in Nat
    BY <2>3, <2>4, <2>5, <2>7
  <2>9. Sum(share, Members) = rest
    <3>1. Sum(share, Members) = Sum(down, Members) + Sum(extra, Members)
      BY <1>1, <2>3, <2>8, SumPlus DEF Sum
    <3> HIDE DEF rest
    <3> QED
      BY <1>2, <2>4, <2>7, <3>1
  <2> HIDE DEF over, rest
  <2>10. ASSUME NEW m \in Members
         PROVE  /\ share[m] * total - rest * credits[m] < total
                /\ -(share[m] * total - rest * credits[m]) < total
    <3>1. share[m] * total = total * down[m] + total * extra[m]
      <4>1. share[m] = down[m] + extra[m]
        BY <2>3
      <4> QED
        BY <1>1, <2>8, <4>1
    <3>2. share[m] * total - rest * credits[m] = total * extra[m] - left[m]
      <4>1. total * down[m] \in Int /\ total * extra[m] \in Int
        BY <1>1, <2>8
      <4>2. rest * credits[m] = total * down[m] + left[m]
        BY <2>4
      <4> QED
        BY <2>8, <3>1, <4>1, <4>2
    <3>3. CASE extra[m] = 0
      <4>1. total * extra[m] = 0
        BY <1>1, <3>3
      <4> QED
        BY <1>1, <1>5, <2>8, <3>2, <4>1
    <3>4. CASE extra[m] = 1
      <4>1. total * extra[m] = total
        BY <1>1, <3>4
      <4>2. left[m] > 0
        BY <2>7, <2>8, <3>4
      <4> QED
        BY <1>1, <1>5, <2>8, <3>2, <4>1, <4>2
    <3> QED
      BY <2>8, <3>3, <3>4
  <2>11. ASSUME NEW m \in Members, NEW n \in Members, credits[m] > credits[n]
         PROVE  share[m] >= share[n]
    <3>1. rest * credits[m] >= rest * credits[n]
      BY <1>2, <1>3, <2>11, Larger
    <3>2. /\ rest * credits[m] = total * down[m] + left[m]
          /\ rest * credits[n] = total * down[n] + left[n]
      BY <2>4
    <3>3. total * down[m] \in Int /\ total * down[n] \in Int
      BY <1>1, <2>8
    <3>4. down[m] >= down[n]
      <4> SUFFICES ASSUME down[m] + 1 <= down[n] PROVE FALSE
        BY <2>8
      <4>1. total * (down[m] + 1) <= total * down[n]
        BY <1>1, <2>8, Larger
      <4>2. total * (down[m] + 1) = total * down[m] + total
        BY <1>1, <2>8
      <4> QED
        BY <1>1, <2>8, <3>1, <3>2, <3>3, <4>1, <4>2
    <3>5. CASE down[m] > down[n]
      <4>1. share[m] = down[m] + extra[m] /\ share[n] = down[n] + extra[n]
        BY <2>3
      <4> QED
        BY <2>8, <3>5, <4>1
    <3>6. CASE down[m] = down[n]
      <4>1. share[m] = down[m] + extra[m] /\ share[n] = down[n] + extra[n]
        BY <2>3
      <4>2. extra[m] >= extra[n]
        <5>1. CASE rest = 0
          <6>1. over = 0
            <7>1. over = rest - Sum(down, Members)
              BY DEF over
            <7>2. over >= 0
              BY <1>1, <2>4, FS_Subset, FS_CardinalityType
            <7> QED
              BY <2>4, <5>1, <7>1, <7>2
          <6>2. \A k \in Members : extra[k] = 0
            <7> SUFFICES ASSUME NEW k \in Members PROVE extra[k] = 0
              OBVIOUS
            <7>1. left[k] = 0
              <8>1. rest * credits[k] = 0
                BY <1>3, <5>1
              <8>2. total * down[k] \in Nat
                BY <1>1, <2>8
              <8> QED
                BY <2>4, <2>8, <8>1, <8>2
            <7> QED
              BY <2>7, <7>1
          <6> QED
            BY <6>2
        <5>2. CASE rest > 0
          <6>1. rest * (credits[n] + 1) <= rest * credits[m]
            BY <1>2, <1>3, <2>11, Larger
          <6>2. rest * (credits[n] + 1) = rest * credits[n] + rest
            BY <1>2, <1>3
          <6>3. total * down[m] = total * down[n]
            BY <3>6
          <6>4. left[m] > left[n]
            BY <1>2, <2>8, <3>2, <3>3, <5>2, <6>1, <6>2, <6>3
          <6> QED
            BY <2>7, <6>4
        <5> QED
          BY <1>2, <5>1, <5>2
      <4> QED
        BY <2>8, <3>6, <4>1, <4>2
    <3> QED
      BY <2>8, <3>4, <3>5, <3>6
  <2>12. shares.operator + Sum(share, Members) = amount
    BY <1>2, <2>2, <2>9 DEF rest
  <2>13. Fair(amount, credits, shares)
    BY <1>5, <2>2, <2>10, <2>11, <2>12 DEF Fair, total, rest
  <2>14. shares.members \in [Members -> Nat]
    <3>1. share = [m \in Members |-> share[m]]
      BY DEF share
    <3> QED
      BY <2>2, <2>8, <3>1
  <2> QED
    BY <1>2, <2>2, <2>13, <2>14 DEF shares
<1> QED
  BY <1>1, <1>4, <1>5

-----------------------------------------------------------------------------
(***************************************************************************)
(* The inductive invariant behind ReviewedIsComplete.  What a preview has  *)
(* shown as not missing is credited, and stays so; hence a call that was   *)
(* started with its digest reads the credit of all of that.                *)
(***************************************************************************)

\* The heights that the inputs do not show as missing are in S.
ShownIn(inputs, S) == Heights \ (inputs.missing \union Waived) \subseteq S

CallCovers(c) ==
    call[c].at \in {"started", "covered", "read"} /\ call[c].expected # Nothing =>
        /\ ShownIn(call[c].expected, credited)
        /\ call[c].at = "read" =>
              \E S \in SUBSET credited :
                 ShownIn(call[c].expected, S) /\ call[c].credits = CreditsOf(S)

BlocksInv ==
    /\ recorded \subseteq Heights
    /\ crediting \subseteq recorded
    /\ credited \subseteq recorded

CallsInv ==
    /\ call = [c \in Calls |-> call[c]]
    /\ reviewed # Nothing => ShownIn(reviewed, credited)
    /\ \A c \in Calls : CallCovers(c)

\* The inductive invariant of reviewed calls.
ReviewInv == BlocksInv /\ CallsInv /\ ReviewedIsComplete

\* No call has begun at the start.
LEMMA ReviewInit == Init => ReviewInv
BY DEF Init, ReviewInv, BlocksInv, CallsInv, CallCovers, ReviewedIsComplete, Idle

\* Only heights with a block are credited.
LEMMA BlocksStep == BlocksInv /\ [Next]_vars => BlocksInv'
<1> SUFFICES ASSUME BlocksInv, [Next]_vars PROVE BlocksInv'
  OBVIOUS
<1> USE DEF BlocksInv
<1>1. ASSUME NEW h \in Heights, Record(h) PROVE BlocksInv'
  BY <1>1 DEF Record
<1>2. ASSUME NEW h \in Heights, Conflict(h) \/ Resolve(h) PROVE BlocksInv'
  BY <1>2 DEF Conflict, Resolve
<1>3. ASSUME NEW h \in Heights, ReadBlock(h) PROVE BlocksInv'
  BY <1>3 DEF ReadBlock
<1>4. ASSUME NEW h \in Heights, StoreCredit(h) PROVE BlocksInv'
  BY <1>4 DEF StoreCredit
<1>5. CASE End \/ SetGapPolicy
  BY <1>5 DEF End, SetGapPolicy
<1>6. CASE UNCHANGED blockVars
  BY <1>6 DEF blockVars
<1>7. CASE RecordReport \/ Seal \/ Fund \/ Settle
  BY <1>6, <1>7 DEF RecordReport, Seal, Fund, Settle, FinalizeCollateral, DeclareEarnings, Receive,
     AttributeReceipt, AttributeReviewed, ReimburseOperatingCost, Start, CheckCoverage,
     ReadCredits, Preview, Allocate, Abandon
<1>8. CASE UNCHANGED vars
  BY <1>6, <1>8 DEF vars
<1> QED
  BY <1>1, <1>2, <1>3, <1>4, <1>5, <1>7, <1>8 DEF Next, Observe

\* Heights that a preview has shown stay credited, and a reader of credits has
\* the credit of all of them.
LEMMA CallsStep == BlocksInv /\ CallsInv /\ [Next]_vars => CallsInv'
<1> SUFFICES ASSUME BlocksInv, CallsInv, [Next]_vars PROVE CallsInv'
  OBVIOUS
<1> USE DEF BlocksInv, CallsInv
\* What changes no call and no preview.
<1>1. CASE credited \subseteq credited' /\ UNCHANGED <<call, reviewed>>
  <2>1. \A inputs : ShownIn(inputs, credited) => ShownIn(inputs, credited')
    BY <1>1 DEF ShownIn
  <2>2. ASSUME NEW c \in Calls PROVE CallCovers(c)'
    <3>1. CallCovers(c)
      OBVIOUS
    <3> QED
      BY <1>1, <2>1, <3>1 DEF CallCovers
  <2> QED
    BY <1>1, <2>1, <2>2
<1>2. CASE Observe \/ Fund \/ UNCHANGED vars
  BY <1>1, <1>2 DEF Observe, Fund, Record, Conflict, Resolve, ReadBlock, StoreCredit, End, SetGapPolicy,
     RecordReport, Seal, FinalizeCollateral, DeclareEarnings, Receive, AttributeReceipt,
     AttributeReviewed, ReimburseOperatingCost, vars, blockVars, callVars
\* A step of one call leaves the others alone.
<1>3. ASSUME NEW c \in Calls, NEW entry,
             call' = [call EXCEPT ![c] = entry], UNCHANGED credited,
             reviewed' # Nothing => ShownIn(reviewed', credited'), CallCovers(c)'
      PROVE  CallsInv'
  <2>1. call' = [k \in Calls |-> call'[k]]
    BY <1>3
  <2>2. ASSUME NEW k \in Calls PROVE CallCovers(k)'
    <3>1. CASE k = c
      BY <1>3, <3>1
    <3>2. CASE k # c
      <4>1. CallCovers(k) /\ call'[k] = call[k]
        BY <1>3, <3>2
      <4> QED
        BY <1>3, <4>1 DEF CallCovers
    <3> QED
      BY <3>1, <3>2
  <2> QED
    BY <1>3, <2>1, <2>2
<1>4. ASSUME NEW c \in Calls, NEW post \in BOOLEAN, NEW expected \in {Nothing, reviewed},
             Start(c, post, expected)
      PROVE  CallsInv'
  <2>1. call'[c] = [at |-> "started", post |-> post, expected |-> expected]
    BY <1>4 DEF Start
  <2>2. CallCovers(c)'
    BY <1>4, <2>1 DEF CallCovers, Start, blockVars
  <2> QED
    BY <1>3, <1>4, <2>2 DEF Start, blockVars
<1>5. ASSUME NEW c \in Calls, CheckCoverage(c) PROVE CallsInv'
  <2>1. call'[c] = [at |-> "covered", post |-> call[c].post, expected |-> call[c].expected]
    BY <1>5 DEF CheckCoverage
  <2>2. CallCovers(c) /\ call[c].at = "started"
    BY <1>5 DEF CheckCoverage
  <2>3. CallCovers(c)'
    BY <1>5, <2>1, <2>2 DEF CallCovers, CheckCoverage, blockVars
  <2> QED
    BY <1>3, <1>5, <2>3 DEF CheckCoverage, blockVars
<1>6. ASSUME NEW c \in Calls, ReadCredits(c) PROVE CallsInv'
  <2>1. call'[c] = [at |-> "read", post |-> call[c].post, expected |-> call[c].expected,
                    credits |-> CreditsOf(credited)]
    BY <1>6 DEF ReadCredits
  <2>2. CallCovers(c) /\ call[c].at = "covered"
    BY <1>6 DEF ReadCredits
  <2>3. CallCovers(c)'
    BY <1>6, <2>1, <2>2 DEF CallCovers, ReadCredits, blockVars
  <2> QED
    BY <1>3, <1>6, <2>3 DEF ReadCredits, blockVars
<1>7. ASSUME NEW c \in Calls, Preview(c) PROVE CallsInv'
  <2>1. call'[c] = Idle
    BY <1>7 DEF Preview
  <2>2. CallCovers(c)'
    BY <2>1 DEF CallCovers, Idle
  <2>3. reviewed'.missing = Missing
    BY <1>7 DEF Preview, Inputs
  <2>4. recorded \subseteq credited
    BY <1>7 DEF Preview, Ready, CreditedComplete
  <2>5. ShownIn(reviewed', credited)
    BY <2>3, <2>4 DEF ShownIn, Missing
  <2> QED
    BY <1>3, <1>7, <2>2, <2>5 DEF Preview, blockVars
<1>8. ASSUME NEW c \in Calls, Allocate(c) \/ Abandon(c) PROVE CallsInv'
  <2>1. /\ call' = [call EXCEPT ![c] = Idle]
        /\ UNCHANGED <<credited, reviewed>>
    BY <1>8 DEF Allocate, Abandon, blockVars
  <2>2. call'[c] = Idle
    BY <2>1
  <2>3. CallCovers(c)'
    BY <2>2 DEF CallCovers, Idle
  <2> QED
    BY <1>3, <2>1, <2>3
<1> QED
  BY <1>2, <1>4, <1>5, <1>6, <1>7, <1>8 DEF Next, Settle

\* A settlement is final, and one that is made as reviewed pays every height that
\* it does not record as missing.
LEMMA CompleteStep == ReviewInv /\ [Next]_vars => ReviewedIsComplete'
<1> SUFFICES ASSUME ReviewInv, [Next]_vars PROVE ReviewedIsComplete'
  OBVIOUS
<1> USE DEF ReviewInv
<1>1. CASE UNCHANGED settlement
  BY <1>1 DEF ReviewedIsComplete, Complete
<1>2. ASSUME NEW c \in Calls, Allocate(c) PROVE ReviewedIsComplete'
  <2> SUFFICES ASSUME settlement'.expected # Nothing PROVE Complete(settlement')
    BY DEF ReviewedIsComplete, Complete
  <2> DEFINE inputs == Inputs(call[c].credits)
  <2>1. settlement'.inputs = inputs /\ settlement'.expected = call[c].expected
    BY <1>2 DEF Allocate
  <2>2. call[c].expected = inputs
    BY <1>2, <2>1 DEF Allocate, AsReviewed
  <2>3. inputs.missing = Missing /\ inputs.credits = call[c].credits
    BY DEF Inputs
  <2>4. call[c].at = "read" /\ CallCovers(c)
    BY <1>2 DEF Allocate, CallsInv
  <2>5. PICK S \in SUBSET credited : ShownIn(call[c].expected, S) /\ call[c].credits = CreditsOf(S)
    BY <2>1, <2>4 DEF CallCovers
  <2>6. S \in SUBSET (Heights \ Missing)
    BY DEF Missing, BlocksInv
  <2> QED
    BY <2>1, <2>2, <2>3, <2>5, <2>6 DEF Complete, ShownIn
<1>3. CASE Observe \/ Fund \/ UNCHANGED vars
  BY <1>1, <1>3 DEF Observe, Fund, Record, Conflict, Resolve, ReadBlock, StoreCredit, End, SetGapPolicy,
     RecordReport, Seal, FinalizeCollateral, DeclareEarnings, Receive, AttributeReceipt,
     AttributeReviewed, ReimburseOperatingCost, vars, callVars
<1>4. ASSUME NEW c \in Calls,
             \/ \E post \in BOOLEAN, expected \in {Nothing, reviewed} : Start(c, post, expected)
             \/ CheckCoverage(c) \/ ReadCredits(c) \/ Preview(c) \/ Abandon(c)
      PROVE  ReviewedIsComplete'
  BY <1>1, <1>4 DEF Start, CheckCoverage, ReadCredits, Preview, Abandon
<1> QED
  BY <1>2, <1>3, <1>4 DEF Next, Settle

-----------------------------------------------------------------------------
(***************************************************************************)
(* The money of the round.                                                 *)
(***************************************************************************)

Seen  == {t \in Transfers : transfer[t] # "unseen"}
Loose == {t \in Transfers : transfer[t] = "unattributed"}
Open  == {r \in Reservations : outcome[r] = "none"}

Conserved ==
    OperatorFunds + Sum(Value, Seen) + Sum(Held, Reservations)
        = operator + pot + Sum(available, Members) + Sum(Value, Loose) + Sum(Held, Open)

MoneyTyped ==
    /\ transfer \in [Transfers -> {"unseen", "unattributed", "member", "operator", "round"}]
    /\ earnings # Nothing => earnings.expected \in Nat /\ earnings.withheld \in Nat
    /\ reimbursed \in Nat \union {NotPaid}
    /\ outcome \in [Reservations -> {"none", "returned", "forfeited"}]
    /\ available \in [Members -> Nat]
    /\ operator \in Nat
    /\ pot \in Nat

\* A call that has read credits has read numbers.
CreditsTyped ==
    /\ call = [c \in Calls |-> call[c]]
    /\ \A c \in Calls : call[c].at = "read" => call[c].credits \in [Members -> Nat]

\* No collateral of a settled round is undecided: none is forfeited into its pot
\* once that is paid.
NothingOpen == settlement # Nothing => \A r \in Reservations : outcome[r] # "none"

\* The inductive invariant of the money of the round.
MoneyInv ==
    BlocksInv /\ MoneyTyped /\ CreditsTyped /\ NothingOpen /\ PotIsFunding /\ Conserved /\ SharesAreFair

\* Transfers are finitely many.
LEMMA ValueSums ==
    ASSUME NEW T \in SUBSET Transfers
    PROVE  /\ Sum(Value, T) \in Nat
           /\ \A t \in Transfers \ T : Sum(Value, T \union {t}) = Sum(Value, T) + Value[t]
           /\ \A t \in T : Sum(Value, T \ {t}) = Sum(Value, T) - Value[t]
<1>1. IsFiniteSet(T) /\ \A t \in Transfers : Value[t] \in Nat
  BY MoneyAssumption, FS_Subset
<1>2. Sum(Value, T) \in Nat
  BY <1>1, SumNat DEF Sum
<1>3. ASSUME NEW t \in Transfers \ T PROVE Sum(Value, T \union {t}) = Sum(Value, T) + Value[t]
  <2>1. t \notin T /\ \A x \in T \union {t} : Value[x] \in Int
    BY <1>1
  <2> QED
    BY <1>1, <2>1, SumAdd DEF Sum
<1>4. ASSUME NEW t \in T PROVE Sum(Value, T \ {t}) = Sum(Value, T) - Value[t]
  <2>1. \A x \in T : Value[x] \in Int
    BY <1>1
  <2> QED
    BY <1>1, <2>1, SumDrop DEF Sum
<1> QED
  BY <1>2, <1>3, <1>4

\* Reservations are finitely many.
LEMMA HeldSums ==
    ASSUME NEW R \in SUBSET Reservations
    PROVE  /\ Sum(Held, R) \in Nat
           /\ \A r \in Reservations \ R : Sum(Held, R \union {r}) = Sum(Held, R) + Held[r]
           /\ \A r \in R : Sum(Held, R \ {r}) = Sum(Held, R) - Held[r]
<1>1. IsFiniteSet(R) /\ \A r \in Reservations : Held[r] \in Nat
  BY MoneyAssumption, FS_Subset
<1>2. Sum(Held, R) \in Nat
  BY <1>1, SumNat DEF Sum
<1>3. ASSUME NEW r \in Reservations \ R PROVE Sum(Held, R \union {r}) = Sum(Held, R) + Held[r]
  <2>1. r \notin R /\ \A x \in R \union {r} : Held[x] \in Int
    BY <1>1
  <2> QED
    BY <1>1, <2>1, SumAdd DEF Sum
<1>4. ASSUME NEW r \in R PROVE Sum(Held, R \ {r}) = Sum(Held, R) - Held[r]
  <2>1. \A x \in R : Held[x] \in Int
    BY <1>1
  <2> QED
    BY <1>1, <2>1, SumDrop DEF Sum
<1> QED
  BY <1>2, <1>3, <1>4

\* One member is credited.
LEMMA MemberSum ==
    ASSUME NEW f \in [Members -> Nat], NEW m \in Members, NEW v \in Nat,
           NEW g \in [Members -> Nat], g[m] = f[m] + v,
           \A n \in Members : n # m => g[n] = f[n]
    PROVE  /\ Sum(f, Members) \in Nat
           /\ Sum(g, Members) = Sum(f, Members) + v
<1>1. IsFiniteSet(Members) /\ f[m] \in Nat /\ \A n \in Members : f[n] \in Nat
  BY CreditAssumption
<1>2. Sum(f, Members) \in Nat
  BY <1>1, SumNat DEF Sum
<1>3. \A n \in Members : f[n] \in Int
  OBVIOUS
<1>4. g[m] \in Int
  OBVIOUS
<1>5. Sum(g, Members) = Sum(f, Members) - f[m] + g[m]
  BY <1>1, <1>3, <1>4, SumChange DEF Sum
<1> QED
  BY <1>1, <1>2, <1>5

\* The balances and sums are natural numbers.
LEMMA MoneySums ==
    MoneyTyped => /\ Sum(Value, Seen) \in Nat /\ Sum(Value, Loose) \in Nat
                  /\ Sum(Value, Receipts) \in Nat /\ Sum(Held, Reservations) \in Nat
                  /\ Sum(Held, Open) \in Nat /\ Sum(Held, Forfeited) \in Nat
                  /\ Sum(available, Members) \in Nat /\ Reimbursed \in Nat
                  /\ Funding \in Nat /\ OperatorFunds \in Nat
<1> SUFFICES ASSUME MoneyTyped
             PROVE  /\ Sum(Value, Seen) \in Nat /\ Sum(Value, Loose) \in Nat
                    /\ Sum(Value, Receipts) \in Nat /\ Sum(Held, Reservations) \in Nat
                    /\ Sum(Held, Open) \in Nat /\ Sum(Held, Forfeited) \in Nat
                    /\ Sum(available, Members) \in Nat /\ Reimbursed \in Nat
                    /\ Funding \in Nat /\ OperatorFunds \in Nat
  OBVIOUS
<1>1. Seen \in SUBSET Transfers /\ Loose \in SUBSET Transfers /\ Receipts \in SUBSET Transfers
  BY DEF Seen, Loose, Receipts
<1>2. Open \in SUBSET Reservations /\ Forfeited \in SUBSET Reservations
  BY DEF Open, Forfeited
<1>3. Sum(Value, Seen) \in Nat /\ Sum(Value, Loose) \in Nat /\ Sum(Value, Receipts) \in Nat
  BY <1>1, ValueSums
<1>4. Sum(Held, Open) \in Nat /\ Sum(Held, Forfeited) \in Nat /\ Sum(Held, Reservations) \in Nat
  BY <1>2, HeldSums
<1>5. Sum(available, Members) \in Nat
  <2>1. \A m \in Members : available[m] \in Nat
    BY DEF MoneyTyped
  <2> QED
    BY <2>1, CreditAssumption, SumNat DEF Sum
<1>6. Reimbursed \in Nat
  BY DEF MoneyTyped, Reimbursed, NotPaid
<1>7. Funding \in Nat
  BY <1>3, <1>4, <1>6 DEF Funding
<1> QED
  BY <1>3, <1>4, <1>5, <1>6, <1>7, MoneyAssumption

\* A credit that is read is a natural number for each member.
LEMMA CreditsAreNat ==
    ASSUME NEW S \in SUBSET Heights
    PROVE  CreditsOf(S) \in [Members -> Nat]
<1>1. IsFiniteSet(S)
  BY HeightsAssumption, FS_Subset
<1>2. ASSUME NEW m \in Members PROVE Sum([h \in Heights |-> Credit[h][m]], S) \in Nat
  <2> DEFINE f == [h \in Heights |-> Credit[h][m]]
  <2>1. \A h \in S : f[h] \in Nat
    BY CreditAssumption
  <2> HIDE DEF f
  <2>2. Sum(f, S) \in Nat
    BY <1>1, <2>1, SumNat DEF Sum
  <2> QED
    BY <2>2 DEF f
<1> QED
  BY <1>2 DEF CreditsOf

\* Nothing is settled, and all that is owed is in the operator's account.
LEMMA MoneyInit == Init => MoneyInv
<1> SUFFICES ASSUME Init PROVE MoneyInv
  OBVIOUS
<1> USE DEF Init
<1>1. BlocksInv
  BY DEF BlocksInv
<1>2. MoneyTyped
  BY MoneyAssumption DEF MoneyTyped, NotPaid, Nothing
<1>3. CreditsTyped
  BY DEF CreditsTyped, Idle
<1>4. NothingOpen /\ SharesAreFair
  BY DEF NothingOpen, SharesAreFair
<1>5. Seen = {} /\ Loose = {} /\ Receipts = {} /\ Forfeited = {} /\ Open = Reservations
  BY DEF Seen, Loose, Receipts, Forfeited, Open
<1>6. Sum(Value, {}) = 0 /\ Sum(Held, {}) = 0
  BY SumEmpty DEF Sum
<1>7. Sum(available, Members) = 0
  <2>1. \A m \in Members : available[m] = 0
    OBVIOUS
  <2> QED
    BY <2>1, CreditAssumption, SumZero DEF Sum
<1>8. Sum(Value, Seen) = 0 /\ Sum(Value, Loose) = 0 /\ Sum(Value, Receipts) = 0
  BY <1>5, <1>6, Zenon
<1>9. Sum(Held, Forfeited) = 0 /\ Sum(Held, Open) = Sum(Held, Reservations)
  BY <1>5, <1>6, Zenon
<1>10. Reimbursed = 0
  BY DEF Reimbursed
<1>11. PotIsFunding
  BY <1>8, <1>9, <1>10 DEF PotIsFunding, Funding
<1>12. Conserved
  BY <1>2, <1>7, <1>8, <1>9, MoneySums DEF Conserved
<1> QED
  BY <1>1, <1>2, <1>3, <1>4, <1>11, <1>12 DEF MoneyInv

\* The sums follow the rows that they are taken over.
LEMMA SumsUnchanged ==
    ASSUME UNCHANGED <<transfer, outcome, reimbursed>>
    PROVE  /\ Sum(Value, Seen)' = Sum(Value, Seen)
           /\ Sum(Value, Loose)' = Sum(Value, Loose)
           /\ Sum(Held, Open)' = Sum(Held, Open)
           /\ Funding' = Funding
<1>1. Seen' = Seen /\ Loose' = Loose /\ Open' = Open
  BY DEF Seen, Loose, Open
<1>2. Receipts' = Receipts /\ Forfeited' = Forfeited /\ Reimbursed' = Reimbursed
  BY DEF Receipts, Forfeited, Reimbursed
<1>3. Sum(Value, Seen)' = Sum(Value, Seen) /\ Sum(Value, Loose)' = Sum(Value, Loose)
  BY <1>1, Zenon DEF Sum
<1>4. Sum(Held, Open)' = Sum(Held, Open)
  BY <1>1, Zenon DEF Sum
<1>5. Sum(Value, Receipts)' = Sum(Value, Receipts) /\ Sum(Held, Forfeited)' = Sum(Held, Forfeited)
  BY <1>2, Zenon DEF Sum
<1> QED
  BY <1>2, <1>3, <1>4, <1>5 DEF Funding

MoneyFacts == MoneyTyped /\ NothingOpen /\ PotIsFunding /\ Conserved

\* What moves no money.
LEMMA MoneyUnmoved ==
    ASSUME MoneyFacts, UNCHANGED <<transfer, outcome, reimbursed, available, operator, pot, settlement>>,
           earnings' # Nothing => earnings'.expected \in Nat /\ earnings'.withheld \in Nat
    PROVE  MoneyFacts'
<1> USE DEF MoneyFacts
<1>1. MoneyTyped' /\ NothingOpen'
  BY DEF MoneyTyped, NothingOpen
<1>2. PotIsFunding'
  BY SumsUnchanged DEF PotIsFunding
<1>3. Sum(available, Members)' = Sum(available, Members)
  BY Zenon DEF Sum
<1>4. Sum(Held, Reservations)' = Sum(Held, Reservations)
  BY Zenon DEF Sum
<1>5. Conserved'
  BY <1>3, <1>4, SumsUnchanged DEF Conserved
<1> QED
  BY <1>1, <1>2, <1>5

\* A transfer enters custody and is not attributed yet.
LEMMA ReceiveMoney ==
    ASSUME MoneyFacts, NEW t \in Transfers, Receive(t)
    PROVE  MoneyFacts'
<1> USE DEF MoneyFacts
<1>1. MoneyTyped' /\ NothingOpen'
  BY DEF Receive, MoneyTyped, NothingOpen, callVars
<1>2. /\ t \notin Seen /\ Seen' = Seen \union {t} /\ Seen \in SUBSET Transfers
      /\ t \notin Loose /\ Loose' = Loose \union {t} /\ Loose \in SUBSET Transfers
  BY DEF Receive, MoneyTyped, Seen, Loose
<1>3. Receipts' = Receipts /\ Open' = Open /\ Forfeited' = Forfeited /\ Reimbursed' = Reimbursed
  BY DEF Receive, MoneyTyped, Receipts, Open, Forfeited, Reimbursed
<1>4. /\ Sum(Value, Seen \union {t}) = Sum(Value, Seen) + Value[t]
      /\ Sum(Value, Loose \union {t}) = Sum(Value, Loose) + Value[t]
  BY <1>2, ValueSums
<1>5. /\ Sum(Value, Seen)' = Sum(Value, Seen \union {t})
      /\ Sum(Value, Loose)' = Sum(Value, Loose \union {t})
  BY <1>2, Zenon DEF Sum
<1>6. /\ Sum(Value, Receipts)' = Sum(Value, Receipts)
      /\ Sum(Held, Forfeited)' = Sum(Held, Forfeited)
      /\ Sum(Held, Open)' = Sum(Held, Open)
      /\ Sum(Held, Reservations)' = Sum(Held, Reservations)
  BY <1>3, Zenon DEF Sum
<1>7. UNCHANGED <<available, operator, pot, settlement>>
  BY DEF Receive, callVars
<1>8. Sum(available, Members)' = Sum(available, Members)
  BY <1>7, Zenon DEF Sum
<1>9. PotIsFunding'
  BY <1>3, <1>6, <1>7 DEF PotIsFunding, Funding
<1>10. Value[t] \in Nat
  BY MoneyAssumption
<1>11. Conserved'
  BY <1>4, <1>5, <1>6, <1>7, <1>8, <1>10, MoneySums DEF Conserved, MoneyTyped
<1> QED
  BY <1>1, <1>9, <1>11

\* A reviewed transfer moves to a member's or the operator's account.
LEMMA AttributeMoney ==
    ASSUME MoneyFacts, NEW t \in Transfers, NEW m \in Members, AttributeReviewed(t, m)
    PROVE  MoneyFacts'
<1> USE DEF MoneyFacts
<1>0. Value[t] \in Nat
  BY MoneyAssumption
<1>1. /\ transfer[t] = "unattributed" /\ transfer'[t] \in {"member", "operator"}
      /\ transfer' \in [Transfers -> {"unseen", "unattributed", "member", "operator", "round"}]
      /\ \A x \in Transfers : x # t => transfer'[x] = transfer[x]
      /\ UNCHANGED <<earnings, reimbursed, outcome, pot, settlement>>
  BY DEF AttributeReviewed, MoneyTyped, callVars
<1>2. /\ t \in Loose /\ Loose' = Loose \ {t} /\ Loose \in SUBSET Transfers
      /\ Seen' = Seen /\ Receipts' = Receipts
  BY <1>1 DEF Seen, Loose, Receipts
<1>3. Open' = Open /\ Forfeited' = Forfeited /\ Reimbursed' = Reimbursed
  BY <1>1 DEF Open, Forfeited, Reimbursed
<1>4. Sum(Value, Loose \ {t}) = Sum(Value, Loose) - Value[t]
  BY <1>2, ValueSums
<1>5. Sum(Value, Loose)' = Sum(Value, Loose \ {t}) /\ Sum(Value, Seen)' = Sum(Value, Seen)
  BY <1>2, Zenon DEF Sum
<1>6. Sum(Value, Receipts)' = Sum(Value, Receipts)
  BY <1>2, Zenon DEF Sum
<1>7. /\ Sum(Held, Forfeited)' = Sum(Held, Forfeited)
      /\ Sum(Held, Open)' = Sum(Held, Open)
      /\ Sum(Held, Reservations)' = Sum(Held, Reservations)
  BY <1>3, Zenon DEF Sum
<1>8. PotIsFunding'
  BY <1>1, <1>3, <1>6, <1>7 DEF PotIsFunding, Funding
<1>9. /\ operator' + Sum(available, Members)' = operator + Sum(available, Members) + Value[t]
      /\ Sum(available, Members)' \in Nat
      /\ operator' \in Nat /\ available' \in [Members -> Nat]
  <2>1. available \in [Members -> Nat] /\ operator \in Nat
    BY DEF MoneyTyped
  <2>2. CASE available' = [available EXCEPT ![m] = @ + Value[t]] /\ operator' = operator
    <3>1. /\ available' \in [Members -> Nat] /\ available'[m] = available[m] + Value[t]
          /\ \A n \in Members : n # m => available'[n] = available[n]
          /\ operator' = operator
      BY <1>0, <2>1, <2>2
    <3> HIDE <2>2
    <3>2. /\ Sum(available, Members) \in Nat
          /\ Sum(available', Members) = Sum(available, Members) + Value[t]
      BY <1>0, <2>1, <3>1, MemberSum
    <3> QED
      BY <1>0, <2>1, <3>1, <3>2 DEF Sum
  <2>3. CASE available' = available /\ operator' = operator + Value[t]
    <3>1. Sum(available, Members)' = Sum(available, Members)
      BY <2>3, Zenon DEF Sum
    <3> QED
      BY <1>0, <2>1, <2>3, <3>1, MoneySums
  <2> QED
    BY <2>2, <2>3 DEF AttributeReviewed
<1>10. MoneyTyped' /\ NothingOpen'
  BY <1>1, <1>9 DEF MoneyTyped, NothingOpen
<1>11. Conserved'
  BY <1>0, <1>1, <1>4, <1>5, <1>7, <1>9, MoneySums DEF Conserved, MoneyTyped
<1> QED
  BY <1>8, <1>10, <1>11

\* A receipt moves to the pot, which is not paid out yet.
LEMMA ReceiptMoney ==
    ASSUME MoneyFacts, NEW t \in Transfers, AttributeReceipt(t)
    PROVE  MoneyFacts'
<1> USE DEF MoneyFacts
<1>0. Value[t] \in Nat
  BY MoneyAssumption
<1>1. /\ transfer[t] = "unattributed" /\ transfer' = [transfer EXCEPT ![t] = "round"]
      /\ settlement = Nothing /\ pot' = pot + Value[t]
      /\ UNCHANGED <<earnings, reimbursed, outcome, available, operator, settlement>>
  BY DEF AttributeReceipt, NotSettled, callVars
<1>2. MoneyTyped' /\ NothingOpen'
  BY <1>0, <1>1 DEF MoneyTyped, NothingOpen
<1>3. /\ t \in Loose /\ Loose' = Loose \ {t} /\ Loose \in SUBSET Transfers
      /\ Seen' = Seen
      /\ t \notin Receipts /\ Receipts' = Receipts \union {t} /\ Receipts \in SUBSET Transfers
  BY <1>1 DEF Seen, Loose, Receipts, MoneyTyped
<1>4. Open' = Open /\ Forfeited' = Forfeited /\ Reimbursed' = Reimbursed
  BY <1>1 DEF Open, Forfeited, Reimbursed
<1>5. /\ Sum(Value, Loose \ {t}) = Sum(Value, Loose) - Value[t]
      /\ Sum(Value, Receipts \union {t}) = Sum(Value, Receipts) + Value[t]
  BY <1>3, ValueSums
<1>6. /\ Sum(Value, Loose)' = Sum(Value, Loose \ {t})
      /\ Sum(Value, Seen)' = Sum(Value, Seen)
      /\ Sum(Value, Receipts)' = Sum(Value, Receipts \union {t})
  BY <1>3, Zenon DEF Sum
<1>7. /\ Sum(Held, Forfeited)' = Sum(Held, Forfeited)
      /\ Sum(Held, Open)' = Sum(Held, Open)
      /\ Sum(Held, Reservations)' = Sum(Held, Reservations)
  BY <1>4, Zenon DEF Sum
<1>8. Sum(available, Members)' = Sum(available, Members)
  BY <1>1, Zenon DEF Sum
<1>9. PotIsFunding'
  BY <1>0, <1>1, <1>4, <1>5, <1>6, <1>7, MoneySums DEF PotIsFunding, Funding
<1>10. Conserved'
  BY <1>0, <1>1, <1>5, <1>6, <1>7, <1>8, MoneySums DEF Conserved, MoneyTyped
<1> QED
  BY <1>2, <1>9, <1>10

\* Collateral is returned, or moves to the pot, which is not paid out yet.
LEMMA CollateralMoney ==
    ASSUME MoneyFacts, NEW r \in Reservations, FinalizeCollateral(r)
    PROVE  MoneyFacts'
<1> USE DEF MoneyFacts
<1>0. Held[r] \in Nat /\ MemberOf[r] \in Members
  BY MoneyAssumption
<1>1. /\ outcome[r] = "none" /\ settlement = Nothing
      /\ UNCHANGED <<transfer, earnings, reimbursed, operator, settlement>>
  BY DEF FinalizeCollateral, Undecided, NothingOpen, callVars
<1>2. /\ r \in Open /\ Open \in SUBSET Reservations
      /\ r \notin Forfeited /\ Forfeited \in SUBSET Reservations
  BY <1>1 DEF Open, Forfeited
<1>3. Seen' = Seen /\ Loose' = Loose /\ Receipts' = Receipts /\ Reimbursed' = Reimbursed
  BY <1>1 DEF Seen, Loose, Receipts, Reimbursed
<1>4. /\ Sum(Held, Open \ {r}) = Sum(Held, Open) - Held[r]
      /\ Sum(Held, Forfeited \union {r}) = Sum(Held, Forfeited) + Held[r]
  BY <1>2, HeldSums
<1>5. /\ Sum(Value, Seen)' = Sum(Value, Seen)
      /\ Sum(Value, Loose)' = Sum(Value, Loose)
      /\ Sum(Value, Receipts)' = Sum(Value, Receipts)
  BY <1>3, Zenon DEF Sum
<1>6. Sum(Held, Reservations)' = Sum(Held, Reservations)
  BY Zenon DEF Sum
<1>7. CASE /\ outcome' = [outcome EXCEPT ![r] = "returned"]
           /\ available' = [available EXCEPT ![MemberOf[r]] = @ + Held[r]]
           /\ UNCHANGED pot
  <2> DEFINE m == MemberOf[r]
  <2>1. /\ available \in [Members -> Nat] /\ available' \in [Members -> Nat]
        /\ available'[m] = available[m] + Held[r]
        /\ \A n \in Members : n # m => available'[n] = available[n]
    BY <1>0, <1>7 DEF MoneyTyped
  <2>2. MoneyTyped' /\ NothingOpen' /\ pot' = pot
    BY <1>1, <1>7, <2>1 DEF MoneyTyped, NothingOpen
  <2>3. Open' = Open \ {r} /\ Forfeited' = Forfeited
    BY <1>1, <1>7 DEF Open, Forfeited, MoneyTyped
  <2> HIDE <1>7
  <2>4. /\ Sum(available, Members) \in Nat
        /\ Sum(available', Members) = Sum(available, Members) + Held[r]
    <3> HIDE DEF m
    <3>1. m \in Members
      BY <1>0 DEF m
    <3> QED
      BY <1>0, <2>1, <3>1, MemberSum
  <2>5. Sum(Held, Open)' = Sum(Held, Open \ {r}) /\ Sum(Held, Forfeited)' = Sum(Held, Forfeited)
    BY <2>3, Zenon DEF Sum
  <2>6. PotIsFunding'
    BY <1>1, <1>3, <1>5, <2>2, <2>5 DEF PotIsFunding, Funding
  <2>7. Conserved'
    BY <1>0, <1>1, <1>4, <1>5, <1>6, <2>2, <2>4, <2>5, MoneySums DEF Conserved, MoneyTyped, Sum
  <2> QED
    BY <2>2, <2>6, <2>7
<1>8. CASE /\ outcome' = [outcome EXCEPT ![r] = "forfeited"]
           /\ pot' = pot + Held[r]
           /\ UNCHANGED available
  <2>1. MoneyTyped' /\ NothingOpen'
    BY <1>0, <1>1, <1>8 DEF MoneyTyped, NothingOpen
  <2>2. Open' = Open \ {r} /\ Forfeited' = Forfeited \union {r}
    BY <1>1, <1>8 DEF Open, Forfeited, MoneyTyped
  <2>3. /\ Sum(Held, Open)' = Sum(Held, Open \ {r})
        /\ Sum(Held, Forfeited)' = Sum(Held, Forfeited \union {r})
    BY <2>2, Zenon DEF Sum
  <2>4. Sum(available, Members)' = Sum(available, Members)
    BY <1>8, Zenon DEF Sum
  <2>5. PotIsFunding'
    BY <1>0, <1>1, <1>3, <1>4, <1>5, <1>8, <2>3, MoneySums DEF PotIsFunding, Funding
  <2>6. Conserved'
    BY <1>0, <1>1, <1>4, <1>5, <1>6, <1>8, <2>3, <2>4, MoneySums DEF Conserved, MoneyTyped
  <2> QED
    BY <2>1, <2>5, <2>6
<1> QED
  BY <1>7, <1>8 DEF FinalizeCollateral

\* The operator pays the operating cost into the pot once.
LEMMA ReimburseMoney ==
    ASSUME MoneyFacts, ReimburseOperatingCost
    PROVE  MoneyFacts'
<1> USE DEF MoneyFacts
<1> DEFINE cost == earnings.withheld
<1>1. cost \in Nat /\ operator \in Nat /\ pot \in Nat /\ cost <= operator
  BY DEF ReimburseOperatingCost, MoneyTyped, CanPay
<1>2. /\ settlement = Nothing /\ reimbursed = NotPaid /\ reimbursed' = cost
      /\ operator' = operator - cost /\ pot' = pot + cost
      /\ UNCHANGED <<transfer, earnings, outcome, available, settlement>>
  BY DEF ReimburseOperatingCost, NotSettled, callVars
<1> HIDE DEF cost
<1>3. MoneyTyped' /\ NothingOpen'
  BY <1>1, <1>2 DEF MoneyTyped, NothingOpen
<1>4. Reimbursed = 0 /\ Reimbursed' = cost
  BY <1>1, <1>2 DEF Reimbursed, NotPaid
<1>5. /\ Seen' = Seen /\ Loose' = Loose /\ Receipts' = Receipts
      /\ Open' = Open /\ Forfeited' = Forfeited
  BY <1>2 DEF Seen, Loose, Receipts, Open, Forfeited
<1>6. /\ Sum(Value, Seen)' = Sum(Value, Seen)
      /\ Sum(Value, Loose)' = Sum(Value, Loose)
      /\ Sum(Value, Receipts)' = Sum(Value, Receipts)
  BY <1>5, Zenon DEF Sum
<1>7. /\ Sum(Held, Forfeited)' = Sum(Held, Forfeited)
      /\ Sum(Held, Open)' = Sum(Held, Open)
      /\ Sum(Held, Reservations)' = Sum(Held, Reservations)
  BY <1>5, Zenon DEF Sum
<1>8. Sum(available, Members)' = Sum(available, Members)
  BY <1>2, Zenon DEF Sum
<1>9. PotIsFunding'
  BY <1>1, <1>2, <1>4, <1>6, <1>7, MoneySums DEF PotIsFunding, Funding
<1>10. Conserved'
  BY <1>1, <1>2, <1>6, <1>7, <1>8, MoneySums DEF Conserved
<1> QED
  BY <1>3, <1>9, <1>10

\* The pot is paid out, all of it, and stays empty.
LEMMA AllocateMoney ==
    ASSUME MoneyFacts, NEW c \in Calls, Allocate(c), call[c].credits \in [Members -> Nat]
    PROVE  MoneyFacts' /\ SharesAreFair'
<1> USE DEF MoneyFacts
<1> DEFINE credits == call[c].credits
<1> DEFINE shares == Allocation(Funding, credits)
<1> DEFINE row == [inputs |-> Inputs(credits), pot |-> Funding, shares |-> shares,
                   expected |-> call[c].expected]
<1>1. /\ settlement = Nothing /\ pot = Funding /\ pot' = pot - Funding
      /\ \A r \in Reservations : outcome[r] # "none"
      /\ operator' = operator + shares.operator
      /\ available' = [m \in Members |-> available[m] + shares.members[m]]
      /\ settlement' = row
      /\ UNCHANGED <<transfer, earnings, reimbursed, outcome>>
  BY DEF Allocate, Ready, NotSettled, CollateralKnown, Undecided
<1>2. Funding \in Nat
  BY MoneySums
<1>3. /\ shares.operator \in Nat /\ shares.members \in [Members -> Nat]
      /\ Fair(Funding, credits, shares)
  BY <1>2, AllocationIsFair
<1>4. shares.operator + Sum(shares.members, Members) = Funding
  BY <1>3 DEF Fair
<1>5. /\ row.inputs.credits = credits /\ row.pot = Funding /\ row.shares = shares
      /\ row # Nothing
  BY DEF Inputs, Nothing
<1> HIDE DEF shares, row
<1>6. SharesAreFair'
  <2>1. /\ settlement'.inputs.credits = credits /\ settlement'.pot = Funding
        /\ settlement'.shares = shares
    BY <1>1, <1>5
  <2> HIDE DEF credits
  <2>2. Fair(settlement'.pot, settlement'.inputs.credits, settlement'.shares)
    BY <1>3, <2>1, Zenon
  <2> QED
    BY <2>2 DEF SharesAreFair, Fair
<1>7. /\ available \in [Members -> Nat] /\ available' \in [Members -> Nat]
      /\ \A m \in Members : available'[m] = available[m] + shares.members[m]
  BY <1>1, <1>3 DEF MoneyTyped
<1>8. Sum(available', Members) = Sum(available, Members) + Sum(shares.members, Members)
  <2>1. \A m \in Members : available[m] \in Int /\ shares.members[m] \in Int
    BY <1>3, <1>7
  <2> QED
    BY <1>7, <2>1, CreditAssumption, SumPlus DEF Sum
<1>9. Sum(shares.members, Members) \in Nat
  <2>1. \A m \in Members : shares.members[m] \in Nat
    BY <1>3
  <2> QED
    BY <2>1, CreditAssumption, SumNat DEF Sum
<1>10. pot' = 0 /\ settlement' # Nothing
  BY <1>1, <1>2, <1>5
<1>11. MoneyTyped' /\ NothingOpen'
  BY <1>1, <1>3, <1>7, <1>10 DEF MoneyTyped, NothingOpen
<1>12. PotIsFunding'
  BY <1>10 DEF PotIsFunding
<1>13. Sum(Held, Reservations)' = Sum(Held, Reservations)
  BY Zenon DEF Sum
<1>14. Conserved'
  <2>1. operator \in Nat
    BY DEF MoneyTyped
  <2>2. /\ Sum(Value, Seen)' = Sum(Value, Seen)
        /\ Sum(Value, Loose)' = Sum(Value, Loose)
        /\ Sum(Held, Open)' = Sum(Held, Open)
    BY <1>1, SumsUnchanged
  <2>3. Sum(available, Members)' = Sum(available, Members) + Sum(shares.members, Members)
    BY <1>8 DEF Sum
  <2> QED
    BY <1>1, <1>2, <1>3, <1>4, <1>9, <1>10, <1>13, <2>1, <2>2, <2>3, MoneySums DEF Conserved
<1> QED
  BY <1>6, <1>11, <1>12, <1>14

\* A call that reads credits reads those of heights of the round.
LEMMA CreditsStep == BlocksInv /\ CreditsTyped /\ [Next]_vars => CreditsTyped'
<1> SUFFICES ASSUME BlocksInv, CreditsTyped, [Next]_vars PROVE CreditsTyped'
  OBVIOUS
<1> USE DEF CreditsTyped
<1>1. CASE Observe \/ Fund \/ UNCHANGED vars
  BY <1>1 DEF Observe, Fund, Record, Conflict, Resolve, ReadBlock, StoreCredit, End, SetGapPolicy,
     RecordReport, Seal, FinalizeCollateral, DeclareEarnings, Receive, AttributeReceipt,
     AttributeReviewed, ReimburseOperatingCost, vars, callVars
<1>2. ASSUME NEW c \in Calls, NEW entry, call' = [call EXCEPT ![c] = entry],
             entry.at = "read" => entry.credits \in [Members -> Nat]
      PROVE  CreditsTyped'
  <2>1. call' = [k \in Calls |-> call'[k]]
    BY <1>2
  <2>2. \A k \in Calls : call'[k] = IF k = c THEN entry ELSE call[k]
    BY <1>2
  <2> HIDE <1>2
  <2>3. ASSUME NEW k \in Calls, call'[k].at = "read" PROVE call'[k].credits \in [Members -> Nat]
    BY <1>2, <2>2, <2>3
  <2> QED
    BY <2>1, <2>3
<1>3. ASSUME NEW c \in Calls, NEW post \in BOOLEAN, NEW expected \in {Nothing, reviewed},
             Start(c, post, expected)
      PROVE  CreditsTyped'
  BY <1>2, <1>3 DEF Start
<1>4. ASSUME NEW c \in Calls, CheckCoverage(c) PROVE CreditsTyped'
  BY <1>2, <1>4 DEF CheckCoverage
<1>5. ASSUME NEW c \in Calls, ReadCredits(c) PROVE CreditsTyped'
  <2>1. CreditsOf(credited) \in [Members -> Nat]
    BY CreditsAreNat DEF BlocksInv
  <2> QED
    BY <1>2, <1>5, <2>1 DEF ReadCredits
<1>6. ASSUME NEW c \in Calls, Preview(c) \/ Allocate(c) \/ Abandon(c) PROVE CreditsTyped'
  BY <1>2, <1>6 DEF Preview, Allocate, Abandon, Idle
<1> QED
  BY <1>1, <1>3, <1>4, <1>5, <1>6 DEF Next, Settle

\* Every step of a caller, a deposit, a reimbursement or an outcome keeps the
\* invariant of the money.
LEMMA MoneyStep == MoneyInv /\ [Next]_vars => MoneyInv'
<1> SUFFICES ASSUME MoneyInv, [Next]_vars PROVE MoneyInv'
  OBVIOUS
<1>1. MoneyFacts
  BY DEF MoneyInv, MoneyFacts
<1>2. BlocksInv' /\ CreditsTyped'
  BY BlocksStep, CreditsStep DEF MoneyInv
<1>3. MoneyFacts' /\ SharesAreFair'
  <2>1. CASE UNCHANGED settlement /\ MoneyFacts'
    <3>1. SharesAreFair'
      BY <2>1 DEF MoneyInv, SharesAreFair
    <3> QED
      BY <2>1, <3>1
  <2>2. CASE Observe
    <3>1. UNCHANGED <<moneyVars, settlement>>
      BY <2>2 DEF Observe, Record, Conflict, Resolve, ReadBlock, StoreCredit, End, SetGapPolicy,
         RecordReport, Seal, callVars
    <3> QED
      BY <1>1, <2>1, <3>1, MoneyUnmoved DEF moneyVars, MoneyFacts, MoneyTyped
  <2>3. ASSUME NEW r \in Reservations, FinalizeCollateral(r) PROVE MoneyFacts' /\ SharesAreFair'
    BY <1>1, <2>1, <2>3, CollateralMoney DEF FinalizeCollateral, callVars
  <2>4. ASSUME NEW expected \in Expected, NEW withheld \in Withheld,
               DeclareEarnings(expected, withheld)
        PROVE  MoneyFacts' /\ SharesAreFair'
    <3>1. /\ UNCHANGED <<transfer, outcome, reimbursed, available, operator, pot, settlement>>
          /\ earnings'.expected \in Nat /\ earnings'.withheld \in Nat
      BY <2>4, MoneyAssumption DEF DeclareEarnings, callVars
    <3> QED
      BY <1>1, <2>1, <3>1, MoneyUnmoved
  <2>5. ASSUME NEW t \in Transfers, Receive(t) PROVE MoneyFacts' /\ SharesAreFair'
    BY <1>1, <2>1, <2>5, ReceiveMoney DEF Receive, callVars
  <2>6. ASSUME NEW t \in Transfers, AttributeReceipt(t) PROVE MoneyFacts' /\ SharesAreFair'
    BY <1>1, <2>1, <2>6, ReceiptMoney DEF AttributeReceipt, callVars
  <2>7. ASSUME NEW t \in Transfers, NEW m \in Members, AttributeReviewed(t, m)
        PROVE  MoneyFacts' /\ SharesAreFair'
    BY <1>1, <2>1, <2>7, AttributeMoney DEF AttributeReviewed, callVars
  <2>8. CASE ReimburseOperatingCost
    BY <1>1, <2>1, <2>8, ReimburseMoney DEF ReimburseOperatingCost, callVars
  <2>9. ASSUME NEW c \in Calls, Allocate(c) PROVE MoneyFacts' /\ SharesAreFair'
    <3>1. call[c].credits \in [Members -> Nat]
      BY <2>9 DEF MoneyInv, CreditsTyped, Allocate
    <3> QED
      BY <1>1, <2>9, <3>1, AllocateMoney
  <2>10. ASSUME NEW c \in Calls,
                \/ \E post \in BOOLEAN, expected \in {Nothing, reviewed} : Start(c, post, expected)
                \/ CheckCoverage(c) \/ ReadCredits(c) \/ Preview(c) \/ Abandon(c)
         PROVE  MoneyFacts' /\ SharesAreFair'
    <3>1. UNCHANGED <<moneyVars, settlement>>
      BY <2>10 DEF Start, CheckCoverage, ReadCredits, Preview, Abandon
    <3> QED
      BY <1>1, <2>1, <3>1, MoneyUnmoved DEF moneyVars, MoneyFacts, MoneyTyped
  <2>11. CASE UNCHANGED vars
    BY <1>1, <2>1, <2>11, MoneyUnmoved DEF vars, moneyVars, callVars, MoneyFacts, MoneyTyped
  <2> QED
    BY <2>2, <2>3, <2>4, <2>5, <2>6, <2>7, <2>8, <2>9, <2>10, <2>11 DEF Next, Fund, Settle
<1> QED
  BY <1>2, <1>3 DEF MoneyInv, MoneyFacts

-----------------------------------------------------------------------------
(***************************************************************************)
(* Results.                                                                *)
(***************************************************************************)

\* An allocation made with the digest of a reviewed preview pays the credit of
\* every height of the round except those that it records as missing, although
\* _settle reads coverage and credits before it takes its locks, and blocks are
\* recovered and credited at any time.
THEOREM ReviewedSettlementsAreComplete == Spec => []ReviewedIsComplete
<1>1. Init => ReviewInv
  BY ReviewInit
<1>2. ReviewInv /\ [Next]_vars => ReviewInv'
  BY BlocksStep, CallsStep, CompleteStep DEF ReviewInv
<1>3. ReviewInv => ReviewedIsComplete
  BY DEF ReviewInv
<1> QED
  BY <1>1, <1>2, <1>3, PTL DEF Spec

\* No concurrent or repeated call settles a round again or changes what was paid.
THEOREM SettlementsAreFinal == Spec => SettledOnce
<1>1. [Next]_vars => [settlement # Nothing => settlement' = settlement]_settlement
  <2> SUFFICES ASSUME [Next]_vars, settlement # Nothing PROVE UNCHANGED settlement
    OBVIOUS
  <2>1. CASE Observe \/ Fund \/ UNCHANGED vars
    BY <2>1 DEF Observe, Fund, Record, Conflict, Resolve, ReadBlock, StoreCredit, End, SetGapPolicy,
       RecordReport, Seal, FinalizeCollateral, DeclareEarnings, Receive, AttributeReceipt,
       AttributeReviewed, ReimburseOperatingCost, vars, callVars
  <2>2. CASE Settle
    BY <2>2 DEF Settle, Start, CheckCoverage, ReadCredits, Preview, Allocate, Abandon, Ready, NotSettled
  <2> QED
    BY <2>1, <2>2 DEF Next
<1> QED
  BY <1>1, PTL DEF Spec, SettledOnce

\* The pot always holds what the round has received, was reimbursed and was
\* forfeited, and stays empty once it is paid out: no receipt, reimbursement or
\* forfeit comes after settle, and its own check pot = funding never fails.
THEOREM PotCorrect == Spec => []PotIsFunding
<1>1. MoneyInv => PotIsFunding
  BY DEF MoneyInv
<1> QED
  BY <1>1, MoneyInit, MoneyStep, PTL DEF Spec

\* No operation on a round, in any order and by any number of concurrent
\* callers, creates or loses a unit of money or overdraws an account.
THEOREM MoneyCorrect == Spec => []MoneyIsConserved
<1>1. MoneyInv => MoneyIsConserved
  BY DEF MoneyInv, MoneyTyped, Conserved, Seen, Loose, Open, MoneyIsConserved
<1> QED
  BY <1>1, MoneyInit, MoneyStep, PTL DEF Spec

\* For every pot and every credits, allocate_rewards pays all of the pot, each
\* member less than one unit from the exact share, and none less than a member
\* with less credit.
THEOREM SharesCorrect == Spec => []SharesAreFair
<1>1. MoneyInv => SharesAreFair
  BY DEF MoneyInv
<1> QED
  BY <1>1, MoneyInit, MoneyStep, PTL DEF Spec
=============================================================================
