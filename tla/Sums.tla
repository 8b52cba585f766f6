-------------------------------- MODULE Sums ---------------------------------
(***************************************************************************)
(* Sums of ledger accounts: what SumFunctionOnSet of the community modules *)
(* computes over any finite set.  Its recursive definition is unfolded     *)
(* here once; the induction is over the subsets of the set, by a minimal   *)
(* counterexample.  Then the numbers that other proofs need.               *)
(***************************************************************************)
EXTENDS Integers, FiniteSets, Functions, FiniteSetTheorems, WellFoundedInduction, TLAPS

\* The element that the fold takes next.
Pick(s) == CHOOSE x \in s : TRUE

\* g sums f over the subsets of S, as the fold does.
IsSum(f, g, S) ==
    g = [s \in SUBSET S |-> IF s = {} THEN 0 ELSE f[Pick(s)] + g[s \ {Pick(s)}]]

\* A nonempty set of finite sets has a minimal one.
LEMMA SmallestSubset ==
    ASSUME NEW S, IsFiniteSet(S), NEW Bad \in SUBSET (SUBSET S), Bad # {}
    PROVE  \E T \in Bad : \A U \in SUBSET T : U \in Bad => U = T
<1>1. IsWellFoundedOn(StrictSubsetOrdering(S), SUBSET S)
  BY FS_StrictSubsetOrderingWellFounded, FS_FiniteSubsetsOfFinite
<1>2. PICK T \in Bad : \A U \in Bad : <<U, T>> \notin StrictSubsetOrdering(S)
  BY <1>1, WFMin
<1>3. ASSUME NEW U \in SUBSET T, U \in Bad PROVE U = T
  <2>1. U \in SUBSET S /\ T \in SUBSET S
    BY <1>2, <1>3
  <2>2. <<U, T>> \notin StrictSubsetOrdering(S)
    BY <1>2, <1>3
  <2> QED
    BY <2>1, <2>2, <1>3 DEF StrictSubsetOrdering
<1> QED
  BY <1>2, <1>3

\* The fold takes an element of the set.
LEMMA PickIn == ASSUME NEW s, s # {} PROVE Pick(s) \in s
BY DEF Pick

\* The recursive definition, unfolded once at any subset.
LEMMA SumValue ==
    ASSUME NEW f, NEW g, NEW S, IsSum(f, g, S), NEW s \in SUBSET S
    PROVE  g[s] = IF s = {} THEN 0 ELSE f[Pick(s)] + g[s \ {Pick(s)}]
<1> DEFINE h == [t \in SUBSET S |-> IF t = {} THEN 0 ELSE f[Pick(t)] + g[t \ {Pick(t)}]]
<1>1. g = h
  BY DEF IsSum
<1>2. h[s] = IF s = {} THEN 0 ELSE f[Pick(s)] + g[s \ {Pick(s)}]
  OBVIOUS
<1> HIDE DEF h
<1> QED
  BY <1>1, <1>2

\* Two functions that sum f agree where both do.
LEMMA SumUnique ==
    ASSUME NEW f, NEW g, NEW h, NEW U, NEW V, IsFiniteSet(V),
           IsSum(f, g, U), IsSum(f, h, V)
    PROVE  \A s \in SUBSET U : s \in SUBSET V => g[s] = h[s]
<1> DEFINE Bad == {s \in SUBSET V : s \in SUBSET U /\ g[s] # h[s]}
<1> SUFFICES ASSUME Bad # {} PROVE FALSE
  OBVIOUS
<1>0. Bad \in SUBSET (SUBSET V)
  OBVIOUS
<1> HIDE DEF Bad
<1>1. PICK T \in Bad : \A W \in SUBSET T : W \in Bad => W = T
  BY <1>0, SmallestSubset
<1>2. T \in SUBSET V /\ T \in SUBSET U /\ g[T] # h[T]
  BY <1>1 DEF Bad
<1>3. T # {}
  BY <1>2, SumValue
<1> DEFINE W == T \ {Pick(T)}
<1>4. W \in SUBSET T /\ W # T /\ W \in SUBSET V /\ W \in SUBSET U
  BY <1>2, <1>3, PickIn
<1>5. g[W] = h[W]
  BY <1>1, <1>4 DEF Bad
<1>6. g[T] = f[Pick(T)] + g[W]
  BY <1>2, <1>3, SumValue
<1>7. h[T] = f[Pick(T)] + h[W]
  BY <1>2, <1>3, SumValue
<1> QED
  BY <1>2, <1>5, <1>6, <1>7

\* The recursive definition of the fold defines a function.
LEMMA SumExists ==
    ASSUME NEW f, NEW S, IsFiniteSet(S)
    PROVE  \E g : IsSum(f, g, S)
<1> DEFINE Bad == {s \in SUBSET S : ~ \E g : IsSum(f, g, s)}
<1> SUFFICES ASSUME Bad # {} PROVE FALSE
  OBVIOUS
<1>0. Bad \in SUBSET (SUBSET S)
  OBVIOUS
<1> HIDE DEF Bad
<1>1. PICK T \in Bad : \A W \in SUBSET T : W \in Bad => W = T
  BY <1>0, SmallestSubset
<1> DEFINE G(s) == CHOOSE g : IsSum(f, g, s)
<1>2. T \in SUBSET S /\ ~ \E g : IsSum(f, g, T)
  BY <1>1 DEF Bad
<1>3. \A W \in SUBSET T : W # T => IsSum(f, G(W), W)
  BY <1>1, <1>2 DEF Bad
<1> DEFINE Rest(s) == s \ {Pick(s)}
<1> DEFINE h == [s \in SUBSET T |-> IF s = {} THEN 0 ELSE f[Pick(s)] + G(Rest(s))[Rest(s)]]
<1>4. \A s \in SUBSET T : s # {} => Rest(s) \in SUBSET T /\ Rest(s) # T /\ IsFiniteSet(Rest(s))
  BY <1>2, PickIn, FS_Subset
<1> HIDE DEF G
<1>5. ASSUME NEW s \in SUBSET T, s # {} PROVE h[Rest(s)] = G(Rest(s))[Rest(s)]
  <2> DEFINE u == Rest(s)
  <2>1. u \in SUBSET T /\ u # T /\ IsFiniteSet(u) /\ IsSum(f, G(u), u)
    BY <1>3, <1>4, <1>5
  <2> SUFFICES h[u] = G(u)[u]
    OBVIOUS
  <2> HIDE DEF u, Rest
  <2>2. CASE u = {}
    <3>1. G(u)[u] = 0
      BY <2>1, <2>2, SumValue
    <3> QED
      BY <2>1, <2>2, <3>1
  <2>3. CASE u # {}
    <3>1. G(u)[u] = f[Pick(u)] + G(u)[u \ {Pick(u)}]
      BY <2>1, <2>3, SumValue
    <3>2. h[u] = f[Pick(u)] + G(Rest(u))[Rest(u)]
      BY <2>1, <2>3
    <3>3. /\ Rest(u) \in SUBSET T /\ Rest(u) # T /\ Rest(u) \in SUBSET u
          /\ Rest(u) = u \ {Pick(u)}
      BY <1>4, <2>1, <2>3 DEF Rest
    <3>4. IsSum(f, G(Rest(u)), Rest(u))
      BY <1>3, <3>3
    <3>5. G(Rest(u))[Rest(u)] = G(u)[Rest(u)]
      BY <2>1, <3>3, <3>4, SumUnique
    <3> QED
      BY <3>1, <3>2, <3>3, <3>5
  <2> QED
    BY <2>2, <2>3
<1>6. IsSum(f, h, T)
  <2>1. \A s \in SUBSET T :
          h[s] = IF s = {} THEN 0 ELSE f[Pick(s)] + h[s \ {Pick(s)}]
    <3> SUFFICES ASSUME NEW s \in SUBSET T, s # {}
                 PROVE  h[s] = f[Pick(s)] + h[s \ {Pick(s)}]
      OBVIOUS
    <3>1. h[s] = f[Pick(s)] + G(Rest(s))[Rest(s)]
      OBVIOUS
    <3>2. h[Rest(s)] = G(Rest(s))[Rest(s)]
      BY <1>5
    <3> HIDE DEF h
    <3> QED
      BY <3>1, <3>2
  <2>2. h = [s \in SUBSET T |-> h[s]]
    OBVIOUS
  <2> HIDE DEF h
  <2> QED
    BY <2>1, <2>2 DEF IsSum
<1> HIDE DEF h
<1> QED
  BY <1>2, <1>6

\* SumFunctionOnSet is the value of such a function at the whole set.
LEMMA SumIs ==
    ASSUME NEW f, NEW S, IsFiniteSet(S)
    PROVE  \E g : IsSum(f, g, S) /\ SumFunctionOnSet(f, S) = g[S]
<1> DEFINE g == CHOOSE h : IsSum(f, h, S)
<1>1. IsSum(f, g, S)
  BY SumExists
<1>2. SumFunctionOnSet(f, S) = g[S]
  BY DEF SumFunctionOnSet, FoldFunctionOnSet, MapThenFoldSet, IsSum, Pick
<1> QED
  BY <1>1, <1>2

-----------------------------------------------------------------------------
(***************************************************************************)
(* What the ledger proofs use.                                             *)
(***************************************************************************)

\* The sum over no account.
LEMMA SumEmpty == ASSUME NEW f PROVE SumFunctionOnSet(f, {}) = 0
<1>1. PICK g : IsSum(f, g, {}) /\ SumFunctionOnSet(f, {}) = g[{}]
  BY FS_EmptySet, SumIs
<1>2. {} \in SUBSET {}
  OBVIOUS
<1> QED
  BY <1>1, <1>2, SumValue

\* The sum takes out the element that the fold picks.
LEMMA SumPick ==
    ASSUME NEW f, NEW S, IsFiniteSet(S), S # {}
    PROVE  SumFunctionOnSet(f, S) = f[Pick(S)] + SumFunctionOnSet(f, S \ {Pick(S)})
<1> DEFINE R == S \ {Pick(S)}
<1>1. PICK g : IsSum(f, g, S) /\ SumFunctionOnSet(f, S) = g[S]
  BY SumIs
<1>2. IsFiniteSet(R) /\ R \in SUBSET S
  BY FS_Subset
<1> HIDE DEF R
<1>3. PICK h : IsSum(f, h, R) /\ SumFunctionOnSet(f, R) = h[R]
  BY <1>2, SumIs
<1>4. h[R] = g[R]
  BY <1>1, <1>2, <1>3, SumUnique
<1>5. g[S] = f[Pick(S)] + g[R]
  BY <1>1, SumValue DEF R
<1> QED
  BY <1>1, <1>3, <1>4, <1>5 DEF R

\* A sum of integers is an integer.
LEMMA SumInt ==
    ASSUME NEW f, NEW S, IsFiniteSet(S), \A x \in S : f[x] \in Int
    PROVE  SumFunctionOnSet(f, S) \in Int
<1> DEFINE Bad == {s \in SUBSET S : SumFunctionOnSet(f, s) \notin Int}
<1> SUFFICES ASSUME Bad # {} PROVE FALSE
  OBVIOUS
<1>1. Bad \in SUBSET (SUBSET S)
  OBVIOUS
<1> HIDE DEF Bad
<1>2. PICK T \in Bad : \A W \in SUBSET T : W \in Bad => W = T
  BY <1>1, SmallestSubset
<1>3. T \in SUBSET S /\ SumFunctionOnSet(f, T) \notin Int /\ IsFiniteSet(T)
  BY <1>2, FS_Subset DEF Bad
<1>4. T # {}
  BY <1>3, SumEmpty
<1> DEFINE W == T \ {Pick(T)}
<1>5. W \in SUBSET T /\ W # T /\ Pick(T) \in T
  BY <1>4, PickIn
<1>6. SumFunctionOnSet(f, W) \in Int
  BY <1>2, <1>3, <1>5 DEF Bad
<1>7. SumFunctionOnSet(f, T) = f[Pick(T)] + SumFunctionOnSet(f, W)
  BY <1>3, <1>4, SumPick
<1> QED
  BY <1>3, <1>5, <1>6, <1>7

\* Any element may be taken out first.
LEMMA SumTake ==
    ASSUME NEW f, NEW S, IsFiniteSet(S), \A x \in S : f[x] \in Int, NEW e \in S
    PROVE  SumFunctionOnSet(f, S) = f[e] + SumFunctionOnSet(f, S \ {e})
<1> DEFINE Good(s) == \A x \in s : SumFunctionOnSet(f, s) = f[x] + SumFunctionOnSet(f, s \ {x})
<1> DEFINE Bad == {s \in SUBSET S : ~Good(s)}
<1> SUFFICES ASSUME Bad # {} PROVE FALSE
  OBVIOUS
<1>1. Bad \in SUBSET (SUBSET S)
  OBVIOUS
<1> HIDE DEF Bad
<1>2. PICK T \in Bad : \A W \in SUBSET T : W \in Bad => W = T
  BY <1>1, SmallestSubset
<1>3. T \in SUBSET S /\ ~Good(T) /\ IsFiniteSet(T)
  BY <1>2, FS_Subset DEF Bad
<1>4. PICK x \in T : SumFunctionOnSet(f, T) # f[x] + SumFunctionOnSet(f, T \ {x})
  BY <1>3
<1> DEFINE p == Pick(T)
<1>5. p \in T
  BY <1>4, PickIn
<1>6. SumFunctionOnSet(f, T) = f[p] + SumFunctionOnSet(f, T \ {p})
  BY <1>3, <1>4, SumPick
<1> HIDE DEF p
<1>7. x # p
  BY <1>4, <1>6
<1> DEFINE both == (T \ {p}) \ {x}
<1>8. (T \ {x}) \ {p} = both /\ both \in SUBSET S
  BY <1>3
<1>9. T \ {p} \in SUBSET T /\ T \ {p} # T /\ T \ {x} \in SUBSET T /\ T \ {x} # T
  BY <1>4, <1>5
<1>10. Good(T \ {p}) /\ Good(T \ {x})
  BY <1>2, <1>3, <1>9 DEF Bad
<1>11. SumFunctionOnSet(f, T \ {p}) = f[x] + SumFunctionOnSet(f, both)
  BY <1>4, <1>7, <1>10
<1>12. SumFunctionOnSet(f, T \ {x}) = f[p] + SumFunctionOnSet(f, both)
  BY <1>5, <1>7, <1>8, <1>10
<1>13. f[x] \in Int /\ f[p] \in Int
  BY <1>3, <1>4, <1>5
<1>14. SumFunctionOnSet(f, both) \in Int
  <2>1. IsFiniteSet(both) /\ \A y \in both : f[y] \in Int
    BY <1>8, FS_Subset
  <2> QED
    BY <2>1, SumInt
<1> HIDE DEF both, Good
<1> QED
  BY <1>4, <1>6, <1>11, <1>12, <1>13, <1>14

\* Functions that agree on the accounts have the same sum.
LEMMA SumSame ==
    ASSUME NEW f, NEW g, NEW S, IsFiniteSet(S), \A x \in S : f[x] = g[x]
    PROVE  SumFunctionOnSet(f, S) = SumFunctionOnSet(g, S)
<1> DEFINE Bad == {s \in SUBSET S : SumFunctionOnSet(f, s) # SumFunctionOnSet(g, s)}
<1> SUFFICES ASSUME Bad # {} PROVE FALSE
  OBVIOUS
<1>1. Bad \in SUBSET (SUBSET S)
  OBVIOUS
<1> HIDE DEF Bad
<1>2. PICK T \in Bad : \A W \in SUBSET T : W \in Bad => W = T
  BY <1>1, SmallestSubset
<1>3. T \in SUBSET S /\ SumFunctionOnSet(f, T) # SumFunctionOnSet(g, T) /\ IsFiniteSet(T)
  BY <1>2, FS_Subset DEF Bad
<1>4. T # {}
  BY <1>3, SumEmpty
<1> DEFINE W == T \ {Pick(T)}
<1>5. W \in SUBSET T /\ W # T /\ Pick(T) \in T
  BY <1>4, PickIn
<1>6. SumFunctionOnSet(f, W) = SumFunctionOnSet(g, W)
  BY <1>2, <1>3, <1>5 DEF Bad
<1>7. SumFunctionOnSet(f, T) = f[Pick(T)] + SumFunctionOnSet(f, W)
  BY <1>3, <1>4, SumPick
<1>8. SumFunctionOnSet(g, T) = g[Pick(T)] + SumFunctionOnSet(g, W)
  BY <1>3, <1>4, SumPick
<1> QED
  BY <1>3, <1>5, <1>6, <1>7, <1>8

\* One account changes.
LEMMA SumChange ==
    ASSUME NEW f, NEW g, NEW S, IsFiniteSet(S), NEW e \in S,
           \A x \in S : f[x] \in Int, g[e] \in Int, \A x \in S : x # e => g[x] = f[x]
    PROVE  SumFunctionOnSet(g, S) = SumFunctionOnSet(f, S) - f[e] + g[e]
<1> DEFINE R == S \ {e}
<1>1. IsFiniteSet(R) /\ (\A x \in R : f[x] = g[x]) /\ (\A x \in R : f[x] \in Int)
  BY FS_Subset
<1>2. SumFunctionOnSet(f, R) = SumFunctionOnSet(g, R)
  BY <1>1, SumSame
<1>3. SumFunctionOnSet(f, R) \in Int
  BY <1>1, SumInt
<1>4. SumFunctionOnSet(f, S) = f[e] + SumFunctionOnSet(f, R)
  BY SumTake
<1>5. \A x \in S : g[x] \in Int
  OBVIOUS
<1>6. SumFunctionOnSet(g, S) = g[e] + SumFunctionOnSet(g, R)
  BY <1>5, SumTake
<1> HIDE DEF R
<1> QED
  BY <1>2, <1>3, <1>4, <1>6

\* One account is added.
LEMMA SumAdd ==
    ASSUME NEW f, NEW S, IsFiniteSet(S), NEW e, e \notin S,
           \A x \in S \union {e} : f[x] \in Int
    PROVE  SumFunctionOnSet(f, S \union {e}) = SumFunctionOnSet(f, S) + f[e]
<1> DEFINE U == S \union {e}
<1>1. IsFiniteSet(U)
  BY FS_AddElement
<1>2. U \ {e} = S /\ e \in U
  OBVIOUS
<1>3. SumFunctionOnSet(f, S) \in Int
  BY SumInt
<1>4. SumFunctionOnSet(f, U) = f[e] + SumFunctionOnSet(f, U \ {e})
  BY <1>1, <1>2, SumTake
<1>5. f[e] \in Int /\ U = S \union {e}
  OBVIOUS
<1> HIDE DEF U
<1>6. SumFunctionOnSet(f, U) = f[e] + SumFunctionOnSet(f, S)
  BY <1>2, <1>4, Zenon
<1>7. SumFunctionOnSet(f, U) = SumFunctionOnSet(f, S) + f[e]
  BY <1>3, <1>5, <1>6
<1> QED
  BY <1>5, <1>7, Zenon

\* Accounts that are all zero sum to zero.
LEMMA SumZero ==
    ASSUME NEW f, NEW S, IsFiniteSet(S), \A x \in S : f[x] = 0
    PROVE  SumFunctionOnSet(f, S) = 0
<1> DEFINE Bad == {s \in SUBSET S : SumFunctionOnSet(f, s) # 0}
<1> SUFFICES ASSUME Bad # {} PROVE FALSE
  OBVIOUS
<1>1. Bad \in SUBSET (SUBSET S)
  OBVIOUS
<1> HIDE DEF Bad
<1>2. PICK T \in Bad : \A W \in SUBSET T : W \in Bad => W = T
  BY <1>1, SmallestSubset
<1>3. T \in SUBSET S /\ SumFunctionOnSet(f, T) # 0 /\ IsFiniteSet(T)
  BY <1>2, FS_Subset DEF Bad
<1>4. T # {}
  BY <1>3, SumEmpty
<1> DEFINE W == T \ {Pick(T)}
<1>5. W \in SUBSET T /\ W # T /\ Pick(T) \in T
  BY <1>4, PickIn
<1>6. SumFunctionOnSet(f, W) = 0
  BY <1>2, <1>3, <1>5 DEF Bad
<1>7. SumFunctionOnSet(f, T) = f[Pick(T)] + SumFunctionOnSet(f, W)
  BY <1>3, <1>4, SumPick
<1> QED
  BY <1>3, <1>5, <1>6, <1>7

\* A step that changes at most the account e changes the sum by e's change.
LEMMA SumStep ==
    ASSUME NEW f, NEW g, NEW S, IsFiniteSet(S), NEW e,
           \A x \in S : f[x] \in Int, \A x \in S : g[x] \in Int,
           \A x \in S : x # e => g[x] = f[x]
    PROVE  /\ SumFunctionOnSet(f, S) \in Int
           /\ SumFunctionOnSet(g, S) \in Int
           /\ e \in S => SumFunctionOnSet(g, S) = SumFunctionOnSet(f, S) - f[e] + g[e]
           /\ e \notin S => SumFunctionOnSet(g, S) = SumFunctionOnSet(f, S)
<1>1. SumFunctionOnSet(f, S) \in Int
  BY SumInt
<1>2. SumFunctionOnSet(g, S) \in Int
  BY SumInt
<1>3. ASSUME e \in S PROVE SumFunctionOnSet(g, S) = SumFunctionOnSet(f, S) - f[e] + g[e]
  BY <1>3, SumChange
<1>4. ASSUME e \notin S PROVE SumFunctionOnSet(g, S) = SumFunctionOnSet(f, S)
  <2>1. \A x \in S : f[x] = g[x]
    BY <1>4
  <2> QED
    BY <2>1, SumSame
<1> QED
  BY <1>1, <1>2, <1>3, <1>4

\* A sum of natural numbers is one.
LEMMA SumNat ==
    ASSUME NEW f, NEW S, IsFiniteSet(S), \A x \in S : f[x] \in Nat
    PROVE  SumFunctionOnSet(f, S) \in Nat
<1> DEFINE Bad == {s \in SUBSET S : SumFunctionOnSet(f, s) \notin Nat}
<1> SUFFICES ASSUME Bad # {} PROVE FALSE
  OBVIOUS
<1>1. Bad \in SUBSET (SUBSET S)
  OBVIOUS
<1> HIDE DEF Bad
<1>2. PICK T \in Bad : \A W \in SUBSET T : W \in Bad => W = T
  BY <1>1, SmallestSubset
<1>3. T \in SUBSET S /\ SumFunctionOnSet(f, T) \notin Nat /\ IsFiniteSet(T)
  BY <1>2, FS_Subset DEF Bad
<1>4. T # {}
  BY <1>3, SumEmpty
<1> DEFINE W == T \ {Pick(T)}
<1>5. W \in SUBSET T /\ W # T /\ Pick(T) \in T /\ f[Pick(T)] \in Nat
  BY <1>3, <1>4, PickIn
<1>6. SumFunctionOnSet(f, W) \in Nat
  BY <1>2, <1>3, <1>5 DEF Bad
<1>7. SumFunctionOnSet(f, T) = f[Pick(T)] + SumFunctionOnSet(f, W)
  BY <1>3, <1>4, SumPick
<1> QED
  BY <1>3, <1>5, <1>6, <1>7

\* A sum of sums.
LEMMA SumPlus ==
    ASSUME NEW f, NEW g, NEW h, NEW S, IsFiniteSet(S),
           \A x \in S : f[x] \in Int /\ g[x] \in Int /\ h[x] = f[x] + g[x]
    PROVE  SumFunctionOnSet(h, S) = SumFunctionOnSet(f, S) + SumFunctionOnSet(g, S)
<1> DEFINE Same(s) == SumFunctionOnSet(h, s) = SumFunctionOnSet(f, s) + SumFunctionOnSet(g, s)
<1> DEFINE Bad == {s \in SUBSET S : ~Same(s)}
<1> SUFFICES ASSUME Bad # {} PROVE FALSE
  OBVIOUS
<1>1. Bad \in SUBSET (SUBSET S)
  OBVIOUS
<1> HIDE DEF Bad
<1>2. PICK T \in Bad : \A W \in SUBSET T : W \in Bad => W = T
  BY <1>1, SmallestSubset
<1>3. T \in SUBSET S /\ ~Same(T) /\ IsFiniteSet(T)
  BY <1>2, FS_Subset DEF Bad
<1>4. T # {}
  BY <1>3, SumEmpty
<1> DEFINE W == T \ {Pick(T)}
<1>5. W \in SUBSET T /\ W # T /\ Pick(T) \in T /\ Pick(T) \in S
  BY <1>3, <1>4, PickIn
<1>6. Same(W)
  BY <1>2, <1>3, <1>5 DEF Bad
<1>7. /\ SumFunctionOnSet(f, T) = f[Pick(T)] + SumFunctionOnSet(f, W)
      /\ SumFunctionOnSet(g, T) = g[Pick(T)] + SumFunctionOnSet(g, W)
      /\ SumFunctionOnSet(h, T) = h[Pick(T)] + SumFunctionOnSet(h, W)
  BY <1>3, <1>4, SumPick
<1>8. SumFunctionOnSet(f, W) \in Int /\ SumFunctionOnSet(g, W) \in Int
  BY <1>3, <1>5, FS_Subset, SumInt
<1> QED
  BY <1>3, <1>5, <1>6, <1>7, <1>8

\* A sum of multiples.
LEMMA SumTimes ==
    ASSUME NEW c \in Int, NEW f, NEW h, NEW S, IsFiniteSet(S),
           \A x \in S : f[x] \in Int /\ h[x] = c * f[x]
    PROVE  SumFunctionOnSet(h, S) = c * SumFunctionOnSet(f, S)
<1> DEFINE Same(s) == SumFunctionOnSet(h, s) = c * SumFunctionOnSet(f, s)
<1> DEFINE Bad == {s \in SUBSET S : ~Same(s)}
<1> SUFFICES ASSUME Bad # {} PROVE FALSE
  OBVIOUS
<1>1. Bad \in SUBSET (SUBSET S)
  OBVIOUS
<1> HIDE DEF Bad
<1>2. PICK T \in Bad : \A W \in SUBSET T : W \in Bad => W = T
  BY <1>1, SmallestSubset
<1>3. T \in SUBSET S /\ ~Same(T) /\ IsFiniteSet(T)
  BY <1>2, FS_Subset DEF Bad
<1>4. T # {}
  <2>1. Same({})
    BY SumEmpty
  <2> QED
    BY <1>3, <2>1
<1> DEFINE W == T \ {Pick(T)}
<1>5. W \in SUBSET T /\ W # T /\ Pick(T) \in T /\ Pick(T) \in S
  BY <1>3, <1>4, PickIn
<1>6. Same(W)
  BY <1>2, <1>3, <1>5 DEF Bad
<1>7. /\ SumFunctionOnSet(f, T) = f[Pick(T)] + SumFunctionOnSet(f, W)
      /\ SumFunctionOnSet(h, T) = h[Pick(T)] + SumFunctionOnSet(h, W)
  BY <1>3, <1>4, SumPick
<1>8. SumFunctionOnSet(f, W) \in Int
  BY <1>3, <1>5, FS_Subset, SumInt
<1>9. \A a, b \in Int : c * (a + b) = c * a + c * b
  OBVIOUS
<1>10. c * SumFunctionOnSet(f, T) = c * f[Pick(T)] + c * SumFunctionOnSet(f, W)
  BY <1>5, <1>7, <1>8, <1>9
<1> QED
  BY <1>3, <1>5, <1>6, <1>7, <1>10

\* A sum over a set is the sum over the part where the summand is not zero.
LEMMA SumSupport ==
    ASSUME NEW f, NEW S, IsFiniteSet(S), NEW U \in SUBSET S,
           \A x \in S : f[x] \in Int, \A x \in S \ U : f[x] = 0
    PROVE  SumFunctionOnSet(f, S) = SumFunctionOnSet(f, U)
<1> DEFINE Same(s) == SumFunctionOnSet(f, s) = SumFunctionOnSet(f, s \intersect U)
<1> DEFINE Bad == {s \in SUBSET S : ~Same(s)}
<1> SUFFICES ASSUME Bad # {} PROVE FALSE
  <2>1. S \in SUBSET S /\ S \intersect U = U
    OBVIOUS
  <2>2. Same(S)
    BY <2>1
  <2> QED
    BY <2>1, <2>2
<1>1. Bad \in SUBSET (SUBSET S)
  OBVIOUS
<1> HIDE DEF Bad
<1>2. PICK T \in Bad : \A W \in SUBSET T : W \in Bad => W = T
  BY <1>1, SmallestSubset
<1>3. T \in SUBSET S /\ ~Same(T) /\ IsFiniteSet(T)
  BY <1>2, FS_Subset DEF Bad
<1>4. T # {}
  <2>1. {} \intersect U = {}
    OBVIOUS
  <2> QED
    BY <1>3, <2>1, SumEmpty
<1> DEFINE e == Pick(T)
<1> DEFINE W == T \ {e}
<1>5. W \in SUBSET T /\ W # T /\ e \in T /\ e \in S
  BY <1>3, <1>4, PickIn
<1>6. Same(W) /\ IsFiniteSet(W)
  BY <1>2, <1>3, <1>5, FS_Subset DEF Bad
<1>7. SumFunctionOnSet(f, T) = f[e] + SumFunctionOnSet(f, W)
  BY <1>3, <1>4, SumPick
<1>8. SumFunctionOnSet(f, W) \in Int
  BY <1>3, <1>5, <1>6, SumInt
<1> HIDE DEF e
<1>9. CASE e \in U
  <2>1. T \intersect U = (W \intersect U) \union {e} /\ e \notin W \intersect U
    BY <1>5, <1>9
  <2>2. IsFiniteSet(W \intersect U) /\ \A x \in (W \intersect U) \union {e} : f[x] \in Int
    BY <1>3, <1>5, <1>6, FS_Subset
  <2>3. SumFunctionOnSet(f, T \intersect U) = SumFunctionOnSet(f, W \intersect U) + f[e]
    BY <2>1, <2>2, SumAdd
  <2> QED
    BY <1>3, <1>5, <1>6, <1>7, <1>8, <2>3
<1>10. CASE e \notin U
  <2>1. T \intersect U = W \intersect U
    BY <1>5, <1>10
  <2>2. SumFunctionOnSet(f, T \intersect U) = SumFunctionOnSet(f, W \intersect U)
    BY <2>1, Zenon
  <2>3. f[e] = 0
    BY <1>5, <1>10
  <2> QED
    BY <1>3, <1>6, <1>7, <1>8, <2>2, <2>3
<1> QED
  BY <1>9, <1>10

\* No sum of bounded numbers exceeds the bound for each.
LEMMA SumBound ==
    ASSUME NEW c \in Int, NEW f, NEW S, IsFiniteSet(S), \A x \in S : f[x] \in Int /\ f[x] <= c
    PROVE  SumFunctionOnSet(f, S) <= c * Cardinality(S)
<1> DEFINE Good(s) == SumFunctionOnSet(f, s) <= c * Cardinality(s)
<1> DEFINE Bad == {s \in SUBSET S : ~Good(s)}
<1> SUFFICES ASSUME Bad # {} PROVE FALSE
  OBVIOUS
<1>1. Bad \in SUBSET (SUBSET S)
  OBVIOUS
<1> HIDE DEF Bad
<1>2. PICK T \in Bad : \A W \in SUBSET T : W \in Bad => W = T
  BY <1>1, SmallestSubset
<1>3. T \in SUBSET S /\ ~Good(T) /\ IsFiniteSet(T)
  BY <1>2, FS_Subset DEF Bad
<1>4. T # {}
  <2>1. Good({})
    BY SumEmpty, FS_EmptySet
  <2> QED
    BY <1>3, <2>1
<1> DEFINE W == T \ {Pick(T)}
<1>5. W \in SUBSET T /\ W # T /\ Pick(T) \in T /\ Pick(T) \in S /\ IsFiniteSet(W)
  BY <1>3, <1>4, PickIn, FS_Subset
<1>6. Good(W)
  BY <1>2, <1>3, <1>5 DEF Bad
<1>7. SumFunctionOnSet(f, T) = f[Pick(T)] + SumFunctionOnSet(f, W)
  BY <1>3, <1>4, SumPick
<1>8. SumFunctionOnSet(f, W) \in Int
  BY <1>3, <1>5, SumInt
<1>9. Cardinality(W) \in Nat /\ Cardinality(T) = Cardinality(W) + 1
  BY <1>3, <1>5, FS_RemoveElement, FS_CardinalityType
<1>10. c * Cardinality(T) = c * Cardinality(W) + c
  <2>1. \A n \in Nat : c * (n + 1) = c * n + c
    OBVIOUS
  <2> QED
    BY <1>9, <2>1
<1>11. c * Cardinality(W) \in Int
  BY <1>9
<1> QED
  BY <1>3, <1>5, <1>6, <1>7, <1>8, <1>10, <1>11

\* Counting is adding ones.
LEMMA SumCount ==
    ASSUME NEW f, NEW S, IsFiniteSet(S), NEW U \in SUBSET S,
           \A x \in S : f[x] = IF x \in U THEN 1 ELSE 0
    PROVE  SumFunctionOnSet(f, S) = Cardinality(U)
<1> DEFINE Good(s) == SumFunctionOnSet(f, s) = Cardinality(s)
<1> DEFINE Bad == {s \in SUBSET U : ~Good(s)}
<1>0. IsFiniteSet(U)
  BY FS_Subset
<1> SUFFICES ASSUME Bad # {} PROVE FALSE
  <2>1. SumFunctionOnSet(f, S) = SumFunctionOnSet(f, U)
    BY SumSupport
  <2>2. U \in SUBSET U
    OBVIOUS
  <2> QED
    BY <2>1, <2>2
<1>1. Bad \in SUBSET (SUBSET U)
  OBVIOUS
<1> HIDE DEF Bad
<1>2. PICK T \in Bad : \A W \in SUBSET T : W \in Bad => W = T
  BY <1>0, <1>1, SmallestSubset
<1>3. T \in SUBSET U /\ ~Good(T) /\ IsFiniteSet(T)
  BY <1>0, <1>2, FS_Subset DEF Bad
<1>4. T # {}
  BY <1>3, SumEmpty, FS_EmptySet
<1> DEFINE W == T \ {Pick(T)}
<1>5. W \in SUBSET T /\ W # T /\ Pick(T) \in T /\ f[Pick(T)] = 1
  BY <1>3, <1>4, PickIn
<1>6. Good(W)
  BY <1>2, <1>3, <1>5 DEF Bad
<1>7. SumFunctionOnSet(f, T) = f[Pick(T)] + SumFunctionOnSet(f, W)
  BY <1>3, <1>4, SumPick
<1>8. Cardinality(W) \in Nat /\ Cardinality(T) = Cardinality(W) + 1
  BY <1>3, <1>5, FS_RemoveElement, FS_CardinalityType, FS_Subset
<1> QED
  BY <1>3, <1>5, <1>6, <1>7, <1>8

\* An element leaves the sum.
LEMMA SumDrop ==
    ASSUME NEW f, NEW S, IsFiniteSet(S), \A x \in S : f[x] \in Int, NEW e \in S
    PROVE  /\ SumFunctionOnSet(f, S \ {e}) = SumFunctionOnSet(f, S) - f[e]
           /\ IsFiniteSet(S \ {e})
<1>1. IsFiniteSet(S \ {e}) /\ \A x \in S \ {e} : f[x] \in Int
  BY FS_Subset
<1>2. SumFunctionOnSet(f, S \ {e}) \in Int
  BY <1>1, SumInt
<1> QED
  BY <1>1, <1>2, SumTake

-----------------------------------------------------------------------------
(***************************************************************************)
(* Numbers: division, and the ends of a finite set.                        *)
(***************************************************************************)

\* Division with remainder.
LEMMA Division ==
    ASSUME NEW a \in Nat, NEW b \in Nat \ {0}
    PROVE  /\ a \div b \in Nat /\ a % b \in 0..(b - 1)
           /\ a = b * (a \div b) + (a % b)
<1>1. a % b \in 0..(b - 1)
  OBVIOUS
<1>2. a \div b \in Int
  OBVIOUS
<1>3. a \div b >= 0
  OBVIOUS
<1>4. a = b * (a \div b) + (a % b)
  OBVIOUS
<1> QED
  BY <1>1, <1>2, <1>3, <1>4

\* A larger factor gives no smaller product.
LEMMA Larger ==
    ASSUME NEW c \in Nat, NEW a \in Int, NEW b \in Int, a <= b
    PROVE  c * a <= c * b
OBVIOUS

\* Division keeps the order.
LEMMA DivisionGrows ==
    ASSUME NEW a \in Nat, NEW b \in Nat, NEW d \in Nat \ {0}, a <= b
    PROVE  a \div d <= b \div d
<1>1. /\ a \div d \in Nat /\ a % d \in 0..(d - 1) /\ a = d * (a \div d) + (a % d)
      /\ b \div d \in Nat /\ b % d \in 0..(d - 1) /\ b = d * (b \div d) + (b % d)
  BY Division
<1> SUFFICES ASSUME (b \div d) + 1 <= a \div d PROVE FALSE
  BY <1>1
<1>2. d * ((b \div d) + 1) <= d * (a \div d)
  BY <1>1, Larger
<1>3. d * ((b \div d) + 1) = d * (b \div d) + d
  BY <1>1
<1>4. d * (b \div d) \in Nat /\ d * (a \div d) \in Nat
  BY <1>1
<1> QED
  BY <1>1, <1>2, <1>3, <1>4

\* A finite set of integers has a greatest element.
LEMMA GreatestOne ==
    ASSUME NEW S, IsFiniteSet(S), \A x \in S : x \in Int
    PROVE  S # {} => \E x \in S : \A y \in S : x >= y
<1> DEFINE Has(s) == \E x \in s : \A y \in s : x >= y
<1> DEFINE Bad == {s \in SUBSET S : s # {} /\ ~Has(s)}
<1> SUFFICES ASSUME Bad # {} PROVE FALSE
  OBVIOUS
<1>1. Bad \in SUBSET (SUBSET S)
  OBVIOUS
<1> HIDE DEF Bad
<1>2. PICK T \in Bad : \A U \in SUBSET T : U \in Bad => U = T
  BY <1>1, SmallestSubset
<1>3. T \in SUBSET S /\ T # {} /\ ~Has(T)
  BY <1>2 DEF Bad
<1>4. PICK e \in T : TRUE
  BY <1>3
<1> DEFINE W == T \ {e}
<1>5. CASE W = {}
  <2>1. \A y \in T : e >= y
    BY <1>3, <1>4, <1>5
  <2> QED
    BY <1>3, <2>1
<1>6. CASE W # {}
  <2>1. W \in SUBSET S /\ W \notin Bad
    BY <1>2, <1>3
  <2>2. PICK x \in W : \A y \in W : x >= y
    BY <1>6, <2>1, Zenon DEF Bad
  <2>3. x \in Int /\ e \in Int /\ x \in T /\ \A y \in T : y \in Int
    BY <1>3, <1>4
  <2>4. CASE e >= x
    <3>1. \A y \in T : e >= y
      BY <2>2, <2>3, <2>4
    <3> QED
      BY <1>3, <3>1
  <2>5. CASE x >= e
    <3>1. \A y \in T : x >= y
      BY <2>2, <2>3, <2>5
    <3> QED
      BY <1>3, <2>3, <3>1
  <2> QED
    BY <2>3, <2>4, <2>5
<1> QED
  BY <1>5, <1>6

\* And a least one.
LEMMA LeastOne ==
    ASSUME NEW S, IsFiniteSet(S), S # {}, \A x \in S : x \in Int
    PROVE  \E x \in S : \A y \in S : x <= y
<1> DEFINE N == {0 - y : y \in S}
<1>1. N # {} /\ \A x \in N : x \in Int
  OBVIOUS
<1>2. IsFiniteSet(N)
  <2> DEFINE f == [y \in S |-> 0 - y]
  <2>1. f \in Surjection(S, N)
    BY DEF Surjection
  <2> QED
    BY <2>1, FS_Surjection
<1>3. PICK z \in N : \A y \in N : z >= y
  <2> HIDE DEF N
  <2> QED
    BY <1>1, <1>2, GreatestOne
<1>4. PICK x \in S : z = 0 - x
  OBVIOUS
<1>5. \A y \in S : 0 - y \in N
  OBVIOUS
<1>6. \A y \in S : x <= y
  BY <1>3, <1>4, <1>5
<1> QED
  BY <1>6
=============================================================================
