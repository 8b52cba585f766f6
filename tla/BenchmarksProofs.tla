-------------------------- MODULE BenchmarksProofs --------------------------
(***************************************************************************)
(* Theorems about Benchmarks, for every set of members and reservations,   *)
(* every amount, fee limit and multiplier.                                 *)
(***************************************************************************)
EXTENDS Benchmarks, Sums

\* The collateral that money.collateral computes is a number of token units.
LEMMA CollateralType ==
    ASSUME NEW base \in Nat, NEW mu \in 0..Scale
    PROVE  Collateral(base, mu) \in Nat
<1> DEFINE x == base * mu + Scale - 1
<1>1. Scale \in Nat /\ Scale > 0
  BY MultiplierAssumption
<1>2. base * mu \in Nat
  OBVIOUS
<1>3. x \in Nat
  BY <1>1, <1>2
<1> HIDE DEF x
<1>4. x \div Scale \in Nat
  BY <1>1, <1>3, SMT
<1> QED
  BY <1>4 DEF Collateral, x

\* The initial state is well typed.
LEMMA InitType == Init => TypeOK
<1> SUFFICES ASSUME Init PROVE TypeOK
  OBVIOUS
<1>1. /\ state \in [Reservations -> States]
      /\ outcome \in [Reservations -> {"none", "returned", "forfeited"}]
      /\ benchmark \in [Reservations -> BenchmarkIds \union {NoBenchmark}]
  BY DEF Init, States
<1>2. /\ slotHeld \in [Reservations -> BOOLEAN]
      /\ handed \in [Reservations -> BOOLEAN]
      /\ offerExpired \in [Reservations -> BOOLEAN]
      /\ work \in [Reservations -> BOOLEAN]
      /\ paused \in BOOLEAN
  BY DEF Init
<1>3. /\ amount \in [Reservations -> Nat]
      /\ feeActual \in [Reservations -> Nat \union {NoFee}]
      /\ held \in [Reservations -> Nat]
      /\ committed \in [Reservations -> Nat]
      /\ protocolSpent \in Nat
      /\ pot \in [Rounds -> Nat]
  BY DEF Init
<1>4. /\ available \in [Members -> Nat]
      /\ operatorFees \in Nat
      /\ multiplier \in [Members -> Multipliers]
  BY MoneyAssumption, MultiplierAssumption DEF Init
<1> QED
  BY <1>1, <1>2, <1>3, <1>4 DEF TypeOK

\* Every transaction keeps the types; no pool account goes below zero.
LEMMA NextType == TypeOK /\ [Next]_vars => TypeOK'
<1> SUFFICES ASSUME TypeOK, [Next]_vars PROVE TypeOK'
  OBVIOUS
<1> USE MembersAssumption, MoneyAssumption, MultiplierAssumption
<1>1. ASSUME NEW r \in Reservations, Reserve(r) PROVE TypeOK'
  <2> DEFINE c == Collateral(Base[r], multiplier[MemberOf[r]])
  <2>1. c \in Nat
    BY CollateralType DEF TypeOK
  <2> HIDE DEF c
  <2>2. available' \in [Members -> Nat] /\ held' \in [Reservations -> Nat] /\ amount' \in [Reservations -> Nat]
    BY <1>1, <2>1 DEF TypeOK, Reserve, Covers, c
  <2>3. operatorFees' \in Nat /\ committed' \in [Reservations -> Nat]
    BY <1>1 DEF TypeOK, Reserve, Covers
  <2> QED
    BY <1>1, <2>2, <2>3 DEF TypeOK, Reserve, States, Occupying, factVars
<1>2. ASSUME NEW r \in Reservations, MarkSubmitting(r) PROVE TypeOK'
  BY <1>2 DEF TypeOK, MarkSubmitting, States, Occupying, ledgerVars, factVars
<1>3. ASSUME NEW r \in Reservations, NEW b \in BenchmarkIds, NEW actual \in 0..FeeLimit[r],
             Accept(r, b, actual)
      PROVE  TypeOK'
  BY <1>3 DEF TypeOK, Accept, Fees, Covers, States, Occupying, factVars
<1>4. ASSUME NEW r \in Reservations, Cancel(r) PROVE TypeOK'
  BY <1>4 DEF TypeOK, Cancel, Fees, ReturnCollateral, Covers, States, Released, factVars
<1>5. ASSUME NEW r \in Reservations, NEW actual \in 0..FeeLimit[r], Reject(r, actual) PROVE TypeOK'
  BY <1>5 DEF TypeOK, Reject, Fees, ReturnCollateral, Covers, States, Released, factVars
<1>6. ASSUME NEW r \in Reservations, ReleaseUnhanded(r) PROVE TypeOK'
  BY <1>6 DEF TypeOK, ReleaseUnhanded, ReturnCollateral, Covers, States, Released, factVars
<1>7. ASSUME NEW r \in Reservations, Acknowledge(r) PROVE TypeOK'
  BY <1>7 DEF TypeOK, Acknowledge, ledgerVars, factVars
<1>8. ASSUME NEW r \in Reservations, NEW s \in Definitive, RecordOutcome(r, s) PROVE TypeOK'
  BY <1>8 DEF TypeOK, RecordOutcome, States, ledgerVars, factVars
<1>9. ASSUME NEW r \in Reservations, NEW related \in SUBSET Results, FinalizeCollateral(r, related)
      PROVE  TypeOK'
  <2>1. CASE ReturnCollateral(r)
    BY <1>9, <2>1 DEF TypeOK, FinalizeCollateral, ReturnCollateral, Covers, factVars
  <2>2. CASE ForfeitCollateral(r)
    BY <1>9, <2>2 DEF TypeOK, FinalizeCollateral, ForfeitCollateral, Covers, factVars
  <2> QED
    BY <1>9, <2>1, <2>2 DEF FinalizeCollateral
<1>10. ASSUME NEW r \in Reservations, OfferExpires(r) \/ StoreWork(r) PROVE TypeOK'
  BY <1>10 DEF OfferExpires, StoreWork, TypeOK, rowVars, ledgerVars
<1>11. ASSUME NEW value \in BOOLEAN, SetPause(value) PROVE TypeOK'
  BY <1>11 DEF SetPause, TypeOK, rowVars, ledgerVars
<1>12. ASSUME NEW m \in Members, NEW mu \in Multipliers, SetMultiplier(m, mu) PROVE TypeOK'
  BY <1>12 DEF SetMultiplier, TypeOK, rowVars, ledgerVars
<1>13. CASE UNCHANGED vars
  BY <1>13 DEF TypeOK, vars, rowVars, ledgerVars, factVars
<1> QED
  BY <1>1, <1>2, <1>3, <1>4, <1>5, <1>6, <1>7, <1>8, <1>9, <1>10, <1>11, <1>12, <1>13
  DEF Next, Submission, Completion, Facts

\* Types, for every instance: balances of the pool are never negative.
THEOREM TypeCorrect == Spec => []TypeOK
<1>1. Init => TypeOK
  BY InitType
<1>2. TypeOK /\ [Next]_vars => TypeOK'
  BY NextType
<1> QED
  BY <1>1, <1>2, PTL DEF Spec

-----------------------------------------------------------------------------
(***************************************************************************)
(* The row invariant.                                                      *)
(***************************************************************************)

\* A row that a step leaves alone stays consistent.
LEMMA OtherRow ==
    ASSUME NEW q \in Reservations, RowConsistent(q),
           state'[q] = state[q], slotHeld'[q] = slotHeld[q], outcome'[q] = outcome[q],
           amount'[q] = amount[q], feeActual'[q] = feeActual[q],
           benchmark'[q] = benchmark[q], handed'[q] = handed[q], work'[q] = work[q],
           held'[q] = held[q], committed'[q] = committed[q]
    PROVE  RowConsistent(q)'
  BY DEF RowConsistent

\* Every transaction keeps the rows consistent: only the row it is about moves.
LEMMA NextLifecycle == TypeOK /\ Lifecycle /\ [Next]_vars => Lifecycle'
<1> SUFFICES ASSUME TypeOK, Lifecycle, [Next]_vars, NEW q \in Reservations
             PROVE  RowConsistent(q)'
  BY DEF Lifecycle
<1>0. RowConsistent(q)
  BY DEF Lifecycle
<1> USE MembersAssumption, MoneyAssumption
<1>1. ASSUME NEW r \in Reservations, Reserve(r)
      PROVE  RowConsistent(q)'
  <2>1. CASE q = r
    BY <1>0, <1>1, <2>1 DEF TypeOK, RowConsistent, Reserve, factVars, Occupying, Released, Definitive, NoFee
  <2>2. CASE q # r
    BY <1>0, <1>1, <2>2, OtherRow DEF TypeOK, Reserve, factVars
  <2> QED
    BY <2>1, <2>2
<1>2. ASSUME NEW r \in Reservations, MarkSubmitting(r)
      PROVE  RowConsistent(q)'
  <2>1. CASE q = r
    BY <1>0, <1>2, <2>1 DEF TypeOK, RowConsistent, MarkSubmitting, ledgerVars, factVars, Occupying, Released, Definitive, NoFee
  <2>2. CASE q # r
    BY <1>0, <1>2, <2>2, OtherRow DEF TypeOK, MarkSubmitting, ledgerVars, factVars
  <2> QED
    BY <2>1, <2>2
<1>3. ASSUME NEW r \in Reservations, NEW b \in BenchmarkIds, NEW actual \in 0..FeeLimit[r],
             Accept(r, b, actual)
      PROVE  RowConsistent(q)'
  <2>1. CASE q = r
    BY <1>0, <1>3, <2>1 DEF TypeOK, RowConsistent, Accept, Fees, factVars, Occupying, Released, Definitive, NoFee
  <2>2. CASE q # r
    BY <1>0, <1>3, <2>2, OtherRow DEF TypeOK, Accept, Fees, factVars
  <2> QED
    BY <2>1, <2>2
<1>4. ASSUME NEW r \in Reservations, Cancel(r)
      PROVE  RowConsistent(q)'
  <2>1. CASE q = r
    BY <1>0, <1>4, <2>1 DEF TypeOK, RowConsistent, Cancel, Fees, ReturnCollateral, factVars, Occupying, Released, Definitive, NoFee
  <2>2. CASE q # r
    BY <1>0, <1>4, <2>2, OtherRow DEF TypeOK, Cancel, Fees, ReturnCollateral, factVars
  <2> QED
    BY <2>1, <2>2
<1>5. ASSUME NEW r \in Reservations, NEW actual \in 0..FeeLimit[r], Reject(r, actual)
      PROVE  RowConsistent(q)'
  <2>1. CASE q = r
    BY <1>0, <1>5, <2>1 DEF TypeOK, RowConsistent, Reject, Fees, ReturnCollateral, factVars, Occupying, Released, Definitive, NoFee
  <2>2. CASE q # r
    BY <1>0, <1>5, <2>2, OtherRow DEF TypeOK, Reject, Fees, ReturnCollateral, factVars
  <2> QED
    BY <2>1, <2>2
<1>6. ASSUME NEW r \in Reservations, ReleaseUnhanded(r)
      PROVE  RowConsistent(q)'
  <2>1. CASE q = r
    BY <1>0, <1>6, <2>1 DEF TypeOK, RowConsistent, ReleaseUnhanded, NotHanded, ReturnCollateral, factVars, Occupying, Released, Definitive, NoFee
  <2>2. CASE q # r
    BY <1>0, <1>6, <2>2, OtherRow DEF TypeOK, ReleaseUnhanded, NotHanded, ReturnCollateral, factVars
  <2> QED
    BY <2>1, <2>2
<1>7. ASSUME NEW r \in Reservations, Acknowledge(r)
      PROVE  RowConsistent(q)'
  <2>1. CASE q = r
    BY <1>0, <1>7, <2>1 DEF TypeOK, RowConsistent, Acknowledge, AwaitsHandover, ledgerVars, factVars, Occupying, Released, Definitive, NoFee
  <2>2. CASE q # r
    BY <1>0, <1>7, <2>2, OtherRow DEF TypeOK, Acknowledge, AwaitsHandover, ledgerVars, factVars
  <2> QED
    BY <2>1, <2>2
<1>8. ASSUME NEW r \in Reservations, NEW s \in Definitive, RecordOutcome(r, s)
      PROVE  RowConsistent(q)'
  <2>1. CASE q = r
    BY <1>0, <1>8, <2>1 DEF TypeOK, RowConsistent, RecordOutcome, ledgerVars, factVars, Occupying, Released, Definitive, NoFee
  <2>2. CASE q # r
    BY <1>0, <1>8, <2>2, OtherRow DEF TypeOK, RecordOutcome, ledgerVars, factVars
  <2> QED
    BY <2>1, <2>2
<1>9. ASSUME NEW r \in Reservations, NEW related \in SUBSET Results, FinalizeCollateral(r, related)
      PROVE  RowConsistent(q)'
  <2> USE DEF FinalizeCollateral, Undisposed, factVars
  <2>1. CASE q # r
    BY <1>0, <1>9, <2>1, OtherRow DEF TypeOK, ReturnCollateral, ForfeitCollateral
  <2>2. CASE q = r /\ ReturnCollateral(r)
    BY <1>0, <1>9, <2>2
    DEF TypeOK, RowConsistent, ReturnCollateral, Occupying, Released, Definitive
  <2>3. CASE q = r /\ Disposition(r, related) = "forfeited" /\ ForfeitCollateral(r)
    BY <1>0, <1>9, <2>3
    DEF TypeOK, RowConsistent, ForfeitCollateral, Disposition, Occupying, Released, Definitive
  <2> QED
    BY <1>9, <2>1, <2>2, <2>3
<1>10. ASSUME NEW r \in Reservations, OfferExpires(r) PROVE RowConsistent(q)'
  BY <1>0, <1>10, OtherRow DEF OfferExpires, rowVars, ledgerVars
<1>11. ASSUME NEW r \in Reservations, StoreWork(r) PROVE RowConsistent(q)'
  BY <1>0, <1>11 DEF TypeOK, RowConsistent, StoreWork, rowVars, ledgerVars
<1>12. ASSUME NEW value \in BOOLEAN, SetPause(value) PROVE RowConsistent(q)'
  BY <1>0, <1>12, OtherRow DEF SetPause, rowVars, ledgerVars
<1>13. ASSUME NEW m \in Members, NEW mu \in Multipliers, SetMultiplier(m, mu)
      PROVE  RowConsistent(q)'
  BY <1>0, <1>13, OtherRow DEF SetMultiplier, rowVars, ledgerVars
<1>14. CASE UNCHANGED vars
  BY <1>0, <1>14, OtherRow DEF vars, rowVars, ledgerVars, factVars
<1> QED
  BY <1>1, <1>2, <1>3, <1>4, <1>5, <1>6, <1>7, <1>8, <1>9, <1>10, <1>11, <1>12, <1>13, <1>14
  DEF Next, Submission, Completion, Facts

\* The row invariant holds from the start and is never lost.
THEOREM LifecycleCorrect == Spec => []Lifecycle
<1>1. Init => Lifecycle
  BY DEF Init, Lifecycle, RowConsistent, Occupying, Released, Definitive, NoFee
<1>2. TypeOK /\ Lifecycle /\ [Next]_vars => Lifecycle'
  BY NextLifecycle
<1> QED
  BY <1>1, <1>2, TypeCorrect, PTL DEF Spec

\* The collateral account holds the amount exactly until its one disposition,
\* the commitment the fee limit exactly until TIG's answer is known.
THEOREM HoldsMatch == Spec => []HoldMatchesLifecycle
<1>1. Lifecycle => HoldMatchesLifecycle
  BY DEF Lifecycle, RowConsistent, HoldMatchesLifecycle
<1> QED
  BY <1>1, LifecycleCorrect, PTL

\* Only a member who confirmed the handover can lose collateral, and whatever
\* was released as unstarted or unhanded is paid back.
THEOREM ForfeitsAreJustified == Spec => []ForfeitOnlyIfResponsible
<1>1. TypeOK /\ Lifecycle => ForfeitOnlyIfResponsible
  BY DEF TypeOK, Lifecycle, RowConsistent, ForfeitOnlyIfResponsible, States, Occupying, Released, Definitive
<1> QED
  BY <1>1, TypeCorrect, LifecycleCorrect, PTL

-----------------------------------------------------------------------------
(***************************************************************************)
(* Ownership and slots.                                                    *)
(***************************************************************************)

\* Only an acceptance names a benchmark, and it names one nobody owns.
LEMMA NextOwner == TypeOK /\ OneOwner /\ [Next]_vars => OneOwner'
<1> SUFFICES ASSUME TypeOK, OneOwner, [Next]_vars PROVE OneOwner'
  OBVIOUS
<1>1. ASSUME NEW r \in Reservations, NEW b \in BenchmarkIds, NEW actual \in 0..FeeLimit[r],
             Accept(r, b, actual)
      PROVE  OneOwner'
  BY <1>1 DEF TypeOK, OneOwner, Accept, Unowned
<1>2. ASSUME benchmark' = benchmark PROVE OneOwner'
  BY <1>2 DEF OneOwner
<1>3. (\E r \in Reservations : \E b \in BenchmarkIds, actual \in 0..FeeLimit[r] : Accept(r, b, actual))
      \/ benchmark' = benchmark
  BY DEF Next, Submission, Completion, Facts, Reserve, MarkSubmitting, Cancel, Reject,
         ReleaseUnhanded, Acknowledge, RecordOutcome, FinalizeCollateral, OfferExpires,
         StoreWork, SetPause, SetMultiplier, vars, rowVars
<1> QED
  BY <1>1, <1>2, <1>3

\* No TIG benchmark is ever owned by two reservations.
THEOREM OwnersAreUnique == Spec => []OneOwner
<1>1. Init => OneOwner
  BY DEF Init, OneOwner
<1>2. TypeOK /\ OneOwner /\ [Next]_vars => OneOwner'
  BY NextOwner
<1> QED
  BY <1>1, <1>2, TypeCorrect, PTL DEF Spec

\* A member's slots are finitely many, and fewer of them are counted lower.
LEMMA SlotsFinite ==
    ASSUME NEW m \in Members
    PROVE  IsFiniteSet(Slots(m)) /\ Cardinality(Slots(m)) \in Nat
  BY SlotsAssumption, FS_Subset, FS_CardinalityType DEF Slots

SlotBound == \A m \in Members : Cardinality(Slots(m)) <= MaxSlots

\* A step that takes no slot keeps the bound.
LEMMA FewerSlots ==
    ASSUME SlotBound,
           \A r \in Reservations : slotHeld'[r] => slotHeld[r]
    PROVE  SlotBound'
<1> SUFFICES ASSUME NEW m \in Members PROVE Cardinality(Slots(m)') <= MaxSlots
  BY DEF SlotBound
<1>1. Slots(m)' \subseteq Slots(m)
  BY DEF Slots
<1>2. Cardinality(Slots(m)') <= Cardinality(Slots(m)) /\ Cardinality(Slots(m)') \in Nat
  BY <1>1, SlotsFinite, FS_Subset, FS_CardinalityType
<1> QED
  BY <1>2, SlotsFinite, SlotsAssumption DEF SlotBound

\* A reservation takes a slot only below the limit; no other step takes one.
LEMMA NextSlots == TypeOK /\ SlotBound /\ [Next]_vars => SlotBound'
<1> SUFFICES ASSUME TypeOK, SlotBound, [Next]_vars PROVE SlotBound'
  OBVIOUS
<1>1. ASSUME NEW r \in Reservations, Reserve(r) PROVE SlotBound'
  <2> SUFFICES ASSUME NEW m \in Members PROVE Cardinality(Slots(m)') <= MaxSlots
    BY DEF SlotBound
  <2>1. CASE MemberOf[r] = m
    <3>1. Slots(m)' \subseteq Slots(m) \union {r}
      BY <1>1 DEF Slots, Reserve, TypeOK
    <3>2. Cardinality(Slots(m)) < MaxSlots
      BY <1>1, <2>1 DEF Reserve, SlotFree
    <3>3. /\ IsFiniteSet(Slots(m) \union {r})
          /\ Cardinality(Slots(m) \union {r}) <= Cardinality(Slots(m)) + 1
      <4>1. IsFiniteSet(Slots(m)) /\ Cardinality(Slots(m)) \in Nat
        BY SlotsFinite
      <4> DEFINE S == Slots(m)
      <4> HIDE DEF S
      <4>2. /\ IsFiniteSet(S \union {r})
            /\ Cardinality(S \union {r}) = IF r \in S THEN Cardinality(S) ELSE Cardinality(S) + 1
        BY <4>1, FS_AddElement DEF S
      <4>3. Cardinality(S) \in Nat
        BY <4>1 DEF S
      <4>4. Cardinality(S \union {r}) <= Cardinality(S) + 1
        BY <4>2, <4>3
      <4> QED
        BY <4>2, <4>4 DEF S
    <3>4. Cardinality(Slots(m)') <= Cardinality(Slots(m) \union {r})
      BY <3>1, <3>3, FS_Subset
    <3>5. Cardinality(Slots(m)') \in Nat /\ Cardinality(Slots(m) \union {r}) \in Nat
      BY <3>1, <3>3, FS_Subset, FS_CardinalityType
    <3> QED
      BY <3>2, <3>3, <3>4, <3>5, SlotsFinite, SlotsAssumption, SMT
  <2>2. CASE MemberOf[r] # m
    <3>1. Slots(m)' = Slots(m)
      BY <1>1, <2>2 DEF Slots, Reserve, TypeOK
    <3> QED
      BY <3>1 DEF SlotBound
  <2> QED
    BY <2>1, <2>2
<1>2. ASSUME \A r \in Reservations : slotHeld'[r] => slotHeld[r] PROVE SlotBound'
  BY <1>2, FewerSlots
<1>3. (\E r \in Reservations : Reserve(r)) \/ \A r \in Reservations : slotHeld'[r] => slotHeld[r]
  <2>1. ASSUME NEW q \in Reservations, slotHeld' = [slotHeld EXCEPT ![q] = FALSE]
        PROVE  \A r \in Reservations : slotHeld'[r] => slotHeld[r]
    BY <2>1 DEF TypeOK
  <2>2. (\E r \in Reservations : Reserve(r)) \/ slotHeld' = slotHeld
        \/ \E q \in Reservations : slotHeld' = [slotHeld EXCEPT ![q] = FALSE]
    BY DEF Next, Submission, Completion, Facts, MarkSubmitting, Accept, Cancel, Reject,
           ReleaseUnhanded, Acknowledge, RecordOutcome, FinalizeCollateral, OfferExpires,
           StoreWork, SetPause, SetMultiplier, vars, rowVars
  <2> QED
    BY <2>1, <2>2
<1> QED
  BY <1>1, <1>2, <1>3

\* No member ever occupies more than MaxSlots slots, and slots are occupied by
\* the unfinished work and by nothing else.
THEOREM SlotsAreLimited == Spec => []SlotLimit
<1>1. Init => SlotBound
  <2> SUFFICES ASSUME Init, NEW m \in Members PROVE Cardinality(Slots(m)) <= MaxSlots
    BY DEF SlotBound
  <2>1. Slots(m) = {}
    BY DEF Init, Slots
  <2> QED
    BY <2>1, FS_EmptySet, SlotsAssumption
<1>2. TypeOK /\ SlotBound /\ [Next]_vars => SlotBound'
  BY NextSlots
<1>3. SlotBound /\ Lifecycle => SlotLimit
  BY DEF SlotBound, Lifecycle, RowConsistent, SlotLimit
<1> QED
  BY <1>1, <1>2, <1>3, TypeCorrect, LifecycleCorrect, PTL DEF Spec

-----------------------------------------------------------------------------
(***************************************************************************)
(* Finality, and the collateral promise.                                   *)
(***************************************************************************)

\* A transaction never rewrites what an earlier one recorded.
LEMMA StepKeepsRecords ==
    ASSUME TypeOK, Lifecycle, [Next]_vars, NEW q \in Reservations
    PROVE  KeepsRecords(q)
<1>0. RowConsistent(q)
  BY DEF Lifecycle
<1> USE DEF Occupying, Released, Definitive
<1>1. ASSUME NEW r \in Reservations, Reserve(r)
      PROVE  KeepsRecords(q)
  BY <1>0, <1>1 DEF KeepsRecords, TypeOK, RowConsistent, Reserve, factVars
<1>2. ASSUME NEW r \in Reservations, MarkSubmitting(r)
      PROVE  KeepsRecords(q)
  BY <1>0, <1>2 DEF KeepsRecords, TypeOK, RowConsistent, MarkSubmitting, ledgerVars, factVars
<1>3. ASSUME NEW r \in Reservations, NEW b \in BenchmarkIds, NEW actual \in 0..FeeLimit[r],
             Accept(r, b, actual)
      PROVE  KeepsRecords(q)
  BY <1>0, <1>3 DEF KeepsRecords, TypeOK, RowConsistent, Accept, Fees, factVars
<1>4. ASSUME NEW r \in Reservations, Cancel(r)
      PROVE  KeepsRecords(q)
  BY <1>0, <1>4 DEF KeepsRecords, TypeOK, RowConsistent, Cancel, Fees, ReturnCollateral, factVars
<1>5. ASSUME NEW r \in Reservations, NEW actual \in 0..FeeLimit[r], Reject(r, actual)
      PROVE  KeepsRecords(q)
  BY <1>0, <1>5 DEF KeepsRecords, TypeOK, RowConsistent, Reject, Fees, ReturnCollateral, factVars
<1>6. ASSUME NEW r \in Reservations, ReleaseUnhanded(r)
      PROVE  KeepsRecords(q)
  BY <1>0, <1>6 DEF KeepsRecords, TypeOK, RowConsistent, ReleaseUnhanded, NotHanded, ReturnCollateral, factVars
<1>7. ASSUME NEW r \in Reservations, Acknowledge(r)
      PROVE  KeepsRecords(q)
  BY <1>0, <1>7 DEF KeepsRecords, TypeOK, RowConsistent, Acknowledge, AwaitsHandover, ledgerVars, factVars
<1>8. ASSUME NEW r \in Reservations, NEW s \in Definitive, RecordOutcome(r, s)
      PROVE  KeepsRecords(q)
  BY <1>0, <1>8 DEF KeepsRecords, TypeOK, RowConsistent, RecordOutcome, ledgerVars, factVars
<1>9. ASSUME NEW r \in Reservations, NEW related \in SUBSET Results, FinalizeCollateral(r, related)
      PROVE  KeepsRecords(q)
  BY <1>0, <1>9 DEF KeepsRecords, TypeOK, RowConsistent, FinalizeCollateral, Undisposed, ReturnCollateral, ForfeitCollateral
<1>10. ASSUME Facts PROVE KeepsRecords(q)
  BY <1>0, <1>10 DEF KeepsRecords, Facts, OfferExpires, StoreWork, SetPause, SetMultiplier, rowVars, ledgerVars
<1>11. CASE UNCHANGED vars
  BY <1>0, <1>11 DEF KeepsRecords, vars, rowVars, ledgerVars
<1> QED
  BY <1>1, <1>2, <1>3, <1>4, <1>5, <1>6, <1>7, <1>8, <1>9, <1>10, <1>11
  DEF Next, Submission, Completion

\* Disposition, owner, fee, handover and amount are final once recorded.
THEOREM RecordsAreFinal == Spec => RecordedIsFinal
<1>1. TypeOK /\ Lifecycle /\ [Next]_vars => [\A r \in Reservations : KeepsRecords(r)]_vars
  BY StepKeepsRecords
<1> QED
  BY <1>1, TypeCorrect, LifecycleCorrect, PTL DEF Spec, RecordedIsFinal

\* A step that moves no collateral, no handover and no disposition is a stutter
\* of the escrow.
LEMMA EscrowStutter ==
    ASSUME available' = available, held' = held, handed' = handed, pot' = pot,
           EscrowStatus' = EscrowStatus
    PROVE  UNCHANGED Escrow!vars
  BY DEF Escrow!vars

\* A return of held collateral is a return of the escrow.
LEMMA EscrowReturn ==
    ASSUME TypeOK, NEW r \in Reservations, RowConsistent(r),
           state[r] # "none", outcome[r] = "none", ReturnCollateral(r),
           handed' = handed,
           \E s \in States \ {"none"} : state' = [state EXCEPT ![r] = s]
    PROVE  Escrow!Return(r)
<1>1. held[r] = amount[r]
  BY DEF RowConsistent
<1>2. EscrowStatus[r] = "locked" /\ EscrowStatus' = [EscrowStatus EXCEPT ![r] = "returned"]
  BY DEF EscrowStatus, ReturnCollateral, TypeOK
<1>3. held[r] - amount[r] = 0
  BY <1>1 DEF TypeOK
<1>4. held' = [held EXCEPT ![r] = 0]
  BY <1>3, Zenon DEF ReturnCollateral
<1>5. available' = [available EXCEPT ![MemberOf[r]] = @ + held[r]]
  BY <1>1, Zenon DEF ReturnCollateral
<1> QED
  BY <1>2, <1>4, <1>5 DEF Escrow!Return, ReturnCollateral

\* Every transaction on reservations is a step of the escrow or a stutter.
LEMMA NextEscrow == TypeOK /\ Lifecycle /\ [Next]_vars => [Escrow!Next]_Escrow!vars
<1> SUFFICES ASSUME TypeOK, Lifecycle, [Next]_vars PROVE [Escrow!Next]_Escrow!vars
  OBVIOUS
<1>0. \A r \in Reservations : RowConsistent(r)
  BY DEF Lifecycle
<1> USE MembersAssumption, MoneyAssumption, MultiplierAssumption
<1>1. ASSUME NEW r \in Reservations, Reserve(r) PROVE Escrow!Lock(r)
  <2> DEFINE c == Collateral(Base[r], multiplier[MemberOf[r]])
  <2>1. c \in Nat
    BY CollateralType DEF TypeOK
  <2> HIDE DEF c
  <2>2. EscrowStatus[r] = "idle" /\ EscrowStatus' = [EscrowStatus EXCEPT ![r] = "locked"]
    BY <1>0, <1>1 DEF EscrowStatus, Reserve, TypeOK, RowConsistent
  <2>3. c \in 0..available[MemberOf[r]]
    BY <1>1, <2>1 DEF Reserve, Covers, TypeOK, c
  <2>4. /\ available' = [available EXCEPT ![MemberOf[r]] = @ - c]
        /\ held' = [held EXCEPT ![r] = c]
    BY <1>1 DEF Reserve, c
  <2> QED
    BY <1>1, <2>2, <2>3, <2>4 DEF Escrow!Lock, Reserve
<1>2. ASSUME NEW r \in Reservations, Acknowledge(r) PROVE Escrow!TakeOver(r)
  <2>1. EscrowStatus[r] = "locked" /\ EscrowStatus' = EscrowStatus
    BY <1>0, <1>2 DEF EscrowStatus, Acknowledge, AwaitsHandover, RowConsistent, Occupying
  <2> QED
    BY <1>2, <2>1 DEF Escrow!TakeOver, Acknowledge, ledgerVars
<1>3. ASSUME NEW r \in Reservations, Cancel(r) PROVE Escrow!Return(r)
  BY <1>0, <1>3, EscrowReturn DEF Cancel, RowConsistent, Occupying, States, Released
<1>4. ASSUME NEW r \in Reservations, NEW actual \in 0..FeeLimit[r], Reject(r, actual)
      PROVE  Escrow!Return(r)
  BY <1>0, <1>4, EscrowReturn DEF Reject, RowConsistent, Occupying, States, Released
<1>5. ASSUME NEW r \in Reservations, ReleaseUnhanded(r) PROVE Escrow!Return(r)
  BY <1>0, <1>5, EscrowReturn DEF ReleaseUnhanded, RowConsistent, Occupying, States, Released
<1>6. ASSUME NEW r \in Reservations, NEW related \in SUBSET Results, FinalizeCollateral(r, related)
      PROVE  Escrow!Return(r) \/ Escrow!Forfeit(r)
  <2>1. state[r] \in States \ {"none"} /\ outcome[r] = "none" /\ handed' = handed
        /\ state' = [state EXCEPT ![r] = state[r]]
    BY <1>6 DEF TypeOK, FinalizeCollateral, Undisposed, Definitive, States
  <2>2. CASE ReturnCollateral(r)
    BY <1>0, <2>1, <2>2, EscrowReturn
  <2>3. CASE Disposition(r, related) = "forfeited" /\ ForfeitCollateral(r)
    <3>1. held[r] = amount[r]
      BY <1>0, <2>1 DEF RowConsistent
    <3>2. EscrowStatus[r] = "locked" /\ EscrowStatus' = [EscrowStatus EXCEPT ![r] = "forfeited"]
      BY <2>1, <2>3 DEF EscrowStatus, ForfeitCollateral, TypeOK
    <3>3. held[r] - amount[r] = 0
      BY <3>1 DEF TypeOK
    <3>5. held' = [held EXCEPT ![r] = 0]
      BY <2>3, <3>3, Zenon DEF ForfeitCollateral
    <3>6. pot' = [pot EXCEPT ![CreationRound[r]] = @ + held[r]]
      BY <2>3, <3>1, Zenon DEF ForfeitCollateral
    <3>4. handed[r]
      BY <2>3 DEF Disposition
    <3> QED
      BY <2>1, <2>3, <3>2, <3>4, <3>5, <3>6 DEF Escrow!Forfeit, ForfeitCollateral
  <2> QED
    BY <1>6, <2>2, <2>3 DEF FinalizeCollateral
<1>7. ASSUME NEW r \in Reservations, NEW s \in States \ {"none"}, state[r] # "none",
             state' = [state EXCEPT ![r] = s], outcome' = outcome,
             available' = available, held' = held, handed' = handed, pot' = pot
      PROVE  UNCHANGED Escrow!vars
  <2>1. EscrowStatus' = EscrowStatus
    BY <1>7 DEF EscrowStatus, TypeOK
  <2> QED
    BY <1>7, <2>1, EscrowStutter
<1>8. ASSUME NEW r \in Reservations, MarkSubmitting(r) PROVE UNCHANGED Escrow!vars
  BY <1>7, <1>8 DEF MarkSubmitting, ledgerVars, States, Occupying
<1>9. ASSUME NEW r \in Reservations, NEW b \in BenchmarkIds, NEW actual \in 0..FeeLimit[r],
             Accept(r, b, actual)
      PROVE  UNCHANGED Escrow!vars
  BY <1>7, <1>9 DEF Accept, States, Occupying
<1>10. ASSUME NEW r \in Reservations, NEW s \in Definitive, RecordOutcome(r, s)
       PROVE  UNCHANGED Escrow!vars
  BY <1>7, <1>10 DEF RecordOutcome, ledgerVars, States, Definitive
<1>11. ASSUME UNCHANGED <<rowVars, ledgerVars>> PROVE UNCHANGED Escrow!vars
  BY <1>11, EscrowStutter DEF rowVars, ledgerVars, EscrowStatus
<1>12. ASSUME Facts PROVE UNCHANGED <<rowVars, ledgerVars>>
  BY <1>12 DEF Facts, OfferExpires, StoreWork, SetPause, SetMultiplier
<1> QED
  BY <1>1, <1>2, <1>3, <1>4, <1>5, <1>6, <1>8, <1>9, <1>10, <1>11, <1>12
  DEF Next, Submission, Completion, vars, Escrow!Next

\* The reservations implement the collateral promise: collateral is locked once,
\* and returned whole or, only if the member took the work over, forfeited.
THEOREM EscrowImplemented == Spec => ImplementsCollateral
<1>1. Init => Escrow!Init
  BY DEF Init, Escrow!Init, EscrowStatus
<1>2. TypeOK /\ Lifecycle /\ [Next]_vars => [Escrow!Next]_Escrow!vars
  BY NextEscrow
<1> QED
  BY <1>1, <1>2, TypeCorrect, LifecycleCorrect, PTL DEF Spec, ImplementsCollateral, Escrow!Spec

-----------------------------------------------------------------------------
(***************************************************************************)
(* Money.  A step moves the collateral of one reservation, or none, and    *)
(* the sums over the reservations follow by the lemmas of Sums.            *)
(***************************************************************************)

\* The sums range over finite sets of integers.
LEMMA RowsFinite ==
    ASSUME NEW S \in SUBSET Reservations PROVE IsFiniteSet(S)
  BY SlotsAssumption, FS_Subset

\* Collateral of r is taken from its member: held, and nothing lost.
LockMoves(r) ==
    \E c \in Nat :
        /\ available' = [available EXCEPT ![MemberOf[r]] = @ - c]
        /\ held' = [held EXCEPT ![r] = c] /\ held[r] = 0
        /\ amount' = [amount EXCEPT ![r] = c]
        /\ outcome[r] = "none" /\ UNCHANGED <<outcome, pot>>

ReturnMoves(r) == outcome[r] = "none" /\ ReturnCollateral(r) /\ UNCHANGED amount
ForfeitMoves(r) == outcome[r] = "none" /\ ForfeitCollateral(r) /\ UNCHANGED amount

\* Every step does one of these to the collateral.
CollateralMoves ==
    \/ UNCHANGED <<available, held, amount, outcome, pot>>
    \/ \E r \in Reservations : LockMoves(r) \/ ReturnMoves(r) \/ ForfeitMoves(r)

\* The collateral side of every transaction is one of those moves.
LEMMA StepMovesCollateral ==
    ASSUME TypeOK, Lifecycle, [Next]_vars PROVE CollateralMoves
<1>0. \A r \in Reservations : RowConsistent(r)
  BY DEF Lifecycle
<1>1. ASSUME NEW r \in Reservations, Reserve(r) PROVE LockMoves(r)
  <2> DEFINE c == Collateral(Base[r], multiplier[MemberOf[r]])
  <2>1. c \in Nat
    BY CollateralType, MembersAssumption, MoneyAssumption, MultiplierAssumption DEF TypeOK
  <2>2. /\ available' = [available EXCEPT ![MemberOf[r]] = @ - c]
        /\ held' = [held EXCEPT ![r] = c]
        /\ amount' = [amount EXCEPT ![r] = c]
        /\ UNCHANGED <<outcome, pot>>
    BY <1>1 DEF Reserve
  <2>3. held[r] = 0 /\ outcome[r] = "none"
    BY <1>0, <1>1 DEF Reserve, RowConsistent
  <2> HIDE DEF c
  <2> QED
    BY <2>1, <2>2, <2>3 DEF LockMoves
<1>2. ASSUME NEW r \in Reservations, NEW actual \in 0..FeeLimit[r],
             Cancel(r) \/ Reject(r, actual) \/ ReleaseUnhanded(r)
      PROVE  ReturnMoves(r)
  BY <1>0, <1>2 DEF Cancel, Reject, ReleaseUnhanded, ReturnMoves, RowConsistent, Occupying
<1>3. ASSUME NEW r \in Reservations, NEW related \in SUBSET Results, FinalizeCollateral(r, related)
      PROVE  ReturnMoves(r) \/ ForfeitMoves(r)
  BY <1>3 DEF FinalizeCollateral, Undisposed, ReturnMoves, ForfeitMoves
<1>4. ASSUME NEW r \in Reservations, NEW b \in BenchmarkIds, NEW actual \in 0..FeeLimit[r],
             Accept(r, b, actual)
      PROVE  UNCHANGED <<available, held, amount, outcome, pot>>
  BY <1>4 DEF Accept
<1>5. ASSUME NEW r \in Reservations, NEW s \in Definitive,
             MarkSubmitting(r) \/ Acknowledge(r) \/ RecordOutcome(r, s)
      PROVE  UNCHANGED <<available, held, amount, outcome, pot>>
  BY <1>5 DEF MarkSubmitting, Acknowledge, RecordOutcome, ledgerVars
<1>6. CASE Facts \/ UNCHANGED vars
  BY <1>6 DEF CollateralMoves, Facts, OfferExpires, StoreWork, SetPause, SetMultiplier, vars,
     rowVars, ledgerVars
<1>7. ASSUME NEW r \in Reservations, Submission(r) \/ Completion(r) PROVE CollateralMoves
  <2>1. CASE Cancel(r)
    <3>1. 0 \in 0..FeeLimit[r]
      BY MoneyAssumption
    <3> QED
      BY <1>2, <2>1, <3>1 DEF CollateralMoves
  <2>2. CASE ReleaseUnhanded(r)
    <3>1. 0 \in 0..FeeLimit[r]
      BY MoneyAssumption
    <3> QED
      BY <1>2, <2>2, <3>1 DEF CollateralMoves
  <2>3. CASE MarkSubmitting(r) \/ Acknowledge(r)
    BY <1>5, <2>3 DEF CollateralMoves, Definitive
  <2> QED
    BY <1>1, <1>2, <1>3, <1>4, <1>5, <1>7, <2>1, <2>2, <2>3
    DEF CollateralMoves, Submission, Completion
<1> QED
  BY <1>6, <1>7 DEF Next

\* Lost collateral is counted with its amount, and a disposition adds to it at
\* most the reservation it is about.
LEMMA LostChanges ==
    ASSUME TypeOK, NEW P \in SUBSET Reservations, NEW r \in Reservations,
           \A q \in P : outcome[q] = "forfeited",
           outcome[r] = "none", amount \in [Reservations -> Nat]
    PROVE  /\ Sum(amount, P) \in Int
           /\ Sum(amount, P \union {r}) = Sum(amount, P) + amount[r]
<1>1. r \notin P /\ IsFiniteSet(P)
  BY RowsFinite
<1>2. \A q \in P \union {r} : amount[q] \in Int
  OBVIOUS
<1> QED
  BY <1>1, <1>2, SumAdd, SumInt DEF Sum
\* The accounts of a member add up over whichever reservations they own.
LEMMA RowSums ==
    ASSUME TypeOK, TypeOK', NEW S \in SUBSET Reservations, NEW r \in Reservations
    PROVE  /\ (\A q \in Reservations : q # r => held'[q] = held[q]) =>
                /\ Sum(held, S) \in Int /\ Sum(held', S) \in Int
                /\ r \in S => Sum(held', S) = Sum(held, S) - held[r] + held'[r]
                /\ r \notin S => Sum(held', S) = Sum(held, S)
           /\ (\A q \in Reservations : q # r => amount'[q] = amount[q]) =>
                /\ Sum(amount, S) \in Int /\ Sum(amount', S) \in Int
                /\ r \notin S => Sum(amount', S) = Sum(amount, S)
           /\ (\A q \in Reservations : q # r => committed'[q] = committed[q]) =>
                /\ Sum(committed, S) \in Int /\ Sum(committed', S) \in Int
                /\ r \in S => Sum(committed', S) = Sum(committed, S) - committed[r] + committed'[r]
<1>1. IsFiniteSet(S)
  BY RowsFinite
<1>2. \A q \in S : q \in Reservations
  OBVIOUS
<1>3. ASSUME NEW f \in [Reservations -> Nat], NEW g \in [Reservations -> Nat],
             \A q \in Reservations : q # r => g[q] = f[q]
      PROVE  /\ Sum(f, S) \in Int /\ Sum(g, S) \in Int
             /\ r \in S => Sum(g, S) = Sum(f, S) - f[r] + g[r]
             /\ r \notin S => Sum(g, S) = Sum(f, S)
  <2>1. \A x \in S : f[x] \in Int /\ g[x] \in Int
    BY <1>2, <1>3
  <2>2. \A x \in S : x # r => g[x] = f[x]
    BY <1>2, <1>3
  <2> QED
    BY <1>1, <2>1, <2>2, SumStep DEF Sum
<1> QED
  BY <1>3 DEF TypeOK

\* Collateral moves between a member's own accounts, or is lost by that member.
LEMMA WealthKept ==
    ASSUME TypeOK, TypeOK', Lifecycle, MembersAreWhole, CollateralMoves
    PROVE  MembersAreWhole'
<1> SUFFICES ASSUME NEW m \in Members
             PROVE  InitialAvailable[m] =
                      available'[m] + Sum(held', OwnedBy(m)) + Sum(amount', LostBy(m)')
  BY DEF MembersAreWhole, OwnedBy, Sum
<1> DEFINE A == OwnedBy(m)
<1> DEFINE L == LostBy(m)
<1>1. InitialAvailable[m] = available[m] + Sum(held, A) + Sum(amount, L)
  BY DEF MembersAreWhole
<1>2. /\ A \in SUBSET Reservations /\ L \in SUBSET Reservations
      /\ \A q \in L : q \in A /\ outcome[q] = "forfeited"
      /\ \A q \in Reservations : q \in A <=> MemberOf[q] = m
  BY DEF OwnedBy, LostBy
<1>3. LostBy(m)' = {q \in A : outcome'[q] = "forfeited"}
  BY DEF LostBy, OwnedBy
<1>4. L = {q \in A : outcome[q] = "forfeited"}
  BY DEF LostBy
<1>5. available[m] \in Int /\ available'[m] \in Int
  BY DEF TypeOK
<1> HIDE DEF A, L
<1>6. ASSUME UNCHANGED outcome PROVE LostBy(m)' = L
  BY <1>3, <1>4, <1>6
<1>7. CASE UNCHANGED <<available, held, amount, outcome, pot>>
  <2>1. LostBy(m)' = L
    BY <1>6, <1>7
  <2> QED
    BY <1>1, <1>7, <2>1, Zenon DEF A
<1>8. ASSUME NEW r \in Reservations, LockMoves(r)
      PROVE  InitialAvailable[m] = available'[m] + Sum(held', A) + Sum(amount', LostBy(m)')
  <2>1. PICK c \in Nat :
          /\ available' = [available EXCEPT ![MemberOf[r]] = @ - c]
          /\ held' = [held EXCEPT ![r] = c] /\ held[r] = 0
          /\ amount' = [amount EXCEPT ![r] = c]
          /\ outcome[r] = "none" /\ UNCHANGED <<outcome, pot>>
    BY <1>8 DEF LockMoves
  <2>2. LostBy(m)' = L
    BY <1>6, <2>1
  <2>3. r \notin L
    BY <1>2, <2>1
  <2>4. Sum(amount', L) = Sum(amount, L) /\ Sum(amount, L) \in Int
    BY <1>2, <2>1, <2>3, RowSums DEF TypeOK
  <2>5. Sum(amount', LostBy(m)') = Sum(amount, L)
    BY <2>2, <2>4, Zenon
  <2>6. held'[r] = c /\ \A q \in Reservations : q # r => held'[q] = held[q]
    BY <2>1 DEF TypeOK
  <2>7. Sum(held, A) \in Int /\ Sum(held', A) = Sum(held, A) + (IF r \in A THEN c ELSE 0)
    <3>1. A \in SUBSET Reservations /\ held[r] = 0 /\ c \in Nat
      BY <1>2, <2>1
    <3> QED
      BY <2>6, <3>1, RowSums
  <2>8. available'[m] = available[m] - (IF r \in A THEN c ELSE 0)
    BY <1>2, <2>1 DEF TypeOK
  <2> QED
    BY <1>1, <1>5, <2>4, <2>5, <2>7, <2>8
<1>9. ASSUME NEW r \in Reservations, ReturnMoves(r)
      PROVE  InitialAvailable[m] = available'[m] + Sum(held', A) + Sum(amount', LostBy(m)')
  <2>1. /\ available' = [available EXCEPT ![MemberOf[r]] = @ + amount[r]]
        /\ held' = [held EXCEPT ![r] = @ - amount[r]]
        /\ outcome' = [outcome EXCEPT ![r] = "returned"]
        /\ outcome[r] = "none" /\ UNCHANGED amount
    BY <1>9 DEF ReturnMoves, ReturnCollateral
  <2>2. LostBy(m)' = L
    BY <1>2, <1>3, <1>4, <2>1 DEF TypeOK
  <2>3. Sum(amount', LostBy(m)') = Sum(amount, L)
    BY <2>1, <2>2, Zenon
  <2>4. Sum(amount, L) \in Int
    BY <1>2, <2>1, RowSums
  <2>5. held'[r] = held[r] - amount[r] /\ \A q \in Reservations : q # r => held'[q] = held[q]
    BY <2>1 DEF TypeOK
  <2>6. held[r] \in Nat /\ amount[r] \in Nat
    BY DEF TypeOK
  <2>7. Sum(held, A) \in Int /\ Sum(held', A) = Sum(held, A) - (IF r \in A THEN amount[r] ELSE 0)
    BY <1>2, <2>5, <2>6, RowSums
  <2>8. available'[m] = available[m] + (IF r \in A THEN amount[r] ELSE 0)
    BY <1>2, <2>1 DEF TypeOK
  <2> QED
    BY <1>1, <1>5, <2>3, <2>4, <2>6, <2>7, <2>8
<1>10. ASSUME NEW r \in Reservations, ForfeitMoves(r)
       PROVE  InitialAvailable[m] = available'[m] + Sum(held', A) + Sum(amount', LostBy(m)')
  <2>1. /\ held' = [held EXCEPT ![r] = @ - amount[r]]
        /\ outcome' = [outcome EXCEPT ![r] = "forfeited"]
        /\ outcome[r] = "none" /\ UNCHANGED <<available, amount>>
    BY <1>10 DEF ForfeitMoves, ForfeitCollateral
  <2>2. LostBy(m)' = IF r \in A THEN L \union {r} ELSE L
    BY <1>2, <1>3, <1>4, <2>1 DEF TypeOK
  <2>3. Sum(amount, L) \in Int /\ Sum(amount, L \union {r}) = Sum(amount, L) + amount[r]
    BY <1>2, <2>1, LostChanges DEF TypeOK
  <2>5. held'[r] = held[r] - amount[r] /\ \A q \in Reservations : q # r => held'[q] = held[q]
    BY <2>1 DEF TypeOK
  <2>6. held[r] \in Nat /\ amount[r] \in Nat
    BY DEF TypeOK
  <2>7. Sum(held, A) \in Int /\ Sum(held', A) = Sum(held, A) - (IF r \in A THEN amount[r] ELSE 0)
    BY <1>2, <2>5, <2>6, RowSums
  <2>8. CASE r \in A
    <3>1. Sum(amount', LostBy(m)') = Sum(amount, L \union {r})
      BY <2>1, <2>2, <2>8, Zenon
    <3> QED
      BY <1>1, <1>5, <2>1, <2>3, <2>6, <2>7, <2>8, <3>1
  <2>9. CASE r \notin A
    <3>1. Sum(amount', LostBy(m)') = Sum(amount, L)
      BY <2>1, <2>2, <2>9, Zenon
    <3> QED
      BY <1>1, <1>5, <2>1, <2>3, <2>6, <2>7, <2>9, <3>1
  <2> QED
    BY <2>8, <2>9
<1> QED
  BY <1>7, <1>8, <1>9, <1>10 DEF CollateralMoves, A
\* Forfeited collateral, and nothing else, goes to the pot of its round.
LEMMA PotsKept ==
    ASSUME TypeOK, TypeOK', Lifecycle, PotsHoldForfeits, CollateralMoves
    PROVE  PotsHoldForfeits'
<1> SUFFICES ASSUME NEW x \in Rounds PROVE pot'[x] = Sum(amount', LostIn(x)')
  BY DEF PotsHoldForfeits, Sum
<1> DEFINE L == LostIn(x)
<1>1. pot[x] = Sum(amount, L)
  BY DEF PotsHoldForfeits
<1>2. /\ L \in SUBSET Reservations
      /\ \A q \in L : outcome[q] = "forfeited"
  BY DEF LostIn
<1>3. LostIn(x)' = {q \in Reservations : CreationRound[q] = x /\ outcome'[q] = "forfeited"}
  BY DEF LostIn
<1>4. L = {q \in Reservations : CreationRound[q] = x /\ outcome[q] = "forfeited"}
  BY DEF LostIn
<1>5. pot[x] \in Int /\ pot'[x] \in Int
  BY DEF TypeOK
<1> HIDE DEF L
<1>6. ASSUME UNCHANGED outcome PROVE LostIn(x)' = L
  BY <1>3, <1>4, <1>6
<1>7. CASE UNCHANGED <<available, held, amount, outcome, pot>>
  <2>1. LostIn(x)' = L
    BY <1>6, <1>7
  <2> QED
    BY <1>1, <1>7, <2>1, Zenon
<1>8. ASSUME NEW r \in Reservations, LockMoves(r) PROVE pot'[x] = Sum(amount', LostIn(x)')
  <2>1. PICK c \in Nat :
          /\ amount' = [amount EXCEPT ![r] = c]
          /\ outcome[r] = "none" /\ UNCHANGED <<outcome, pot>>
    BY <1>8 DEF LockMoves
  <2>2. LostIn(x)' = L
    BY <1>6, <2>1
  <2>3. r \notin L
    BY <1>2, <2>1
  <2>4. Sum(amount', L) = Sum(amount, L)
    BY <1>2, <2>1, <2>3, RowSums DEF TypeOK
  <2>5. Sum(amount', LostIn(x)') = Sum(amount, L)
    BY <2>2, <2>4, Zenon
  <2> QED
    BY <1>1, <2>1, <2>5
<1>9. ASSUME NEW r \in Reservations, ReturnMoves(r) PROVE pot'[x] = Sum(amount', LostIn(x)')
  <2>1. /\ outcome' = [outcome EXCEPT ![r] = "returned"]
        /\ outcome[r] = "none" /\ UNCHANGED <<amount, pot>>
    BY <1>9 DEF ReturnMoves, ReturnCollateral
  <2>2. LostIn(x)' = L
    BY <1>2, <1>3, <1>4, <2>1 DEF TypeOK
  <2> QED
    BY <1>1, <2>1, <2>2, Zenon
<1>10. ASSUME NEW r \in Reservations, ForfeitMoves(r) PROVE pot'[x] = Sum(amount', LostIn(x)')
  <2>1. /\ pot' = [pot EXCEPT ![CreationRound[r]] = @ + amount[r]]
        /\ outcome' = [outcome EXCEPT ![r] = "forfeited"]
        /\ outcome[r] = "none" /\ UNCHANGED amount
    BY <1>10 DEF ForfeitMoves, ForfeitCollateral
  <2>2. LostIn(x)' = IF CreationRound[r] = x THEN L \union {r} ELSE L
    BY <1>2, <1>3, <1>4, <2>1 DEF TypeOK
  <2>3. Sum(amount, L \union {r}) = Sum(amount, L) + amount[r]
    BY <1>2, <2>1, LostChanges DEF TypeOK
  <2>4. CASE CreationRound[r] = x
    <3>1. Sum(amount', LostIn(x)') = Sum(amount, L \union {r})
      BY <2>1, <2>2, <2>4, Zenon
    <3>2. pot'[x] = pot[x] + amount[r]
      BY <2>1, <2>4 DEF TypeOK
    <3> QED
      BY <1>1, <2>3, <3>1, <3>2
  <2>5. CASE CreationRound[r] # x
    <3>1. Sum(amount', LostIn(x)') = Sum(amount, L)
      BY <2>1, <2>2, <2>5, Zenon
    <3>2. pot'[x] = pot[x]
      BY <2>1, <2>5 DEF TypeOK
    <3> QED
      BY <1>1, <3>1, <3>2
  <2> QED
    BY <2>4, <2>5
<1> QED
  BY <1>7, <1>8, <1>9, <1>10 DEF CollateralMoves

\* The fee limit of r is set aside.
CommitMoves(r) ==
    /\ feeActual[r] = NoFee /\ committed[r] = 0 /\ UNCHANGED <<feeActual, protocolSpent>>
    /\ committed' = [committed EXCEPT ![r] = FeeLimit[r]]
    /\ operatorFees' = operatorFees - FeeLimit[r]

\* The commitment of r is used up by the fee TIG charged.
ChargeMoves(r) ==
    \E actual \in 0..FeeLimit[r] :
        feeActual[r] = NoFee /\ committed[r] = FeeLimit[r] /\ Fees(r, actual)

\* Every step does one of these to the fees.
FeeMoves ==
    \/ UNCHANGED <<feeActual, committed, operatorFees, protocolSpent>>
    \/ \E r \in Reservations : CommitMoves(r) \/ ChargeMoves(r)

\* The fee side of every transaction of benchmarks.py is one of those moves.
LEMMA StepMovesFees ==
    ASSUME TypeOK, Lifecycle, [Next]_vars PROVE FeeMoves
<1>0. \A r \in Reservations : RowConsistent(r)
  BY DEF Lifecycle
<1>1. ASSUME NEW r \in Reservations, Reserve(r) PROVE CommitMoves(r)
  BY <1>0, <1>1 DEF Reserve, CommitMoves, RowConsistent
<1>2. ASSUME NEW r \in Reservations, NEW actual \in 0..FeeLimit[r], Fees(r, actual),
             state[r] \in {"reserved", "uncertain"}
      PROVE  ChargeMoves(r)
  BY <1>0, <1>2 DEF ChargeMoves, RowConsistent
<1>3. ASSUME NEW r \in Reservations, Cancel(r) PROVE ChargeMoves(r)
  <2>1. 0 \in 0..FeeLimit[r]
    BY MoneyAssumption
  <2> QED
    BY <1>2, <1>3, <2>1 DEF Cancel
<1>4. ASSUME NEW r \in Reservations, NEW actual \in 0..FeeLimit[r], Reject(r, actual)
      PROVE  ChargeMoves(r)
  BY <1>2, <1>4 DEF Reject
<1>5. ASSUME NEW r \in Reservations, NEW b \in BenchmarkIds, NEW actual \in 0..FeeLimit[r],
             Accept(r, b, actual)
      PROVE  ChargeMoves(r)
  BY <1>2, <1>5 DEF Accept
<1>6. ASSUME NEW r \in Reservations, NEW s \in Definitive,
             MarkSubmitting(r) \/ Acknowledge(r) \/ RecordOutcome(r, s)
      PROVE  UNCHANGED <<feeActual, committed, operatorFees, protocolSpent>>
  BY <1>6 DEF MarkSubmitting, Acknowledge, RecordOutcome, ledgerVars
<1>7. ASSUME NEW r \in Reservations, NEW related \in SUBSET Results,
             ReleaseUnhanded(r) \/ FinalizeCollateral(r, related)
      PROVE  UNCHANGED <<feeActual, committed, operatorFees, protocolSpent>>
  BY <1>7 DEF ReleaseUnhanded, FinalizeCollateral
<1>8. CASE Facts \/ UNCHANGED vars
  BY <1>8 DEF FeeMoves, Facts, OfferExpires, StoreWork, SetPause, SetMultiplier, vars,
     rowVars, ledgerVars
<1>9. ASSUME NEW r \in Reservations, Submission(r) \/ Completion(r) PROVE FeeMoves
  <2>1. CASE MarkSubmitting(r) \/ Acknowledge(r)
    BY <1>6, <2>1 DEF FeeMoves, Definitive
  <2>2. CASE ReleaseUnhanded(r)
    BY <1>7, <2>2 DEF FeeMoves
  <2> QED
    BY <1>1, <1>3, <1>4, <1>5, <1>6, <1>7, <1>9, <2>1, <2>2
    DEF FeeMoves, Submission, Completion
<1> QED
  BY <1>8, <1>9 DEF Next

\* What the operator paid in is unspent, set aside or charged.
LEMMA FeesKept ==
    ASSUME TypeOK, TypeOK', FeesAreActual, FeeMoves
    PROVE  FeesAreActual'
<1> DEFINE C == Charged
<1>1. /\ InitialFees = operatorFees + Sum(committed, Reservations) + protocolSpent
      /\ protocolSpent = Sum(feeActual, C)
  BY DEF FeesAreActual
<1>2. C = {q \in Reservations : feeActual[q] # NoFee}
  BY DEF Charged
<1>3. Charged' = {q \in Reservations : feeActual'[q] # NoFee}
  BY DEF Charged
<1> HIDE DEF C
<1> SUFFICES /\ InitialFees = operatorFees' + Sum(committed', Reservations) + protocolSpent'
             /\ protocolSpent' = Sum(feeActual', Charged')
  BY DEF FeesAreActual, Sum
<1>4. CASE UNCHANGED <<feeActual, committed, operatorFees, protocolSpent>>
  <2>1. Charged' = C
    BY <1>2, <1>3, <1>4
  <2> QED
    BY <1>1, <1>4, <2>1, Zenon
<1>5. ASSUME NEW r \in Reservations, CommitMoves(r)
      PROVE  /\ InitialFees = operatorFees' + Sum(committed', Reservations) + protocolSpent'
             /\ protocolSpent' = Sum(feeActual', Charged')
  <2>1. Charged' = C
    BY <1>2, <1>3, <1>5 DEF CommitMoves
  <2>2. protocolSpent' = Sum(feeActual', Charged')
    BY <1>1, <1>5, <2>1, Zenon DEF CommitMoves
  <2>3. FeeLimit[r] \in Nat /\ committed[r] = 0 /\ committed'[r] = FeeLimit[r]
        /\ \A q \in Reservations : q # r => committed'[q] = committed[q]
    BY <1>5, MoneyAssumption DEF CommitMoves, TypeOK
  <2>4. /\ Sum(committed, Reservations) \in Int
        /\ Sum(committed', Reservations) = Sum(committed, Reservations) + FeeLimit[r]
    BY <2>3, RowSums
  <2>5. /\ operatorFees' = operatorFees - FeeLimit[r] /\ protocolSpent' = protocolSpent
        /\ operatorFees \in Nat /\ protocolSpent \in Nat
    BY <1>5 DEF CommitMoves, TypeOK
  <2> QED
    BY <1>1, <2>2, <2>3, <2>4, <2>5
<1>6. ASSUME NEW r \in Reservations, ChargeMoves(r)
      PROVE  /\ InitialFees = operatorFees' + Sum(committed', Reservations) + protocolSpent'
             /\ protocolSpent' = Sum(feeActual', Charged')
  <2>1. PICK actual \in 0..FeeLimit[r] :
          feeActual[r] = NoFee /\ committed[r] = FeeLimit[r] /\ Fees(r, actual)
    BY <1>6 DEF ChargeMoves
  <2>2. /\ FeeLimit[r] \in Nat /\ actual \in Nat
        /\ operatorFees \in Nat /\ protocolSpent \in Nat
    BY MoneyAssumption DEF TypeOK
  <2>3. /\ committed[r] = FeeLimit[r] /\ committed'[r] = 0
        /\ \A q \in Reservations : q # r => committed'[q] = committed[q]
    BY <2>1, <2>2 DEF Fees, TypeOK
  <2>4. /\ Sum(committed, Reservations) \in Int
        /\ Sum(committed', Reservations) = Sum(committed, Reservations) - FeeLimit[r]
    BY <2>2, <2>3, RowSums
  <2>5. /\ operatorFees' = operatorFees + FeeLimit[r] - actual
        /\ protocolSpent' = protocolSpent + actual
    BY <2>1 DEF Fees
  <2>6. Charged' = C \union {r} /\ r \notin C
    BY <1>2, <1>3, <2>1, <2>2 DEF Fees, TypeOK, NoFee
  <2>7. IsFiniteSet(C) /\ C \in SUBSET Reservations
    BY <1>2, RowsFinite
  <2>8. /\ feeActual'[r] = actual /\ \A q \in C : feeActual'[q] = feeActual[q]
        /\ \A q \in C \union {r} : feeActual'[q] \in Int
    BY <2>1, <2>6, <2>7 DEF Fees, TypeOK, NoFee
  <2>9. Sum(feeActual', C \union {r}) = Sum(feeActual', C) + actual
    BY <2>6, <2>7, <2>8, SumAdd DEF Sum
  <2>10. Sum(feeActual', C) = Sum(feeActual, C)
    BY <2>7, <2>8, SumSame DEF Sum
  <2>11. Sum(feeActual', Charged') = Sum(feeActual', C \union {r})
    BY <2>6, Zenon
  <2> QED
    BY <1>1, <2>2, <2>4, <2>5, <2>9, <2>10, <2>11
<1> QED
  BY <1>4, <1>5, <1>6 DEF FeeMoves

\* Nothing is held, lost, set aside or charged at the start.
LEMMA InitAccounted == ASSUME Init PROVE MoneyIsAccounted
<1>1. ASSUME NEW S \in SUBSET Reservations
      PROVE  Sum(held, S) = 0 /\ Sum(committed, S) = 0
  <2>1. IsFiniteSet(S) /\ (\A q \in S : held[q] = 0) /\ \A q \in S : committed[q] = 0
    BY RowsFinite DEF Init
  <2> QED
    BY <2>1, SumZero DEF Sum
<1>2. ASSUME NEW f PROVE Sum(f, {}) = 0
  BY SumEmpty DEF Sum
<1>3. MembersAreWhole
  <2> SUFFICES ASSUME NEW m \in Members
               PROVE  InitialAvailable[m] =
                        available[m] + Sum(held, OwnedBy(m)) + Sum(amount, LostBy(m))
    BY DEF MembersAreWhole
  <2>1. LostBy(m) = {}
    BY DEF LostBy, OwnedBy, Init
  <2>2. Sum(amount, LostBy(m)) = 0
    BY <1>2, <2>1, Zenon
  <2>3. Sum(held, OwnedBy(m)) = 0
    BY <1>1 DEF OwnedBy
  <2>4. available[m] = InitialAvailable[m] /\ InitialAvailable[m] \in Nat
    BY MoneyAssumption DEF Init
  <2> QED
    BY <2>2, <2>3, <2>4
<1>4. PotsHoldForfeits
  <2> SUFFICES ASSUME NEW x \in Rounds PROVE pot[x] = Sum(amount, LostIn(x))
    BY DEF PotsHoldForfeits
  <2>1. LostIn(x) = {}
    BY DEF LostIn, Init
  <2>2. Sum(amount, LostIn(x)) = 0
    BY <1>2, <2>1, Zenon
  <2> QED
    BY <2>2 DEF Init
<1>5. FeesAreActual
  <2>1. Charged = {}
    BY DEF Charged, Init
  <2>2. Sum(feeActual, Charged) = 0
    BY <1>2, <2>1, Zenon
  <2>3. Sum(committed, Reservations) = 0
    BY <1>1
  <2> QED
    BY <2>2, <2>3, MoneyAssumption DEF FeesAreActual, Init
<1> QED
  BY <1>3, <1>4, <1>5 DEF MoneyIsAccounted

\* Every unit of the members and of the operator stays accounted for: own
\* accounts, the pot of the round, or a fee that TIG charged, for any members,
\* reservations, amounts and multipliers and any order of the transactions.
THEOREM MoneyAccounted == Spec => []MoneyIsAccounted
<1>1. Init => MoneyIsAccounted
  BY InitAccounted
<1>2. TypeOK /\ TypeOK' /\ Lifecycle /\ MoneyIsAccounted /\ [Next]_vars => MoneyIsAccounted'
  BY StepMovesCollateral, StepMovesFees, WealthKept, PotsKept, FeesKept DEF MoneyIsAccounted
<1> QED
  BY <1>1, <1>2, TypeCorrect, LifecycleCorrect, PTL DEF Spec
=============================================================================
