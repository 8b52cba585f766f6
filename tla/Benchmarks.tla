----------------------------- MODULE Benchmarks -----------------------------
(***************************************************************************)
(* Reservations: the collateral, the benchmark slot and the fee commitment *)
(* of one unit of work, from the request to the final disposition of the   *)
(* collateral (benchmarks.py, finalize_collateral of settlement.py,        *)
(* controls.set_pause, members.set_multiplier, the reservations table).    *)
(*                                                                         *)
(* Every action is one database transaction: the code takes the budget     *)
(* lock, the member row and the reservation row before it reads, so its    *)
(* reads and writes are atomic.  A transaction that raises rolls back,     *)
(* which is a step not taken, and so is a repeated call that returns the   *)
(* row it finds.                                                           *)
(*                                                                         *)
(* A reservation is identified with its (member_id, request_key), which    *)
(* the table makes unique; base amount, fee limit and creation round are   *)
(* inputs of the request and never change (protect_reservation), so they   *)
(* are constants.  What other components decide (is there evidence of the  *)
(* acceptance, does a sealed report exist) is a free choice here and is    *)
(* bound by the modules that compose this one.  The deployment-wide caps   *)
(* of pilot.py and spending.py only refuse calls and are left out.         *)
(***************************************************************************)
EXTENDS Integers, FiniteSets, Functions

CONSTANTS
    Members, Reservations, Rounds, BenchmarkIds,
    NoBenchmark,       \* the NULL benchmark_id
    MemberOf,          \* [Reservations -> Members]
    CreationRound,     \* [Reservations -> Rounds]
    Base,              \* [Reservations -> Nat], collateral before the multiplier
    FeeLimit,          \* [Reservations -> Nat], committed submission fee
    Scale,             \* a multiplier m stands for m / Scale
    Multipliers,       \* multipliers an operator may set
    MaxSlots,          \* 2 in the code
    InitialAvailable,  \* [Members -> Nat]
    InitialFees        \* opening balance of the operator fee account

ASSUME MembersAssumption ==
    /\ MemberOf \in [Reservations -> Members]
    /\ CreationRound \in [Reservations -> Rounds]
    /\ NoBenchmark \notin BenchmarkIds

ASSUME MoneyAssumption ==
    /\ Base \in [Reservations -> Nat]
    /\ FeeLimit \in [Reservations -> Nat]
    /\ InitialAvailable \in [Members -> Nat]
    /\ InitialFees \in Nat

ASSUME MultiplierAssumption ==
    /\ Scale \in Nat \ {0}
    /\ Multipliers \subseteq 0..Scale
    /\ Scale \in Multipliers

ASSUME SlotsAssumption == MaxSlots \in Nat /\ IsFiniteSet(Reservations)

VARIABLES
    \* the reservations table
    state, slotHeld, outcome, amount, feeActual, benchmark, handed,
    offerExpired,  \* offer_expires_at <= now
    work,          \* a benchmark_payloads or benchmark_progress row exists
    \* members and runtime_controls
    multiplier, paused,
    \* ledger accounts
    available, held, committed, operatorFees, protocolSpent, pot

rowVars    == <<state, slotHeld, outcome, amount, feeActual, benchmark, handed>>
ledgerVars == <<available, held, committed, operatorFees, protocolSpent, pot>>
factVars   == <<offerExpired, work, multiplier, paused>>
vars       == <<rowVars, ledgerVars, factVars>>

NoFee == -1   \* the NULL fee_actual

Definitive == {"active", "verification_failed", "expired"}
Occupying  == {"reserved", "uncertain", "accepted"}
Released   == {"rejected", "cancelled"}
States     == {"none"} \union Occupying \union Released \union Definitive

(***************************************************************************)
(* A sealed report names a result or is still unresolved (result None).    *)
(***************************************************************************)
Results == {"unresolved", "reproducible", "nonreproducible"}

Init ==
    /\ state = [r \in Reservations |-> "none"]
    /\ slotHeld = [r \in Reservations |-> FALSE]
    /\ outcome = [r \in Reservations |-> "none"]
    /\ amount = [r \in Reservations |-> 0]
    /\ feeActual = [r \in Reservations |-> NoFee]
    /\ benchmark = [r \in Reservations |-> NoBenchmark]
    /\ handed = [r \in Reservations |-> FALSE]
    /\ offerExpired = [r \in Reservations |-> FALSE]
    /\ work = [r \in Reservations |-> FALSE]
    /\ multiplier = [m \in Members |-> Scale]
    /\ paused = FALSE
    /\ available = InitialAvailable
    /\ held = [r \in Reservations |-> 0]
    /\ committed = [r \in Reservations |-> 0]
    /\ operatorFees = InitialFees
    /\ protocolSpent = 0
    /\ pot = [x \in Rounds |-> 0]

-----------------------------------------------------------------------------
(***************************************************************************)
(* The ledger.                                                             *)
(***************************************************************************)

\* money.collateral: the multiplied base, rounded up to a token unit.
Collateral(base, mu) == (base * mu + Scale - 1) \div Scale

\* ledger.post refuses a journal that takes an account of the pool below 0.
Covers_open(balance, x) == TRUE
Covers(balance, x) == balance >= x

\* benchmarks._fees: the commitment is used up, the unused part goes back.
Fees(r, actual) ==
    /\ actual <= FeeLimit[r]
    /\ Covers(committed[r], FeeLimit[r])
    /\ committed' = [committed EXCEPT ![r] = @ - FeeLimit[r]]
    /\ operatorFees' = operatorFees + FeeLimit[r] - actual
    /\ protocolSpent' = protocolSpent + actual
    /\ feeActual' = [feeActual EXCEPT ![r] = actual]

\* The held collateral goes back to the member.
ReturnCollateral_current(r) ==
    LET current == Collateral(Base[r], multiplier[MemberOf[r]]) IN
    /\ Covers(held[r], amount[r])
    /\ available' = [available EXCEPT ![MemberOf[r]] = @ + current]
    /\ held' = [held EXCEPT ![r] = @ - amount[r]]
    /\ outcome' = [outcome EXCEPT ![r] = "returned"]
    /\ UNCHANGED pot
ReturnCollateral_unmarked(r) ==
    /\ Covers(held[r], amount[r])
    /\ available' = [available EXCEPT ![MemberOf[r]] = @ + amount[r]]
    /\ held' = [held EXCEPT ![r] = @ - amount[r]]
    /\ UNCHANGED <<outcome, pot>>
ReturnCollateral(r) ==
    /\ Covers(held[r], amount[r])
    /\ available' = [available EXCEPT ![MemberOf[r]] = @ + amount[r]]
    /\ held' = [held EXCEPT ![r] = @ - amount[r]]
    /\ outcome' = [outcome EXCEPT ![r] = "returned"]
    /\ UNCHANGED pot

\* The held collateral goes to the pot of the benchmark's creation round.
ForfeitCollateral(r) ==
    /\ Covers(held[r], amount[r])
    /\ pot' = [pot EXCEPT ![CreationRound[r]] = @ + amount[r]]
    /\ held' = [held EXCEPT ![r] = @ - amount[r]]
    /\ outcome' = [outcome EXCEPT ![r] = "forfeited"]
    /\ UNCHANGED available

-----------------------------------------------------------------------------
(***************************************************************************)
(* Reservation and submission.                                             *)
(***************************************************************************)

Slots(m) == {r \in Reservations : MemberOf[r] = m /\ slotHeld[r]}

SlotFree_offByOne(m) == Cardinality(Slots(m)) <= MaxSlots
SlotFree(m) == Cardinality(Slots(m)) < MaxSlots

\* reserve: collateral, slot and fee commitment in one transaction.
Reserve(r) ==
    LET m == MemberOf[r]
        c == Collateral(Base[r], multiplier[m])
    IN
    /\ state[r] = "none"
    /\ ~paused
    /\ ~offerExpired[r]
    /\ SlotFree(m)
    /\ Covers(available[m], c)
    /\ Covers(operatorFees, FeeLimit[r])
    /\ state' = [state EXCEPT ![r] = "reserved"]
    /\ slotHeld' = [slotHeld EXCEPT ![r] = TRUE]
    /\ amount' = [amount EXCEPT ![r] = c]
    /\ available' = [available EXCEPT ![m] = @ - c]
    /\ held' = [held EXCEPT ![r] = c]
    /\ operatorFees' = operatorFees - FeeLimit[r]
    /\ committed' = [committed EXCEPT ![r] = FeeLimit[r]]
    /\ UNCHANGED <<outcome, feeActual, benchmark, handed, protocolSpent, pot, factVars>>

\* mark_submitting: uncertainty is committed before the first network write.
MarkSubmitting(r) ==
    /\ state[r] = "reserved"
    /\ ~offerExpired[r]
    /\ state' = [state EXCEPT ![r] = "uncertain"]
    /\ UNCHANGED <<slotHeld, outcome, amount, feeActual, benchmark, handed,
                   ledgerVars, factVars>>

\* accept: the evidence names benchmark b and the fee TIG charged.  The column
\* benchmark_id is UNIQUE.
Unowned_unchecked(b) == TRUE
Unowned(b) == \A q \in Reservations : benchmark[q] # b

Accept(r, b, actual) ==
    /\ state[r] = "uncertain"
    /\ benchmark[r] = NoBenchmark
    /\ Unowned(b)
    /\ Fees(r, actual)
    /\ state' = [state EXCEPT ![r] = "accepted"]
    /\ benchmark' = [benchmark EXCEPT ![r] = b]
    /\ UNCHANGED <<slotHeld, outcome, amount, handed, available, held, pot, factVars>>

\* release_unstarted(rejected=False): an intent that was never sent.
Cancel(r) ==
    /\ state[r] = "reserved"
    /\ Fees(r, 0)
    /\ ReturnCollateral(r)
    /\ state' = [state EXCEPT ![r] = "cancelled"]
    /\ slotHeld' = [slotHeld EXCEPT ![r] = FALSE]
    /\ UNCHANGED <<amount, benchmark, handed, factVars>>

\* release_unstarted(rejected=True): TIG definitively has no such precommit.
Reject(r, actual) ==
    /\ state[r] = "uncertain"
    /\ Fees(r, actual)
    /\ ReturnCollateral(r)
    /\ state' = [state EXCEPT ![r] = "rejected"]
    /\ slotHeld' = [slotHeld EXCEPT ![r] = FALSE]
    /\ UNCHANGED <<amount, benchmark, handed, factVars>>

\* release_unhanded: an operator returns an accepted but never handed-over
\* assignment, while new work is paused and after the offer has expired.
NotHanded_unchecked(r) == TRUE
NotHanded(r) == ~handed[r] /\ ~work[r]

ReleaseUnhanded(r) ==
    /\ state[r] = "accepted"
    /\ slotHeld[r]
    /\ NotHanded(r)
    /\ paused
    /\ offerExpired[r]
    /\ ReturnCollateral(r)
    /\ state' = [state EXCEPT ![r] = "cancelled"]
    /\ slotHeld' = [slotHeld EXCEPT ![r] = FALSE]
    /\ UNCHANGED <<amount, feeActual, benchmark, handed,
                   committed, operatorFees, protocolSpent, factVars>>

-----------------------------------------------------------------------------
(***************************************************************************)
(* Handover, outcome, disposition.                                         *)
(***************************************************************************)

\* acknowledge: the owner confirms the assignment digest, once.
AwaitsHandover_any(r) == state[r] # "none"
AwaitsHandover(r) == state[r] = "accepted"

Acknowledge(r) ==
    /\ ~handed[r]
    /\ AwaitsHandover(r)
    /\ handed' = [handed EXCEPT ![r] = TRUE]
    /\ UNCHANGED <<state, slotHeld, outcome, amount, feeActual, benchmark,
                   ledgerVars, factVars>>

\* record_outcome: a definitive TIG outcome frees the slot, not the collateral.
RecordOutcome(r, s) ==
    /\ state[r] = "accepted"
    /\ s # "expired" => handed[r]
    /\ state' = [state EXCEPT ![r] = s]
    /\ slotHeld' = [slotHeld EXCEPT ![r] = FALSE]
    /\ UNCHANGED <<outcome, amount, feeActual, benchmark, handed,
                   ledgerVars, factVars>>

\* active_at_height is not NULL.
Activated(r) == state[r] = "active"

\* The disposition that finalize_collateral derives from the sealed reports on
\* this benchmark.
Disposition(r, related) ==
    IF ~handed[r] \/ (Activated(r) /\ "nonreproducible" \notin related)
    THEN "returned" ELSE "forfeited"

Undisposed_unchecked(r) == TRUE
Undisposed(r) == outcome[r] = "none"

\* finalize_collateral, with the results of the sealed reports on r's benchmark.
FinalizeCollateral(r, related) ==
    /\ Undisposed(r)
    /\ state[r] \in Definitive
    /\ ~slotHeld[r]
    /\ "unresolved" \notin related
    /\ ~handed[r] => state[r] = "expired"
    /\ \/ Disposition(r, related) = "returned" /\ ReturnCollateral(r)
       \/ Disposition(r, related) = "forfeited" /\ ForfeitCollateral(r)
    /\ UNCHANGED <<state, slotHeld, amount, feeActual, benchmark, handed,
                   committed, operatorFees, protocolSpent, factVars>>

-----------------------------------------------------------------------------
(***************************************************************************)
(* The facts the transactions read.                                        *)
(***************************************************************************)

OfferExpires(r) ==
    /\ ~offerExpired[r]
    /\ offerExpired' = [offerExpired EXCEPT ![r] = TRUE]
    /\ UNCHANGED <<rowVars, ledgerVars, work, multiplier, paused>>

\* member_protocol._store: a first upload by the member who took the work over.
StoreWork(r) ==
    /\ handed[r]
    /\ state[r] = "accepted"
    /\ work' = [work EXCEPT ![r] = TRUE]
    /\ UNCHANGED <<rowVars, ledgerVars, offerExpired, multiplier, paused>>

\* controls.set_pause, under the budget lock.
SetPause(value) ==
    /\ paused' = value
    /\ UNCHANGED <<rowVars, ledgerVars, offerExpired, work, multiplier>>

\* members.set_multiplier, under the member row lock.
SetMultiplier(m, mu) ==
    /\ multiplier' = [multiplier EXCEPT ![m] = mu]
    /\ UNCHANGED <<rowVars, ledgerVars, offerExpired, work, paused>>

-----------------------------------------------------------------------------

Submission(r) ==
    \/ Reserve(r)
    \/ MarkSubmitting(r)
    \/ \E b \in BenchmarkIds, actual \in 0..FeeLimit[r] : Accept(r, b, actual)
    \/ Cancel(r)
    \/ \E actual \in 0..FeeLimit[r] : Reject(r, actual)
    \/ ReleaseUnhanded(r)

Completion(r) ==
    \/ Acknowledge(r)
    \/ \E s \in Definitive : RecordOutcome(r, s)
    \/ \E related \in SUBSET Results : FinalizeCollateral(r, related)

Facts ==
    \/ \E r \in Reservations : OfferExpires(r) \/ StoreWork(r)
    \/ \E value \in BOOLEAN : SetPause(value)
    \/ \E m \in Members, mu \in Multipliers : SetMultiplier(m, mu)

Next ==
    \/ \E r \in Reservations : Submission(r) \/ Completion(r)
    \/ Facts

Spec == Init /\ [][Next]_vars

-----------------------------------------------------------------------------
(***************************************************************************)
(* Properties.                                                             *)
(***************************************************************************)

\* Types; an account of the pool never goes below zero (ledger.post).
TypeOK ==
    /\ state \in [Reservations -> States]
    /\ slotHeld \in [Reservations -> BOOLEAN]
    /\ outcome \in [Reservations -> {"none", "returned", "forfeited"}]
    /\ amount \in [Reservations -> Nat]
    /\ feeActual \in [Reservations -> Nat \union {NoFee}]
    /\ benchmark \in [Reservations -> BenchmarkIds \union {NoBenchmark}]
    /\ handed \in [Reservations -> BOOLEAN]
    /\ offerExpired \in [Reservations -> BOOLEAN]
    /\ work \in [Reservations -> BOOLEAN]
    /\ multiplier \in [Members -> Multipliers]
    /\ paused \in BOOLEAN
    /\ available \in [Members -> Nat]
    /\ held \in [Reservations -> Nat]
    /\ committed \in [Reservations -> Nat]
    /\ operatorFees \in Nat
    /\ protocolSpent \in Nat
    /\ pot \in [Rounds -> Nat]

\* The collateral account of a reservation holds exactly its amount from the
\* reservation to its one disposition, and its fee commitment exactly the fee
\* limit until TIG's answer is known: no path releases twice, or in part, or
\* leaves money behind (reserve, _fees, the three releases, finalization).
HoldMatchesLifecycle ==
    \A r \in Reservations :
        /\ held[r] = IF state[r] # "none" /\ outcome[r] = "none" THEN amount[r] ELSE 0
        /\ committed[r] = IF state[r] \in {"reserved", "uncertain"} THEN FeeLimit[r] ELSE 0
        /\ feeActual[r] = NoFee <=> state[r] \in {"none", "reserved", "uncertain"}

\* A member never occupies more than MaxSlots slots, and a slot is occupied
\* exactly while the work is neither released nor definitively over.
SlotLimit ==
    /\ \A m \in Members : Cardinality(Slots(m)) <= MaxSlots
    /\ \A r \in Reservations : slotHeld[r] <=> state[r] \in Occupying

\* Collateral is lost only by a member who confirmed the handover and whose
\* benchmark ended; work released as unstarted or unhanded was never handed
\* over, holds no uploads and its collateral is back (DESIGN.md, responsibility
\* starts with the confirmed handover).
ForfeitOnlyIfResponsible ==
    \A r \in Reservations :
        /\ outcome[r] = "forfeited" => handed[r] /\ state[r] \in Definitive
        /\ state[r] \in Released => ~handed[r] /\ ~work[r] /\ outcome[r] = "returned"
        /\ state[r] \in {"active", "verification_failed"} => handed[r]
        /\ work[r] => handed[r]

\* No benchmark that TIG runs is owned by two reservations.
OneOwner ==
    \A r, q \in Reservations :
        benchmark[r] = benchmark[q] => benchmark[r] = NoBenchmark \/ r = q

\* What every transaction keeps, row by row: the strengthening that the proofs
\* of the four invariants above rest on.
RowConsistent(r) ==
    /\ held[r] = IF state[r] # "none" /\ outcome[r] = "none" THEN amount[r] ELSE 0
    /\ committed[r] = IF state[r] \in {"reserved", "uncertain"} THEN FeeLimit[r] ELSE 0
    /\ feeActual[r] = NoFee <=> state[r] \in {"none", "reserved", "uncertain"}
    /\ slotHeld[r] <=> state[r] \in Occupying
    /\ state[r] \in {"none"} \union Occupying => outcome[r] = "none"
    /\ state[r] \in Released => outcome[r] = "returned"
    /\ outcome[r] = "forfeited" => handed[r]
    /\ handed[r] => state[r] \in {"accepted"} \union Definitive
    /\ state[r] \in {"active", "verification_failed"} => handed[r]
    /\ work[r] => handed[r]
    /\ benchmark[r] # NoBenchmark => state[r] \notin {"none", "reserved", "uncertain"}

\* Every reservation row is in a consistent stage of its life, hold, fee, slot,
\* handover and disposition together, whichever calls come in whichever order.
Lifecycle == \A r \in Reservations : RowConsistent(r)

Sum(f, S) == SumFunctionOnSet(f, S)

OwnedBy(m)  == {r \in Reservations : MemberOf[r] = m}
LostBy(m)   == {r \in OwnedBy(m) : outcome[r] = "forfeited"}
LostIn(x)   == {r \in Reservations : CreationRound[r] = x /\ outcome[r] = "forfeited"}
Charged     == {r \in Reservations : feeActual[r] # NoFee}

\* A member's money is only ever where that member put it: available, held for
\* an own reservation, or forfeited by one, whatever other members do and
\* however the multiplier moves in between.
MembersAreWhole ==
    \A m \in Members :
        InitialAvailable[m] = available[m] + Sum(held, OwnedBy(m)) + Sum(amount, LostBy(m))

\* Forfeited collateral is in the pot of the round of the benchmark.
PotsHoldForfeits == \A x \in Rounds : pot[x] = Sum(amount, LostIn(x))

\* The operator pays exactly the fees TIG charged for.
FeesAreActual ==
    /\ InitialFees = operatorFees + Sum(committed, Reservations) + protocolSpent
    /\ protocolSpent = Sum(feeActual, Charged)

\* Every unit of the members and of the operator is accounted for, on every path
\* through reservation, return, forfeit and fee: the journals of benchmarks.py
\* and finalize_collateral add up.
MoneyIsAccounted == MembersAreWhole /\ PotsHoldForfeits /\ FeesAreActual

\* What is recorded stays: the disposition, the owner, the handover, the fee and
\* the amount of a reservation never change once set, a released slot is never
\* taken again, and the collateral of handed-over work moves only in a step
\* that finalizes it after a definitive outcome (protect_reservation states
\* this of the columns; the money follows).
KeepsRecords(r) ==
    /\ outcome[r] # "none" => outcome'[r] = outcome[r] /\ held'[r] = held[r]
    /\ benchmark[r] # NoBenchmark => benchmark'[r] = benchmark[r]
    /\ feeActual[r] # NoFee => feeActual'[r] = feeActual[r]
    /\ handed[r] => handed'[r]
    /\ state[r] # "none" => amount'[r] = amount[r]
    /\ state[r] # "none" /\ ~slotHeld[r] => ~slotHeld'[r]
    /\ handed[r] /\ held'[r] # held[r] => state[r] \in Definitive

\* No step of any caller rewrites what is recorded.
RecordedIsFinal == [][\A r \in Reservations : KeepsRecords(r)]_vars

-----------------------------------------------------------------------------
(***************************************************************************)
(* The collateral promise.                                                 *)
(***************************************************************************)
EscrowStatus ==
    [r \in Reservations |->
        IF state[r] = "none" THEN "idle"
        ELSE IF outcome[r] = "none" THEN "locked" ELSE outcome[r]]

Escrow == INSTANCE Collateral WITH
    free <- available,
    escrow <- held,
    status <- EscrowStatus,
    takenOver <- handed,
    forfeits <- pot

\* Every history of the reservations is a history of the escrow: collateral is
\* locked, and then returned or, if the member took the work over, forfeited.
ImplementsCollateral == Escrow!Spec
=============================================================================
