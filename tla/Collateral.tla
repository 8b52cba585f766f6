----------------------------- MODULE Collateral -----------------------------
(***************************************************************************)
(* What the pool promises about benchmark collateral, with nothing of how  *)
(* a benchmark runs: an amount leaves a member's available balance when a  *)
(* reservation is made, and goes back to that member or to the pot of the  *)
(* round, once, whole, and to the pot only if the member took the work     *)
(* over.  Benchmarks.tla implements this specification.                    *)
(***************************************************************************)
EXTENDS Integers

CONSTANTS Members, Reservations, Rounds,
          MemberOf,        \* [Reservations -> Members]
          CreationRound,   \* [Reservations -> Rounds]
          InitialAvailable \* [Members -> Nat]

VARIABLES
    free,      \* [Members -> Nat], what a member may still use
    escrow,    \* [Reservations -> Nat], collateral locked for a reservation
    status,    \* [Reservations -> Status]
    takenOver, \* [Reservations -> BOOLEAN], the member confirmed the work
    forfeits   \* [Rounds -> Nat], forfeited collateral in the round's pot

vars == <<free, escrow, status, takenOver, forfeits>>

Status == {"idle", "locked", "returned", "forfeited"}

Init ==
    /\ free = InitialAvailable
    /\ escrow = [r \in Reservations |-> 0]
    /\ status = [r \in Reservations |-> "idle"]
    /\ takenOver = [r \in Reservations |-> FALSE]
    /\ forfeits = [x \in Rounds |-> 0]

Lock(r) ==
    /\ status[r] = "idle"
    /\ \E amount \in 0..free[MemberOf[r]] :
          /\ free' = [free EXCEPT ![MemberOf[r]] = @ - amount]
          /\ escrow' = [escrow EXCEPT ![r] = amount]
    /\ status' = [status EXCEPT ![r] = "locked"]
    /\ UNCHANGED <<takenOver, forfeits>>

TakeOver(r) ==
    /\ status[r] = "locked"
    /\ takenOver' = [takenOver EXCEPT ![r] = TRUE]
    /\ UNCHANGED <<free, escrow, status, forfeits>>

Return(r) ==
    /\ status[r] = "locked"
    /\ free' = [free EXCEPT ![MemberOf[r]] = @ + escrow[r]]
    /\ escrow' = [escrow EXCEPT ![r] = 0]
    /\ status' = [status EXCEPT ![r] = "returned"]
    /\ UNCHANGED <<takenOver, forfeits>>

Forfeit(r) ==
    /\ status[r] = "locked"
    /\ takenOver[r]
    /\ forfeits' = [forfeits EXCEPT ![CreationRound[r]] = @ + escrow[r]]
    /\ escrow' = [escrow EXCEPT ![r] = 0]
    /\ status' = [status EXCEPT ![r] = "forfeited"]
    /\ UNCHANGED <<free, takenOver>>

Next == \E r \in Reservations : Lock(r) \/ TakeOver(r) \/ Return(r) \/ Forfeit(r)

Spec == Init /\ [][Next]_vars
=============================================================================
