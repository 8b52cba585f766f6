------------------------------ MODULE Payouts -------------------------------
(***************************************************************************)
(* What the pool promises about money that leaves custody, with nothing of *)
(* nonces, attempts, fees or books: a request is opened, and then either   *)
(* paid by one transaction on the chain, for good, or closed unpaid, for   *)
(* good.  Custody.tla implements this specification.                       *)
(***************************************************************************)
EXTENDS FiniteSets

CONSTANTS Requests, Transactions

VARIABLES
    status,   \* [Requests -> Status]
    payments  \* [Requests -> SUBSET Transactions], what the recipient got

vars == <<status, payments>>

Status == {"idle", "open", "paid", "closed"}

Init ==
    /\ status = [w \in Requests |-> "idle"]
    /\ payments = [w \in Requests |-> {}]

Open(w) ==
    /\ status[w] = "idle"
    /\ status' = [status EXCEPT ![w] = "open"]
    /\ UNCHANGED payments

Pay(w) ==
    /\ status[w] = "open"
    /\ status' = [status EXCEPT ![w] = "paid"]
    /\ \E t \in Transactions : payments' = [payments EXCEPT ![w] = {t}]

Close(w) ==
    /\ status[w] = "open"
    /\ status' = [status EXCEPT ![w] = "closed"]
    /\ UNCHANGED payments

Next == \E w \in Requests : Open(w) \/ Pay(w) \/ Close(w)

Spec == Init /\ [][Next]_vars
=============================================================================
