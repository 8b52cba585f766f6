------------------------------ MODULE Custody -------------------------------
(***************************************************************************)
(* The custody wallet: withdrawals of members and of the operator, top-ups *)
(* of the fee balance at TIG, the nonces they share, what the chain makes  *)
(* of what the operator signs by hand, and the observer that compares the  *)
(* books with the chain (withdrawals.py, topups.py, custody.py, receive of *)
(* deposits.py, record and status of chain_observer.py).                   *)
(*                                                                         *)
(* The service holds no key.  It fixes a nonce, an amount and a recipient; *)
(* from then on the operator may sign that transaction at any time, or     *)
(* another one with the same nonce.  The chain executes one transaction    *)
(* per nonce, in order of the nonces.  "The chain" is the finalized chain: *)
(* the pool believes nothing else.  The operator is assumed to sign token  *)
(* transfers only as the instructions of a send fix them.                  *)
(*                                                                         *)
(* Every handler is one transaction under the custody-identity lock and    *)
(* the lock of the member, of the operator or of the protocol budget.      *)
(* Ages (of a preflight, a check, a policy), gas caps and the pilot only   *)
(* refuse calls, and a refused call is a step not taken.  Archived         *)
(* evidence, claimed hashes and the event log are left out.                *)
(***************************************************************************)
EXTENDS Integers, FiniteSets, Sequences, Functions

CONSTANTS
    Members, Operator,
    Withdrawals, Topups,
    OwnerOf,      \* [Withdrawals -> Members \union {Operator}]
    Amount,       \* [Withdrawals \union Topups -> Nat \ {0}]
    FeeLimit,     \* native units committed to each send
    Fees,         \* what a transaction may really cost, the limit or more
    Reserve,      \* what an operator withdrawal must leave of operator funds
    Receipts,     \* incoming transfers
    Asset, Value, \* [Receipts -> {"tig", "native"}], [Receipts -> Nat \ {0}]
    Callers,      \* that hold a preflight
    Cursors,      \* of the observer at first: 1, or 0 when there is none
    MaxNonce,     \* bound on the transactions of the wallet
    Cooldown,     \* seven days
    MaxTime,      \* bound on the clock
    InitialAvailable, InitialOperator, InitialNative \* opening balances

Sends  == Withdrawals \union Topups
Nonces == 0..MaxNonce

ASSUME SendsAssumption ==
    /\ Withdrawals \intersect Topups = {}
    /\ Operator \notin Members
    /\ Cursors \subseteq {0, 1}
    /\ OwnerOf \in [Withdrawals -> Members \union {Operator}]
    /\ MaxNonce \in Nat

\* The tables are finite.
ASSUME TablesAssumption ==
    IsFiniteSet(Members) /\ IsFiniteSet(Sends) /\ IsFiniteSet(Receipts)

ASSUME AmountsAssumption ==
    /\ Amount \in [Sends -> Nat \ {0}]
    /\ Asset \in [Receipts -> {"tig", "native"}]
    /\ Value \in [Receipts -> Nat \ {0}]
    /\ FeeLimit \in Nat \ {0} /\ Fees \subseteq Nat /\ Reserve \in Nat
    /\ Cooldown \in Nat /\ MaxTime \in Nat
    /\ InitialAvailable \in [Members -> Nat]
    /\ InitialOperator \in Nat /\ InitialNative \in Nat

VARIABLES
    \* requests and sends
    state,     \* of each withdrawal and top-up
    send,      \* custody_sends, what each nonce is reserved for and since when
    payment,   \* custody_payments, the recorded outcome of each nonce
    lastPaid,  \* members.last_paid_at
    \* ledger
    available, \* of the members
    pending,   \* withdrawal:<id>, and the held TIG of a top-up
    operator,  \* operator:custody:TIG
    inbox,     \* unattributed:TIG
    native,    \* operator:custody:NATIVE
    gasHeld,   \* the fee commitment of each nonce
    received,  \* recorded receipts
    \* callers and the observer
    preflight, cursor,
    check,     \* the latest of custody_checks if it is healthy
    \* the chain and the clock
    mined,     \* what the chain did with each nonce, and at which height
    arrived,   \* the height of each receipt, 0 before
    chain,     \* the history of the custody wallet, one snapshot per height
    now

sendVars   == <<state, send, payment, lastPaid>>
tigVars    == <<available, pending, operator, inbox>>
nativeVars == <<native, gasHeld>>
ledgerVars == <<tigVars, nativeVars, received>>
localVars  == <<preflight, cursor, check>>
chainVars  == <<mined, arrived, chain>>
vars       == <<sendVars, ledgerVars, localVars, chainVars, now>>

Nothing  == [of |-> "nothing"]
Unmined  == [outcome |-> "none", fee |-> 0, height |-> 0]

\* "sponsored" is an EIP-7702 authorization of the wallet that a relayer sent
\* and paid for; "other" is any successful transaction that is neither a fixed
\* token transfer nor an empty transfer to the wallet itself ("cancelled").
Pays     == {"paid", "sponsored"}
Outcomes == Pays \union {"failed", "cancelled", "other"}

Unresolved == {"requested", "approved", "uncertain"}
WithdrawalStates == {"none", "paid", "cancelled", "rejected"} \union Unresolved
TopupStates == {"none", "uncertain", "awaiting_protocol", "failed", "cancelled", "credited"}

SumOf(f) == SumFunctionOnSet(f, DOMAIN f)

\* ledger.backing: what the books say is in custody.
Backing == [tig |-> SumOf(available) + SumOf(pending) + operator + inbox,
            native |-> native + SumOf(gasHeld)]

Tip == chain[Len(chain)]

\* The observer may be absent: it can only be started on an empty ledger.
Init ==
    /\ state = [w \in Sends |-> "none"]
    /\ send = [n \in Nonces |-> Nothing]
    /\ payment = [n \in Nonces |-> "none"]
    /\ lastPaid = [m \in Members |-> -Cooldown]
    /\ available = InitialAvailable
    /\ pending = [w \in Sends |-> 0]
    /\ operator = InitialOperator
    /\ inbox = 0
    /\ native = InitialNative
    /\ gasHeld = [n \in Nonces |-> 0]
    /\ received = {}
    /\ preflight = [c \in Callers |-> Nothing]
    /\ cursor \in Cursors
    /\ check = Nothing
    /\ mined = [n \in Nonces |-> Unmined]
    /\ arrived = [d \in Receipts |-> 0]
    /\ chain = <<[tig |-> SumOf(InitialAvailable) + InitialOperator,
                  native |-> InitialNative, nonces |-> 0, time |-> 0]>>
    /\ now = 0

-----------------------------------------------------------------------------
(***************************************************************************)
(* Requests.                                                               *)
(***************************************************************************)

PendingOf(o) == {w \in Withdrawals : OwnerOf[w] = o /\ state[w] \in Unresolved}

\* Seven days after the previous successful withdrawal.
Due_unchecked(m) == TRUE
Due(m) == now >= lastPaid[m] + Cooldown

\* request
Request(w) ==
    LET m == OwnerOf[w] IN
    /\ m \in Members
    /\ state[w] = "none"
    /\ Due(m)
    /\ PendingOf(m) = {}
    /\ available[m] >= Amount[w]
    /\ available' = [available EXCEPT ![m] = @ - Amount[w]]
    /\ pending' = [pending EXCEPT ![w] = Amount[w]]
    /\ state' = [state EXCEPT ![w] = "requested"]
    /\ UNCHANGED <<send, payment, lastPaid, operator, inbox, nativeVars, received,
                   localVars, chainVars, now>>

\* request_operator
RequestOperator(w) ==
    /\ OwnerOf[w] = Operator
    /\ state[w] = "none"
    /\ PendingOf(Operator) = {}
    /\ operator >= Amount[w] + Reserve
    /\ operator' = operator - Amount[w]
    /\ pending' = [pending EXCEPT ![w] = Amount[w]]
    /\ state' = [state EXCEPT ![w] = "requested"]
    /\ UNCHANGED <<send, payment, lastPaid, available, inbox, nativeVars, received,
                   localVars, chainVars, now>>

\* approve
Approve(w) ==
    /\ state[w] = "requested"
    /\ state' = [state EXCEPT ![w] = "approved"]
    /\ UNCHANGED <<send, payment, lastPaid, ledgerVars, localVars, chainVars, now>>

\* release: the member cancels or the operator rejects, before any unresolved
\* send.  The amount goes back to where it came from.
Releasable_uncertain(w) == state[w] \in Unresolved
Releasable(w) == state[w] \in {"requested", "approved"}

Release(w, s) ==
    /\ Releasable(w)
    /\ s = "cancelled" => OwnerOf[w] \in Members
    /\ state' = [state EXCEPT ![w] = s]
    /\ pending' = [pending EXCEPT ![w] = 0]
    /\ \/ /\ OwnerOf[w] = Operator
          /\ operator' = operator + Amount[w]
          /\ UNCHANGED available
       \/ /\ OwnerOf[w] \in Members
          /\ available' = [available EXCEPT ![OwnerOf[w]] = @ + Amount[w]]
          /\ UNCHANGED operator
    /\ UNCHANGED <<send, payment, lastPaid, inbox, nativeVars, received,
                   localVars, chainVars, now>>

-----------------------------------------------------------------------------
(***************************************************************************)
(* Sends.                                                                  *)
(***************************************************************************)

\* Chain.preflight: the balances of the finalized chain and the pending nonce
\* of a wallet without delegated code.  Any nonce that is not executed may be
\* pending: a transaction that was signed may still be replaced.
TakePreflight(c, n) ==
    /\ n >= Tip.nonces
    /\ \A k \in Nonces : mined[k].outcome # "sponsored"
    /\ preflight' = [preflight EXCEPT ![c] = [nonce |-> n, tig |-> Tip.tig,
                                              native |-> Tip.native]]
    /\ UNCHANGED <<sendVars, ledgerVars, cursor, check, chainVars, now>>

\* chain_observer.status: the latest check is healthy and the books have not
\* changed since.
Ready_unhealthy == TRUE
Ready == check # Nothing /\ check.recorded = Backing

\* What both begin functions check before they reserve a nonce.
NonceFree_unchecked(n) == TRUE
NonceFree(n) == send[n] = Nothing

Reconciled(c) ==
    /\ Backing = [tig |-> preflight[c].tig, native |-> preflight[c].native]
    /\ cursor > 0 => Ready

\* custody.reserve_nonce and the fee commitment.
ReserveNonce(n, w) ==
    /\ NonceFree(n)
    /\ native >= FeeLimit
    /\ send' = [send EXCEPT ![n] = [of |-> w, since |-> now]]
    /\ native' = native - FeeLimit
    /\ gasHeld' = [gasHeld EXCEPT ![n] = FeeLimit]
    /\ state' = [state EXCEPT ![w] = "uncertain"]

\* withdrawals.begin
Sendable_unresolved(w) == state[w] \in {"approved", "uncertain"}
Sendable(w) == state[w] = "approved"

Begin(c, w) ==
    /\ preflight[c] # Nothing
    /\ Sendable(w)
    /\ OwnerOf[w] = Operator => operator >= Reserve
    /\ Reconciled(c)
    /\ ReserveNonce(preflight[c].nonce, w)
    /\ UNCHANGED <<payment, lastPaid, tigVars, received, localVars, chainVars, now>>

\* topups.begin
BeginTopup(c, p) ==
    /\ preflight[c] # Nothing
    /\ state[p] = "none"
    /\ Reconciled(c)
    /\ operator >= Amount[p]
    /\ operator' = operator - Amount[p]
    /\ pending' = [pending EXCEPT ![p] = Amount[p]]
    /\ ReserveNonce(preflight[c].nonce, p)
    /\ UNCHANGED <<payment, lastPaid, available, inbox, received, localVars, chainVars, now>>

-----------------------------------------------------------------------------
(***************************************************************************)
(* The chain.                                                              *)
(***************************************************************************)

Extend(tig, coins, nonces) ==
    chain' = Append(chain, [tig |-> tig, native |-> coins, nonces |-> nonces, time |-> now])

\* The transaction with the next nonce is executed.
Mine(outcome, fee) ==
    LET n == Tip.nonces
        amount == IF outcome \in Pays THEN Amount[send[n].of] ELSE 0
    IN
    /\ n \in Nonces
    /\ outcome \in Pays => send[n] # Nothing
    /\ outcome = "sponsored" => fee = 0 /\ send[n].of \in Withdrawals
    /\ Tip.tig >= amount /\ Tip.native >= fee
    /\ mined' = [mined EXCEPT ![n] = [outcome |-> outcome, fee |-> fee,
                                      height |-> Len(chain) + 1]]
    /\ Extend(Tip.tig - amount, Tip.native - fee, n + 1)
    /\ UNCHANGED <<sendVars, ledgerVars, localVars, arrived, now>>

\* Somebody sends tokens or native units to the custody wallet.
Arrive(d) ==
    /\ arrived[d] = 0
    /\ arrived' = [arrived EXCEPT ![d] = Len(chain) + 1]
    /\ \/ Asset[d] = "tig" /\ Extend(Tip.tig + Value[d], Tip.native, Tip.nonces)
       \/ Asset[d] = "native" /\ Extend(Tip.tig, Tip.native + Value[d], Tip.nonces)
    /\ UNCHANGED <<sendVars, ledgerVars, localVars, mined, now>>

Tick ==
    /\ now < MaxTime
    /\ now' = now + 1
    /\ UNCHANGED <<sendVars, ledgerVars, localVars, chainVars>>

-----------------------------------------------------------------------------
(***************************************************************************)
(* Reconciliation with the chain.                                          *)
(***************************************************************************)

MinedAt(n) == chain[mined[n].height].time

\* The evidence is of the send's nonce, not older than the send, and not used.
Evidence(n) ==
    /\ send[n] # Nothing
    /\ mined[n] # Unmined
    /\ MinedAt(n) >= send[n].since
    /\ payment[n] = "none"
    /\ state[send[n].of] = "uncertain"

\* The commitment is used up and the fee leaves custody.
SpendGas(n) ==
    /\ native + FeeLimit >= mined[n].fee
    /\ native' = native + FeeLimit - mined[n].fee
    /\ gasHeld' = [gasHeld EXCEPT ![n] = 0]

\* withdrawals.reconcile, and reconcile_sponsored (where the fee is nothing).
ReconcileWithdrawal(n) ==
    LET w == send[n].of
        paid == mined[n].outcome \in Pays
    IN
    /\ Evidence(n)
    /\ w \in Withdrawals
    /\ mined[n].outcome # "other"
    /\ SpendGas(n)
    /\ payment' = [payment EXCEPT ![n] = mined[n].outcome]
    /\ state' = [state EXCEPT ![w] = IF paid THEN "paid" ELSE "approved"]
    /\ pending' = [pending EXCEPT ![w] = IF paid THEN 0 ELSE @]
    /\ lastPaid' = [m \in Members |->
                       IF paid /\ OwnerOf[w] = m THEN MinedAt(n) ELSE lastPaid[m]]
    /\ UNCHANGED <<send, available, operator, inbox, received, localVars, chainVars, now>>

\* topups.reconcile: the held tokens left for TIG, or are the operator's again.
Returned(n) == IF mined[n].outcome \in Pays THEN 0 ELSE Amount[send[n].of]

ReconcileTopup(n) ==
    LET p == send[n].of IN
    /\ Evidence(n)
    /\ p \in Topups
    /\ mined[n].outcome \notin {"sponsored", "other"}
    /\ SpendGas(n)
    /\ payment' = [payment EXCEPT ![n] = mined[n].outcome]
    /\ pending' = [pending EXCEPT ![p] = 0]
    /\ operator' = operator + Returned(n)
    /\ state' = [state EXCEPT ![p] = IF mined[n].outcome = "paid"
                                     THEN "awaiting_protocol" ELSE mined[n].outcome]
    /\ UNCHANGED <<send, lastPaid, available, inbox, received, localVars, chainVars, now>>

\* topups.credit: TIG lists the transfer of this top-up.
Credit(p) ==
    /\ state[p] = "awaiting_protocol"
    /\ state' = [state EXCEPT ![p] = "credited"]
    /\ UNCHANGED <<send, payment, lastPaid, ledgerVars, localVars, chainVars, now>>

\* deposits.receive: to the member whose wallet sent it, or not yet attributed.
ReceiveToken(d) ==
    /\ Asset[d] = "tig"
    /\ arrived[d] > 0
    /\ d \notin received
    /\ received' = received \union {d}
    /\ \/ inbox' = inbox + Value[d] /\ UNCHANGED available
       \/ /\ \E m \in Members : available' = [available EXCEPT ![m] = @ + Value[d]]
          /\ UNCHANGED inbox
    /\ UNCHANGED <<sendVars, pending, operator, nativeVars, localVars, chainVars, now>>

\* custody.receive_native
ReceiveNative(d) ==
    /\ Asset[d] = "native"
    /\ arrived[d] > 0
    /\ d \notin received
    /\ received' = received \union {d}
    /\ native' = native + Value[d]
    /\ UNCHANGED <<sendVars, tigVars, gasHeld, localVars, chainVars, now>>

\* What the check of the observer at a height counts and compares.
MinedBy(last) == {n \in Nonces : mined[n].height \in 1..last}
Accounted_later(last) == Cardinality({n \in Nonces : payment[n] # "none"})
Accounted(last) == Cardinality({n \in MinedBy(last) : payment[n] # "none"})

Healthy(last, target) ==
    /\ last = target
    /\ Backing = [tig |-> chain[last].tig, native |-> chain[last].native]
    /\ Accounted(last) = chain[last].nonces
    /\ \A n \in MinedBy(last) :
          mined[n].outcome \in Pays => payment[n] = mined[n].outcome

\* chain_observer.record of a capture from the cursor to height last, made when
\* the chain ended at target.  A height here is a change of the wallet with the
\* blocks up to the next change, so a capture may stay at the height of the
\* cursor.  The receipts of the capture were committed one by one before (a
\* crash in between leaves the cursor behind them); the books it compares are
\* those of the moment.
RecordCapture(last, target) ==
    /\ cursor > 0
    /\ cursor <= last /\ last <= target
    /\ \A d \in Receipts :
          Asset[d] = "tig" /\ arrived[d] \in 1..last => d \in received
    /\ cursor' = last
    /\ check' = IF Healthy(last, target)
                THEN [recorded |-> Backing, height |-> last] ELSE Nothing
    /\ UNCHANGED <<sendVars, ledgerVars, preflight, chainVars, now>>

\* _failure: a capture that cannot be read or does not fit the cursor leaves an
\* unhealthy check.
CaptureFails ==
    /\ cursor > 0
    /\ check' = Nothing
    /\ UNCHANGED <<sendVars, ledgerVars, preflight, cursor, chainVars, now>>

-----------------------------------------------------------------------------

WithdrawalStep(w) ==
    \/ Request(w)
    \/ RequestOperator(w)
    \/ Approve(w)
    \/ \E s \in {"cancelled", "rejected"} : Release(w, s)

Sending(c) ==
    \/ \E n \in Nonces : TakePreflight(c, n)
    \/ \E w \in Withdrawals : Begin(c, w)
    \/ \E p \in Topups : BeginTopup(c, p)

World ==
    \/ \E outcome \in Outcomes, fee \in Fees \union {0} :
          (fee = 0 => outcome = "sponsored") /\ Mine(outcome, fee)
    \/ \E d \in Receipts : Arrive(d)
    \/ Tick

Reconciliation ==
    \/ \E n \in Nonces : ReconcileWithdrawal(n) \/ ReconcileTopup(n)
    \/ \E p \in Topups : Credit(p)
    \/ \E d \in Receipts : ReceiveToken(d) \/ ReceiveNative(d)
    \/ \E last, target \in 1..Len(chain) : RecordCapture(last, target)
    \/ CaptureFails

Next ==
    \/ \E w \in Withdrawals : WithdrawalStep(w)
    \/ \E c \in Callers : Sending(c)
    \/ World
    \/ Reconciliation

Spec == Init /\ [][Next]_vars

-----------------------------------------------------------------------------
(***************************************************************************)
(* Properties.                                                             *)
(***************************************************************************)

\* The transactions of the wallet that the books do not contain yet.
Open == {n \in Nonces : mined[n] # Unmined /\ payment[n] = "none"}

Leaving  == [n \in Open |-> IF mined[n].outcome \in Pays THEN Amount[send[n].of] ELSE 0]
Spending == [n \in Open |-> mined[n].fee]
Incoming(asset) == {d \in Receipts : Asset[d] = asset /\ arrived[d] > 0 /\ d \notin received}

\* At every moment the wallet holds what the books say, and what has arrived
\* and is not recorded, less what left and is not reconciled: nothing is booked
\* twice, on no path of an attempt, every member's money is in custody, and the
\* operator's accounts cover what fees above their limit take.
BooksAreChain ==
    /\ Tip.tig = Backing.tig + SumFunctionOnSet(Value, Incoming("tig")) - SumOf(Leaving)
    /\ Tip.native = Backing.native + SumFunctionOnSet(Value, Incoming("native")) - SumOf(Spending)
    /\ operator >= 0 /\ native >= 0

\* The transactions that pay w on the chain.
Paying(w) == {n \in Nonces : send[n] # Nothing /\ send[n].of = w /\ mined[n].outcome \in Pays}

Settled  == {"paid", "awaiting_protocol", "credited"}
Closed   == {"cancelled", "rejected", "failed"}

\* A request is paid in the books only if the chain paid it; and unless its last
\* attempt is uncertain, no transaction that was ever fixed for it has paid, or
\* can still be executed, whatever the operator signed: only then may it be
\* released, attempted again or given up.
OutcomeIsChain ==
    \A w \in Sends :
        /\ state[w] \in Settled => Paying(w) # {}
        /\ state[w] \notin Settled \union {"uncertain"} =>
              /\ Paying(w) = {}
              /\ \A n \in Nonces :
                    send[n] # Nothing /\ send[n].of = w => mined[n] # Unmined
        /\ pending[w] > 0 <=> state[w] \in Unresolved

\* Two payments to one member are at least seven days of block time apart.
CooldownHolds ==
    \A v, w \in Withdrawals :
        v # w /\ OwnerOf[v] = OwnerOf[w] /\ OwnerOf[v] \in Members =>
            \A k \in Paying(v), n \in Paying(w) :
                \/ MinedAt(k) >= MinedAt(n) + Cooldown
                \/ MinedAt(n) >= MinedAt(k) + Cooldown

\* A healthy check at a height means that every transaction of the wallet up to
\* that height is in the books, with the outcome that the chain gave it.
HealthyIsReconciled ==
    check # Nothing =>
        \A n \in MinedBy(check.height) : payment[n] = mined[n].outcome

\* An attempt begins on books that contain everything the observer has passed:
\* after the step that reserves a nonce, no earlier transaction up to the
\* cursor, and no token receipt up to it, is missing from the books.
BeginsReconciled ==
    [][cursor > 0 /\ send' # send =>
          /\ \A n \in MinedBy(cursor) : payment[n] # "none"
          /\ \A d \in Receipts :
                Asset[d] = "tig" /\ arrived[d] \in 1..cursor => d \in received]_vars

-----------------------------------------------------------------------------
(***************************************************************************)
(* The promise about payouts.                                              *)
(***************************************************************************)
PayoutStatus ==
    [w \in Sends |->
        IF state[w] = "none" THEN "idle"
        ELSE IF state[w] \in Closed THEN "closed"
        ELSE IF Paying(w) # {} THEN "paid" ELSE "open"]

Payout == INSTANCE Payouts WITH
    Requests <- Sends,
    Transactions <- Nonces,
    status <- PayoutStatus,
    payments <- [w \in Sends |-> Paying(w)]

\* Whatever is signed, lost, replaced or reconciled late, a request is paid once
\* or closed unpaid, for good.
ImplementsPayouts == Payout!Spec
=============================================================================
