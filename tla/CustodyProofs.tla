---------------------------- MODULE CustodyProofs ----------------------------
(***************************************************************************)
(* Proofs about the custody wallet: the outcome of a request is what the   *)
(* chain did, two payments to a member are seven days apart, a healthy     *)
(* check means reconciled books, the books are the chain, and a request is *)
(* paid once or closed unpaid.                                             *)
(***************************************************************************)
EXTENDS Custody, Sums

Snapshots == [tig : Int, native : Int, nonces : 0..MaxNonce + 1, time : Nat]

\* Types, with the heights that refer to the chain.
TypeOK ==
    /\ state \in [Sends -> WithdrawalStates \union TopupStates]
    /\ send \in [Nonces -> [of : Sends, since : Nat] \union {Nothing}]
    /\ payment \in [Nonces -> Outcomes \union {"none"}]
    /\ lastPaid \in [Members -> Int]
    /\ available \in [Members -> Nat]
    /\ pending \in [Sends -> Nat]
    /\ operator \in Nat /\ inbox \in Nat /\ native \in Nat
    /\ gasHeld \in [Nonces -> Nat]
    /\ received \in SUBSET Receipts
    /\ preflight \in [Callers -> [nonce : Nonces, tig : Int, native : Int] \union {Nothing}]
    /\ cursor \in 0..Len(chain)
    /\ check \in [recorded : [tig : Int, native : Int], height : Nat] \union {Nothing}
    /\ mined \in [Nonces -> [outcome : Outcomes, fee : Nat, height : 1..Len(chain)]
                              \union {Unmined}]
    /\ arrived \in [Receipts -> 0..Len(chain)]
    /\ chain \in Seq(Snapshots)
    /\ Len(chain) > 0
    /\ now \in Nat

\* The chain executes the nonces in order and is not ahead of the clock.
InOrder ==
    \A h \in 1..Len(chain) :
        /\ chain[h].time <= now
        /\ \A n \in Nonces : n < chain[h].nonces <=> mined[n].height \in 1..h

\* Attempt n was fixed for w.
Attempt(n, w) == send[n] # Nothing /\ send[n].of = w

\* What is recorded of an attempt is what the chain did; a request with an
\* unrecorded attempt is uncertain and has one such attempt; it is settled
\* exactly by a recorded payment; and a nonce without attempt pays nothing.
Recorded ==
    /\ \A n \in Nonces :
          /\ payment[n] # "none" =>
                send[n] # Nothing /\ mined[n] # Unmined /\ payment[n] = mined[n].outcome
          /\ send[n] = Nothing => mined[n].outcome \notin Pays
    /\ \A w \in Sends, n \in Nonces : Attempt(n, w) =>
          /\ payment[n] = "none" => state[w] = "uncertain"
          /\ payment[n] \in Pays => state[w] \in Settled
          /\ \A k \in Nonces : Attempt(k, w) /\ payment[n] = "none" /\ payment[k] = "none" => n = k
    /\ \A w \in Sends :
          state[w] \in Settled => \E n \in Nonces : Attempt(n, w) /\ payment[n] \in Pays

\* The accounts of a request and of a nonce follow their states, and only a
\* withdrawal is requested or approved.
Held ==
    /\ \A w \in Sends : pending[w] = IF state[w] \in Unresolved THEN Amount[w] ELSE 0
    /\ \A n \in Nonces :
          gasHeld[n] = IF send[n] # Nothing /\ payment[n] = "none" THEN FeeLimit ELSE 0
    /\ \A d \in received : arrived[d] > 0

\* A member has one unresolved withdrawal, requested after the cooldown of the
\* last payment, and no payment is later than the recorded one unless it belongs
\* to the unresolved withdrawal.
Spaced ==
    \A w \in Withdrawals : OwnerOf[w] \in Members =>
        LET m == OwnerOf[w] IN
        /\ state[w] \in Unresolved =>
              /\ \A v \in PendingOf(m) : v = w
              /\ lastPaid[m] + Cooldown <= now
              /\ \A n \in Paying(w) : MinedAt(n) >= lastPaid[m] + Cooldown
        /\ state[w] \in Settled => \A n \in Paying(w) : MinedAt(n) <= lastPaid[m]

\* A healthy check is one of the height of the cursor, and all token receipts
\* up to that height are recorded.
Checked ==
    check # Nothing =>
        /\ check.height = cursor
        /\ \A d \in Receipts :
              Asset[d] = "tig" /\ arrived[d] \in 1..cursor => d \in received
-----------------------------------------------------------------------------
(***************************************************************************)
(* Types.                                                                  *)
(***************************************************************************)

\* An account table adds up to an integer.
LEMMA SumOfInt ==
    ASSUME NEW S, IsFiniteSet(S), NEW f \in [S -> Int] PROVE SumOf(f) \in Int
<1>1. DOMAIN f = S /\ \A x \in S : f[x] \in Int
  OBVIOUS
<1> QED
  BY <1>1, SumInt DEF SumOf

\* There are finitely many nonces.
LEMMA NoncesFinite == IsFiniteSet(Nonces)
  BY SendsAssumption, FS_Interval DEF Nonces

\* ledger.backing is a pair of integers.
LEMMA BackingType == ASSUME TypeOK PROVE Backing \in [tig : Int, native : Int]
<1>1. SumOf(available) \in Int
  <2>1. available \in [Members -> Int]
    BY DEF TypeOK
  <2> QED
    BY <2>1, TablesAssumption, SumOfInt
<1>2. SumOf(pending) \in Int
  <2>1. pending \in [Sends -> Int]
    BY DEF TypeOK
  <2> QED
    BY <2>1, TablesAssumption, SumOfInt
<1>3. SumOf(gasHeld) \in Int
  <2>1. gasHeld \in [Nonces -> Int]
    BY DEF TypeOK
  <2> QED
    BY <2>1, NoncesFinite, SumOfInt
<1> QED
  BY <1>1, <1>2, <1>3 DEF Backing, TypeOK

\* The tip is a snapshot.
LEMMA TipType ==
    ASSUME TypeOK
    PROVE  /\ Len(chain) \in Nat \ {0} /\ Tip = chain[Len(chain)] /\ Tip \in Snapshots
           /\ \A h \in 1..Len(chain) : chain[h] \in Snapshots
  BY DEF TypeOK, Tip

\* Times are numbers.
LEMMA TimesType ==
    ASSUME TypeOK
    PROVE  now \in Nat /\ \A m \in Members : lastPaid[m] \in Int
<1>1. now \in Nat /\ lastPaid \in [Members -> Int]
  BY Zenon DEF TypeOK
<1> QED
  BY <1>1

\* A new height leaves the earlier ones alone.
LEMMA Grows ==
    ASSUME TypeOK, NEW x \in Snapshots, chain' = Append(chain, x)
    PROVE  /\ chain' \in Seq(Snapshots)
           /\ Len(chain') = Len(chain) + 1
           /\ \A h \in 1..Len(chain) : chain'[h] = chain[h]
           /\ chain'[Len(chain) + 1] = x /\ Tip' = x
  BY DEF TypeOK, Tip

\* What the chain records of a transaction.
LEMMA MinedType ==
    ASSUME TypeOK, NEW n \in Nonces
    PROVE  /\ mined[n] # Unmined =>
                 /\ mined[n].outcome \in Outcomes /\ mined[n].fee \in Nat
                 /\ mined[n].height \in 1..Len(chain) /\ MinedAt(n) \in Nat
           /\ mined[n] = Unmined =>
                 mined[n].outcome = "none" /\ mined[n].fee = 0 /\ mined[n].height = 0
<1>1. mined[n] \in [outcome : Outcomes, fee : Nat, height : 1..Len(chain)] \union {Unmined}
  BY DEF TypeOK
<1>2. ASSUME mined[n] # Unmined PROVE MinedAt(n) \in Nat
  <2>1. mined[n].height \in 1..Len(chain)
    BY <1>1, <1>2
  <2> QED
    BY <2>1, TipType DEF MinedAt, Snapshots
<1> QED
  BY <1>1, <1>2 DEF Unmined

\* What an attempt is fixed for.
LEMMA SendType ==
    ASSUME TypeOK, NEW n \in Nonces, send[n] # Nothing
    PROVE  send[n].of \in Sends /\ send[n].since \in Nat
  BY DEF TypeOK

\* The initial books and the initial chain are typed.
LEMMA InitType == ASSUME Init PROVE TypeOK
<1>1. SumOf(InitialAvailable) \in Int
  <2>1. InitialAvailable \in [Members -> Int]
    BY AmountsAssumption
  <2> QED
    BY <2>1, TablesAssumption, SumOfInt
<1> DEFINE x == [tig |-> SumOf(InitialAvailable) + InitialOperator,
                 native |-> InitialNative, nonces |-> 0, time |-> 0]
<1>2. x \in Snapshots
  BY <1>1, AmountsAssumption, SendsAssumption DEF Snapshots
<1>3. chain = <<x>>
  BY DEF Init
<1> HIDE DEF x
<1>4. chain \in Seq(Snapshots) /\ Len(chain) = 1
  BY <1>2, <1>3
<1>5. cursor \in 0..Len(chain) /\ arrived \in [Receipts -> 0..Len(chain)]
  BY <1>4, SendsAssumption DEF Init
<1>6. /\ available \in [Members -> Nat] /\ operator \in Nat /\ native \in Nat
      /\ lastPaid \in [Members -> Int]
  BY AmountsAssumption DEF Init
<1> QED
  BY <1>4, <1>5, <1>6 DEF Init, TypeOK, WithdrawalStates, TopupStates, Unresolved

\* The chain part of the types.
ChainType ==
    /\ cursor \in 0..Len(chain)
    /\ mined \in [Nonces -> [outcome : Outcomes, fee : Nat, height : 1..Len(chain)]
                              \union {Unmined}]
    /\ arrived \in [Receipts -> 0..Len(chain)]
    /\ chain \in Seq(Snapshots)
    /\ Len(chain) > 0

\* A new height with a transaction, or with a receipt, keeps the chain typed.
LEMMA GrowsTyped ==
    ASSUME TypeOK, NEW x \in Snapshots, chain' = Append(chain, x), UNCHANGED cursor,
           \/ UNCHANGED mined
           \/ \E n \in Nonces, o \in Outcomes, f \in Nat :
                 mined' = [mined EXCEPT ![n] = [outcome |-> o, fee |-> f,
                                                height |-> Len(chain) + 1]],
           \/ UNCHANGED arrived
           \/ \E d \in Receipts : arrived' = [arrived EXCEPT ![d] = Len(chain) + 1]
    PROVE  ChainType'
<1>1. chain' \in Seq(Snapshots) /\ Len(chain') = Len(chain) + 1 /\ Len(chain) \in Nat \ {0}
  BY Grows, TipType
<1>2. cursor' \in 0..Len(chain')
  BY <1>1 DEF TypeOK
<1>3. arrived' \in [Receipts -> 0..Len(chain')]
  BY <1>1 DEF TypeOK
<1>4. mined \in [Nonces -> [outcome : Outcomes, fee : Nat, height : 1..Len(chain')]
                              \union {Unmined}]
  <2>1. \A n \in Nonces :
          mined[n] \in [outcome : Outcomes, fee : Nat, height : 1..Len(chain')] \union {Unmined}
    BY <1>1 DEF TypeOK
  <2>2. mined = [n \in Nonces |-> mined[n]]
    BY DEF TypeOK
  <2> QED
    BY <2>1, <2>2
<1>5. mined' \in [Nonces -> [outcome : Outcomes, fee : Nat, height : 1..Len(chain')]
                              \union {Unmined}]
  BY <1>1, <1>4
<1> QED
  BY <1>1, <1>2, <1>3, <1>5 DEF ChainType

\* The rest of the types.
TableType ==
    /\ state \in [Sends -> WithdrawalStates \union TopupStates]
    /\ send \in [Nonces -> [of : Sends, since : Nat] \union {Nothing}]
    /\ payment \in [Nonces -> Outcomes \union {"none"}]
    /\ lastPaid \in [Members -> Int]
    /\ available \in [Members -> Nat]
    /\ pending \in [Sends -> Nat]
    /\ operator \in Nat /\ inbox \in Nat /\ native \in Nat
    /\ gasHeld \in [Nonces -> Nat]
    /\ received \in SUBSET Receipts
    /\ preflight \in [Callers -> [nonce : Nonces, tig : Int, native : Int] \union {Nothing}]
    /\ check \in [recorded : [tig : Int, native : Int], height : Nat] \union {Nothing}
    /\ now \in Nat

\* Every step keeps the types; the accounts stay natural numbers because every
\* journal that could overdraw one is refused.
LEMMA NextType == ASSUME TypeOK, [Next]_vars PROVE TypeOK'
<1> USE DEF WithdrawalStates, TopupStates, Unresolved
<1>0. TypeOK <=> TableType /\ ChainType
  BY DEF TypeOK, TableType, ChainType
<1>1. TypeOK' <=> TableType' /\ ChainType'
  BY DEF TypeOK, TableType, ChainType
<1>2. \A w \in Sends : Amount[w] \in Nat
  BY AmountsAssumption
<1>3. ASSUME UNCHANGED <<cursor, chainVars>> PROVE ChainType'
  BY <1>0, <1>3 DEF ChainType, chainVars
<1>4. Withdrawals \subseteq Sends /\ Topups \subseteq Sends
  BY DEF Sends
<1>5. ASSUME NEW w \in Withdrawals, WithdrawalStep(w) PROVE TypeOK'
  <2>1. TableType'
    <3>1. CASE Request(w)
      BY <1>0, <1>2, <1>4, <3>1 DEF Request, TableType, nativeVars, localVars
    <3>2. CASE RequestOperator(w)
      <4>1. operator' \in Nat
        BY <1>0, <1>2, <1>4, <3>2, AmountsAssumption DEF RequestOperator, TableType
      <4> QED
        BY <1>0, <1>2, <1>4, <3>2, <4>1 DEF RequestOperator, TableType, nativeVars, localVars
    <3>3. CASE Approve(w)
      BY <1>0, <1>4, <3>3 DEF Approve, TableType, ledgerVars, tigVars, nativeVars, localVars
    <3>4. ASSUME NEW s \in {"cancelled", "rejected"}, Release(w, s) PROVE TableType'
      BY <1>0, <1>2, <1>4, <3>4 DEF Release, TableType, nativeVars, localVars
    <3> QED
      BY <1>5, <3>1, <3>2, <3>3, <3>4 DEF WithdrawalStep
  <2>2. ChainType'
    BY <1>3, <1>5 DEF WithdrawalStep, Request, RequestOperator, Approve, Release, localVars
  <2> QED
    BY <1>1, <2>1, <2>2
<1>6. ASSUME NEW c \in Callers, NEW n \in Nonces, TakePreflight(c, n) PROVE TypeOK'
  <2>1. TableType'
    BY <1>0, <1>6, TipType DEF TakePreflight, TableType, Snapshots, sendVars, ledgerVars,
       tigVars, nativeVars
  <2> QED
    BY <1>1, <1>3, <1>6, <2>1 DEF TakePreflight
<1>7. ASSUME NEW c \in Callers, preflight[c] # Nothing PROVE preflight[c].nonce \in Nonces
  BY <1>0, <1>7 DEF TableType
<1>8. ASSUME NEW n \in Nonces, NEW w \in Sends, ReserveNonce(n, w)
      PROVE  /\ send' \in [Nonces -> [of : Sends, since : Nat] \union {Nothing}]
             /\ native' \in Nat /\ gasHeld' \in [Nonces -> Nat]
             /\ state' \in [Sends -> WithdrawalStates \union TopupStates]
  BY <1>0, <1>8, AmountsAssumption DEF ReserveNonce, TableType
<1>9. ASSUME NEW c \in Callers, NEW w \in Withdrawals, Begin(c, w) PROVE TypeOK'
  <2>1. TableType'
    BY <1>0, <1>4, <1>7, <1>8, <1>9 DEF Begin, TableType, tigVars, localVars
  <2> QED
    BY <1>1, <1>3, <1>9, <2>1 DEF Begin, localVars
<1>10. ASSUME NEW c \in Callers, NEW p \in Topups, BeginTopup(c, p) PROVE TypeOK'
  <2>1. operator' \in Nat /\ pending' \in [Sends -> Nat]
    BY <1>0, <1>2, <1>4, <1>10 DEF BeginTopup, TableType
  <2>2. TableType'
    BY <1>0, <1>4, <1>7, <1>8, <1>10, <2>1 DEF BeginTopup, TableType, localVars
  <2> QED
    BY <1>1, <1>3, <1>10, <2>2 DEF BeginTopup, localVars
<1>11. ASSUME NEW o \in Outcomes, NEW f \in Fees \union {0}, Mine(o, f) PROVE TypeOK'
  <2> DEFINE n == Tip.nonces
  <2> DEFINE a == IF o \in Pays THEN Amount[send[n].of] ELSE 0
  <2> DEFINE x == [tig |-> Tip.tig - a, native |-> Tip.native - f, nonces |-> n + 1, time |-> now]
  <2>1. n \in Nonces /\ f \in Nat
    BY <1>11, AmountsAssumption DEF Mine
  <2>2. a \in Nat
    BY <1>2, <1>11, <2>1, SendType DEF Mine
  <2>3. chain' = Append(chain, x)
    BY <1>11 DEF Mine, Extend
  <2>4. /\ mined' = [mined EXCEPT ![n] = [outcome |-> o, fee |-> f, height |-> Len(chain) + 1]]
        /\ UNCHANGED <<cursor, arrived>>
    BY <1>11 DEF Mine, localVars
  <2> HIDE DEF a
  <2>5. x \in Snapshots
    <3>0. Tip.tig \in Int /\ Tip.native \in Int /\ now \in Nat
      BY TipType DEF Snapshots, TypeOK
    <3>1. Tip.tig - a \in Int /\ Tip.native - f \in Int
      BY <2>1, <2>2, <3>0
    <3>2. n + 1 \in 0..MaxNonce + 1
      BY <2>1, SendsAssumption DEF Nonces
    <3> QED
      BY <3>0, <3>1, <3>2 DEF Snapshots
  <2> HIDE DEF x
  <2>6. ChainType'
    BY <2>1, <2>3, <2>4, <2>5, GrowsTyped
  <2>7. TableType'
    BY <1>0, <1>11 DEF Mine, TableType, sendVars, ledgerVars, tigVars, nativeVars, localVars
  <2> QED
    BY <1>1, <2>6, <2>7
<1>12. ASSUME NEW d \in Receipts, Arrive(d) PROVE TypeOK'
  <2>1. PICK x \in Snapshots : chain' = Append(chain, x)
    <3>1. Value[d] \in Nat
      BY AmountsAssumption
    <3>2. ASSUME NEW t \in Int, NEW g \in Int
          PROVE  [tig |-> t, native |-> g, nonces |-> Tip.nonces, time |-> now] \in Snapshots
      BY TipType DEF Snapshots, TypeOK
    <3>3. Tip.tig \in Int /\ Tip.native \in Int
      BY TipType DEF Snapshots
    <3>4. CASE Extend(Tip.tig + Value[d], Tip.native, Tip.nonces)
      BY <3>1, <3>2, <3>3, <3>4 DEF Extend
    <3>5. CASE Extend(Tip.tig, Tip.native + Value[d], Tip.nonces)
      BY <3>1, <3>2, <3>3, <3>5 DEF Extend
    <3> QED
      BY <1>12, <3>4, <3>5 DEF Arrive
  <2>2. ChainType'
    BY <1>12, <2>1, GrowsTyped DEF Arrive, localVars
  <2>3. TableType'
    BY <1>0, <1>12 DEF Arrive, TableType, sendVars, ledgerVars, tigVars, nativeVars, localVars
  <2> QED
    BY <1>1, <2>2, <2>3
<1>13. CASE Tick
  <2>1. TableType'
    BY <1>0, <1>13 DEF Tick, TableType, sendVars, ledgerVars, tigVars, nativeVars, localVars
  <2> QED
    BY <1>1, <1>3, <1>13, <2>1 DEF Tick, localVars
<1>14. ASSUME NEW n \in Nonces, Evidence(n), SpendGas(n)
       PROVE  /\ native' \in Nat /\ gasHeld' \in [Nonces -> Nat]
              /\ mined[n].outcome \in Outcomes /\ MinedAt(n) \in Int
              /\ send[n].of \in Sends /\ Amount[send[n].of] \in Nat
  <2>1. send[n] # Nothing /\ mined[n] # Unmined
    BY <1>14 DEF Evidence
  <2>2. mined[n].outcome \in Outcomes /\ mined[n].fee \in Nat /\ MinedAt(n) \in Int
    BY <2>1, MinedType
  <2>3. send[n].of \in Sends /\ Amount[send[n].of] \in Nat
    BY <2>1, SendType, AmountsAssumption
  <2>4. native' \in Nat /\ gasHeld' \in [Nonces -> Nat]
    <3>1. native \in Nat /\ gasHeld \in [Nonces -> Nat] /\ FeeLimit \in Nat
      BY <1>0, AmountsAssumption DEF TableType
    <3> QED
      BY <1>14, <2>2, <3>1 DEF SpendGas
  <2> QED
    BY <2>2, <2>3, <2>4
<1>15. ASSUME NEW n \in Nonces, ReconcileWithdrawal(n) PROVE TypeOK'
  <2>1. Evidence(n) /\ SpendGas(n)
    BY <1>15 DEF ReconcileWithdrawal
  <2>2. lastPaid' \in [Members -> Int]
    BY <1>0, <1>14, <1>15, <2>1 DEF ReconcileWithdrawal, TableType
  <2>3. pending' \in [Sends -> Nat] /\ state' \in [Sends -> WithdrawalStates \union TopupStates]
    BY <1>0, <1>15 DEF ReconcileWithdrawal, TableType
  <2>4. TableType'
    BY <1>0, <1>14, <1>15, <2>1, <2>2, <2>3 DEF ReconcileWithdrawal, TableType, localVars
  <2> QED
    BY <1>1, <1>3, <1>15, <2>4 DEF ReconcileWithdrawal, localVars
<1>16. ASSUME NEW n \in Nonces, ReconcileTopup(n) PROVE TypeOK'
  <2>1. Evidence(n) /\ SpendGas(n)
    BY <1>16 DEF ReconcileTopup
  <2>2. operator' \in Nat
    BY <1>0, <1>14, <1>16, <2>1 DEF ReconcileTopup, TableType, Returned
  <2>3. pending' \in [Sends -> Nat] /\ state' \in [Sends -> WithdrawalStates \union TopupStates]
    BY <1>0, <1>14, <1>16, <2>1 DEF ReconcileTopup, TableType, Outcomes, Pays
  <2>4. TableType'
    BY <1>0, <1>14, <1>16, <2>1, <2>2, <2>3 DEF ReconcileTopup, TableType, localVars
  <2> QED
    BY <1>1, <1>3, <1>16, <2>4 DEF ReconcileTopup, localVars
<1>17. ASSUME NEW p \in Topups, Credit(p) PROVE TypeOK'
  <2>1. TableType'
    BY <1>0, <1>4, <1>17 DEF Credit, TableType, ledgerVars, tigVars, nativeVars, localVars
  <2> QED
    BY <1>1, <1>3, <1>17, <2>1 DEF Credit, localVars
<1>18. ASSUME NEW d \in Receipts, ReceiveToken(d) \/ ReceiveNative(d) PROVE TypeOK'
  <2>1. Value[d] \in Nat
    BY AmountsAssumption
  <2>2. TableType'
    BY <1>0, <1>18, <2>1 DEF ReceiveToken, ReceiveNative, TableType, sendVars, tigVars,
       nativeVars, localVars
  <2> QED
    BY <1>1, <1>3, <1>18, <2>2 DEF ReceiveToken, ReceiveNative, localVars
<1>19. ASSUME NEW last \in 1..Len(chain), NEW target \in 1..Len(chain),
              RecordCapture(last, target)
       PROVE  TypeOK'
  <2>0. last \in Nat /\ last \in 0..Len(chain)
    BY TipType
  <2>1. check' \in [recorded : [tig : Int, native : Int], height : Nat] \union {Nothing}
    BY <1>19, <2>0, BackingType DEF RecordCapture
  <2>2. TableType'
    BY <1>0, <1>19, <2>1 DEF RecordCapture, TableType, sendVars, ledgerVars, tigVars, nativeVars
  <2>3. ChainType'
    BY <1>0, <1>19, <2>0 DEF RecordCapture, ChainType, chainVars
  <2> QED
    BY <1>1, <2>2, <2>3
<1>20. CASE CaptureFails
  <2>1. TableType'
    BY <1>0, <1>20 DEF CaptureFails, TableType, sendVars, ledgerVars, tigVars, nativeVars
  <2> QED
    BY <1>1, <1>3, <1>20, <2>1 DEF CaptureFails
<1>21. CASE UNCHANGED vars
  <2>1. TableType'
    BY <1>0, <1>21 DEF vars, TableType, sendVars, ledgerVars, tigVars, nativeVars, localVars
  <2> QED
    BY <1>1, <1>3, <1>21, <2>1 DEF vars, localVars
<1> QED
  BY <1>5, <1>6, <1>9, <1>10, <1>11, <1>12, <1>13, <1>15, <1>16, <1>17, <1>18, <1>19, <1>20, <1>21
  DEF Next, Sending, World, Reconciliation

\* Every account is a natural number and every recorded height is one of the
\* chain, whatever the operator signs and whatever is reconciled when.
THEOREM TypeCorrect == Spec => []TypeOK
<1>1. Init => TypeOK
  BY InitType
<1>2. TypeOK /\ [Next]_vars => TypeOK'
  BY NextType
<1> QED
  BY <1>1, <1>2, PTL DEF Spec

-----------------------------------------------------------------------------
(***************************************************************************)
(* The chain and the attempts.                                             *)
(***************************************************************************)

\* The next nonce is not executed, so no payment is recorded of it.
LEMMA NextIsUnmined ==
    ASSUME TypeOK, InOrder, Tip.nonces \in Nonces
    PROVE  mined[Tip.nonces] = Unmined
<1>1. Len(chain) \in 1..Len(chain) /\ Tip = chain[Len(chain)] /\ Tip.nonces \in Nat
  BY TipType DEF Snapshots
<1>2. ~(Tip.nonces < Tip.nonces)
  BY <1>1
<1>3. mined[Tip.nonces].height \notin 1..Len(chain)
  BY <1>1, <1>2 DEF InOrder
<1> QED
  BY <1>3, MinedType

\* The clock and the chain start together.
LEMMA InitInOrder == ASSUME Init PROVE InOrder
<1>1. Len(chain) = 1 /\ chain[1].time = 0 /\ chain[1].nonces = 0 /\ now = 0
  BY DEF Init
<1>2. \A n \in Nonces : ~(n < 0) /\ mined[n].height = 0
  BY SendsAssumption DEF Init, Unmined, Nonces
<1> SUFFICES ASSUME NEW h \in 1..Len(chain)
             PROVE  /\ chain[h].time <= now
                    /\ \A n \in Nonces : n < chain[h].nonces <=> mined[n].height \in 1..h
  BY DEF InOrder
<1>3. h = 1
  BY <1>1
<1> QED
  BY <1>1, <1>2, <1>3

\* A step adds one height, or none.
LEMMA NextInOrder == ASSUME TypeOK, TypeOK', InOrder, [Next]_vars PROVE InOrder'
<1>1. ASSUME UNCHANGED <<mined, chain>>, now <= now' PROVE InOrder'
  <2>1. now \in Nat /\ now' \in Nat /\ \A h \in 1..Len(chain) : chain[h].time \in Nat
    BY TipType DEF TypeOK, Snapshots
  <2> QED
    BY <1>1, <2>1 DEF InOrder
<1>2. ASSUME NEW x \in Snapshots, chain' = Append(chain, x), x.time = now, UNCHANGED now,
             \A h \in 1..Len(chain), n \in Nonces :
                 mined'[n].height \in 1..h <=> mined[n].height \in 1..h,
             \A n \in Nonces : n < x.nonces <=> mined'[n].height \in 1..Len(chain) + 1
      PROVE  InOrder'
  <2>1. /\ Len(chain') = Len(chain) + 1 /\ Len(chain) \in Nat
        /\ \A h \in 1..Len(chain) : chain'[h] = chain[h]
        /\ chain'[Len(chain) + 1] = x
    BY <1>2, Grows, TipType
  <2> SUFFICES ASSUME NEW h \in 1..Len(chain')
               PROVE  /\ chain'[h].time <= now'
                      /\ \A n \in Nonces : n < chain'[h].nonces <=> mined'[n].height \in 1..h
    BY DEF InOrder
  <2>2. CASE h = Len(chain) + 1
    <3>1. chain'[h] = x /\ now \in Nat /\ now' = now
      BY <1>2, <2>1, <2>2 DEF TypeOK
    <3> QED
      BY <1>2, <2>2, <3>1
  <2>3. CASE h \in 1..Len(chain)
    <3>1. chain'[h] = chain[h]
      BY <2>1, <2>3
    <3> QED
      BY <1>2, <2>3, <3>1 DEF InOrder
  <2> QED
    BY <2>1, <2>2, <2>3
<1>3. ASSUME NEW o \in Outcomes, NEW f \in Fees \union {0}, Mine(o, f) PROVE InOrder'
  <2> DEFINE k == Tip.nonces
  <2> DEFINE a == IF o \in Pays THEN Amount[send[k].of] ELSE 0
  <2> DEFINE x == [tig |-> Tip.tig - a, native |-> Tip.native - f, nonces |-> k + 1, time |-> now]
  <2>1. /\ chain' = Append(chain, x) /\ k \in Nonces /\ UNCHANGED now
        /\ mined' = [mined EXCEPT ![k] = [outcome |-> o, fee |-> f, height |-> Len(chain) + 1]]
    BY <1>3 DEF Mine, Extend
  <2>2. x.nonces = k + 1 /\ x.time = now
    OBVIOUS
  <2> HIDE DEF x
  <2>3. Len(chain) \in Nat \ {0} /\ Tip = chain[Len(chain)] /\ Len(chain) \in 1..Len(chain)
    BY TipType
  <2>4. x \in Snapshots
    <3>1. chain' \in Seq(Snapshots) /\ Len(chain') > 0 /\ Tip' \in Snapshots
      BY DEF TypeOK, Tip
    <3>2. chain'[Len(chain')] = x
      BY <2>1 DEF TypeOK
    <3> QED
      BY <3>1, <3>2 DEF Tip
  <2>5. mined[k].height = 0
    BY <2>1, NextIsUnmined DEF Unmined
  <2>6. /\ mined'[k].height = Len(chain) + 1
        /\ \A n \in Nonces : n # k => mined'[n] = mined[n]
    BY <2>1 DEF TypeOK
  <2>7. \A h \in 1..Len(chain), n \in Nonces :
          mined'[n].height \in 1..h <=> mined[n].height \in 1..h
    BY <2>3, <2>5, <2>6
  <2>8. \A n \in Nonces : mined[n].height \in 0..Len(chain)
    BY <2>3, MinedType
  <2>9. \A n \in Nonces : n < k <=> mined[n].height \in 1..Len(chain)
    BY <2>3 DEF InOrder
  <2>10. ASSUME NEW n \in Nonces PROVE n < x.nonces <=> mined'[n].height \in 1..Len(chain) + 1
    <3>1. n \in Int /\ k \in Int
      BY <2>1, SendsAssumption DEF Nonces
    <3>2. CASE n = k
      BY <2>2, <2>3, <2>6, <3>1, <3>2
    <3>3. CASE n # k
      BY <2>2, <2>3, <2>6, <2>8, <2>9, <3>1, <3>3
    <3> QED
      BY <3>2, <3>3
  <2> QED
    BY <1>2, <2>1, <2>2, <2>4, <2>7, <2>10
<1>4. ASSUME NEW d \in Receipts, Arrive(d) PROVE InOrder'
  <2>1. PICK x : chain' = Append(chain, x) /\ x.time = now /\ x.nonces = Tip.nonces
    BY <1>4 DEF Arrive, Extend
  <2>2. x \in Snapshots
    <3>1. Tip' \in Snapshots
      BY DEF TypeOK, Tip
    <3>2. chain'[Len(chain')] = x
      BY <2>1 DEF TypeOK
    <3> QED
      BY <3>1, <3>2 DEF Tip
  <2>3. Len(chain) \in Nat \ {0} /\ Tip = chain[Len(chain)] /\ Len(chain) \in 1..Len(chain)
    BY TipType
  <2>4. \A n \in Nonces : mined[n].height \in 0..Len(chain)
    BY <2>3, MinedType
  <2>5. \A n \in Nonces : n < x.nonces <=> mined[n].height \in 1..Len(chain)
    BY <2>1, <2>3 DEF InOrder
  <2>6. UNCHANGED <<mined, now>>
    BY <1>4 DEF Arrive
  <2>7. \A n \in Nonces : n < x.nonces <=> mined'[n].height \in 1..Len(chain) + 1
    BY <2>3, <2>4, <2>5, <2>6
  <2> QED
    BY <1>2, <2>1, <2>2, <2>6, <2>7
<1>5. CASE Tick
  BY <1>1, <1>5 DEF Tick, chainVars, TypeOK
<1>6. ASSUME UNCHANGED <<chainVars, now>> PROVE InOrder'
  BY <1>1, <1>6 DEF chainVars, TypeOK
<1>7. ASSUME NEW w \in Withdrawals, WithdrawalStep(w) PROVE UNCHANGED <<chainVars, now>>
  BY <1>7 DEF WithdrawalStep, Request, RequestOperator, Approve, Release
<1>8. ASSUME NEW c \in Callers, Sending(c) PROVE UNCHANGED <<chainVars, now>>
  BY <1>8 DEF Sending, TakePreflight, Begin, BeginTopup
<1>9. ASSUME Reconciliation PROVE UNCHANGED <<chainVars, now>>
  BY <1>9 DEF Reconciliation, ReconcileWithdrawal, ReconcileTopup, Credit, ReceiveToken,
     ReceiveNative, RecordCapture, CaptureFails
<1>10. CASE UNCHANGED vars
  BY <1>6, <1>10 DEF vars
<1> QED
  BY <1>3, <1>4, <1>5, <1>6, <1>7, <1>8, <1>9, <1>10 DEF Next, World

\* The steps by what they do to requests and attempts.  A request changes state
\* without an attempt:
Relabels(w) ==
    /\ \E s \in {"requested", "approved", "credited"} \union Closed :
          /\ state' = [state EXCEPT ![w] = s]
          /\ \/ state[w] = "none" /\ s = "requested"
             \/ state[w] = "requested" /\ s = "approved"
             \/ state[w] \in {"requested", "approved"} /\ s \in Closed
             \/ state[w] = "awaiting_protocol" /\ s = "credited"
    /\ UNCHANGED <<send, payment, mined>>

\* a nonce is fixed for it:
Fixes(n, w) ==
    /\ send[n] = Nothing
    /\ state[w] \in {"none", "approved"}
    /\ send' = [send EXCEPT ![n] = [of |-> w, since |-> now]]
    /\ state' = [state EXCEPT ![w] = "uncertain"]
    /\ UNCHANGED <<payment, mined>>

\* the chain executes the next nonce:
Executes(n) ==
    /\ n = Tip.nonces
    /\ \E o \in Outcomes, f \in Nat :
          /\ mined' = [mined EXCEPT ![n] = [outcome |-> o, fee |-> f, height |-> Len(chain) + 1]]
          /\ o \in Pays => send[n] # Nothing
    /\ UNCHANGED <<state, send, payment>>

\* the outcome of its attempt is recorded:
Records(n) ==
    /\ Evidence(n)
    /\ payment' = [payment EXCEPT ![n] = mined[n].outcome]
    /\ \E s \in {"approved"} \union Closed \union Settled :
          /\ state' = [state EXCEPT ![send[n].of] = s]
          /\ s \in Settled <=> mined[n].outcome \in Pays
    /\ UNCHANGED <<send, mined>>

\* or nothing of this happens.
Moves ==
    \/ \E w \in Sends : Relabels(w)
    \/ \E n \in Nonces, w \in Sends : Fixes(n, w)
    \/ \E n \in Nonces : Executes(n) \/ Records(n)
    \/ UNCHANGED <<state, send, payment, mined>>

\* Every step is one of these.
LEMMA StepMoves == ASSUME TypeOK, [Next]_vars PROVE Moves
<1>0. Withdrawals \subseteq Sends /\ Topups \subseteq Sends
  BY DEF Sends
<1> USE DEF Closed, Settled
<1>1. ASSUME NEW w \in Withdrawals, WithdrawalStep(w) PROVE Relabels(w)
  <2>1. CASE Request(w)
    BY <2>1 DEF Request, Relabels, chainVars
  <2>2. CASE RequestOperator(w)
    BY <2>2 DEF RequestOperator, Relabels, chainVars
  <2>3. CASE Approve(w)
    BY <2>3 DEF Approve, Relabels, chainVars
  <2>4. ASSUME NEW s \in {"cancelled", "rejected"}, Release(w, s) PROVE Relabels(w)
    BY <2>4 DEF Release, Releasable, Relabels, chainVars
  <2> QED
    BY <1>1, <2>1, <2>2, <2>3, <2>4 DEF WithdrawalStep
<1>2. ASSUME NEW c \in Callers, Sending(c) PROVE Moves
  <2>1. ASSUME NEW n \in Nonces, TakePreflight(c, n) PROVE Moves
    BY <2>1 DEF TakePreflight, Moves, sendVars, chainVars
  <2>2. ASSUME preflight[c] # Nothing PROVE preflight[c].nonce \in Nonces
    BY <2>2 DEF TypeOK
  <2>3. ASSUME NEW w \in Withdrawals, Begin(c, w) PROVE Moves
    <3>1. Fixes(preflight[c].nonce, w)
      BY <2>3 DEF Begin, Sendable, ReserveNonce, NonceFree, Fixes, chainVars
    <3> QED
      BY <1>0, <2>2, <2>3, <3>1 DEF Begin, Moves
  <2>4. ASSUME NEW p \in Topups, BeginTopup(c, p) PROVE Moves
    <3>1. Fixes(preflight[c].nonce, p)
      BY <2>4 DEF BeginTopup, ReserveNonce, NonceFree, Fixes, chainVars
    <3> QED
      BY <1>0, <2>2, <2>4, <3>1 DEF BeginTopup, Moves
  <2> QED
    BY <1>2, <2>1, <2>3, <2>4 DEF Sending
<1>3. ASSUME NEW o \in Outcomes, NEW f \in Fees \union {0}, Mine(o, f)
      PROVE  Tip.nonces \in Nonces /\ Executes(Tip.nonces)
  <2>1. f \in Nat
    BY AmountsAssumption
  <2> QED
    BY <1>3, <2>1 DEF Mine, Executes, sendVars
<1>4. CASE World
  BY <1>3, <1>4 DEF World, Moves, Arrive, Tick, sendVars, chainVars
<1>5. ASSUME NEW n \in Nonces, Evidence(n) PROVE mined[n].outcome \in Outcomes
  BY <1>5, MinedType DEF Evidence
<1>6. ASSUME NEW n \in Nonces, ReconcileWithdrawal(n) PROVE Records(n)
  <2> DEFINE s == IF mined[n].outcome \in Pays THEN "paid" ELSE "approved"
  <2>1. Evidence(n)
    BY <1>6 DEF ReconcileWithdrawal
  <2>2. s \in {"approved"} \union Closed \union Settled /\ (s \in Settled <=> mined[n].outcome \in Pays)
    OBVIOUS
  <2>3. /\ state' = [state EXCEPT ![send[n].of] = s]
        /\ payment' = [payment EXCEPT ![n] = mined[n].outcome] /\ UNCHANGED <<send, mined>>
    BY <1>6 DEF ReconcileWithdrawal, chainVars
  <2> HIDE DEF s
  <2> QED
    BY <2>1, <2>2, <2>3 DEF Records
<1>7. ASSUME NEW n \in Nonces, ReconcileTopup(n) PROVE Records(n)
  <2> DEFINE s == IF mined[n].outcome = "paid" THEN "awaiting_protocol" ELSE mined[n].outcome
  <2>1. Evidence(n) /\ mined[n].outcome \notin {"sponsored", "other"}
    BY <1>7 DEF ReconcileTopup
  <2>2. s \in {"approved"} \union Closed \union Settled /\ (s \in Settled <=> mined[n].outcome \in Pays)
    BY <1>5, <2>1 DEF Outcomes, Pays
  <2>3. /\ state' = [state EXCEPT ![send[n].of] = s]
        /\ payment' = [payment EXCEPT ![n] = mined[n].outcome] /\ UNCHANGED <<send, mined>>
    BY <1>7 DEF ReconcileTopup, chainVars
  <2> HIDE DEF s
  <2> QED
    BY <2>1, <2>2, <2>3 DEF Records
<1>8. ASSUME NEW p \in Topups, Credit(p) PROVE Relabels(p)
  BY <1>8 DEF Credit, Relabels, chainVars
<1>9. CASE Reconciliation
  BY <1>0, <1>6, <1>7, <1>8, <1>9 DEF Reconciliation, Moves, ReceiveToken, ReceiveNative,
     RecordCapture, CaptureFails, sendVars, chainVars
<1>10. CASE UNCHANGED vars
  BY <1>10 DEF vars, Moves, sendVars, chainVars
<1> QED
  BY <1>0, <1>1, <1>2, <1>4, <1>9, <1>10 DEF Next, Moves

\* No attempt at first.
LEMMA InitRecorded == ASSUME Init PROVE Recorded
  BY DEF Init, Recorded, Attempt, Settled, Unmined, Pays

\* Each kind of step keeps what is recorded true.
LEMMA NextRecorded == ASSUME TypeOK, InOrder, Recorded, Moves PROVE Recorded'
<1>1. ASSUME NEW w \in Sends, Relabels(w) PROVE Recorded'
  <2>1. PICK s \in {"requested", "approved", "credited"} \union Closed :
          /\ state' = [state EXCEPT ![w] = s]
          /\ s \in Settled <=> state[w] \in Settled
          /\ state[w] # "uncertain" /\ s # "uncertain"
    BY <1>1 DEF Relabels, Settled, Closed
  <2>2. /\ \A v \in Sends : state'[v] = IF v = w THEN s ELSE state[v]
        /\ state[w] # "uncertain" /\ s # "uncertain"
        /\ UNCHANGED <<send, payment, mined>>
    BY <1>1, <2>1 DEF Relabels, TypeOK
  <2>3. \A v \in Sends :
          /\ state[v] = "uncertain" <=> state'[v] = "uncertain"
          /\ state[v] \in Settled <=> state'[v] \in Settled
    BY <2>1, <2>2
  <2> QED
    BY <2>2, <2>3 DEF Recorded, Attempt
<1>2. ASSUME NEW n \in Nonces, NEW w \in Sends, Fixes(n, w) PROVE Recorded'
  <2>1. /\ send[n] = Nothing /\ state[w] # "uncertain" /\ state[w] \notin Settled
        /\ UNCHANGED <<payment, mined>>
        /\ \A v \in Sends : state'[v] = IF v = w THEN "uncertain" ELSE state[v]
        /\ \A k \in Nonces : k # n => send'[k] = send[k]
        /\ send'[n] # Nothing /\ send'[n].of = w
    BY <1>2 DEF Fixes, TypeOK, Settled, Nothing
  <2>2. payment[n] = "none"
    BY <2>1 DEF Recorded
  <2>3. ASSUME NEW v \in Sends, NEW k \in Nonces
        PROVE  Attempt(k, v)' <=> Attempt(k, v) \/ (k = n /\ v = w)
    BY <2>1 DEF Attempt
  <2>4. \A k \in Nonces : ~Attempt(n, w) /\ (Attempt(k, w) => payment[k] # "none")
    BY <2>1 DEF Recorded, Attempt
  <2>5. \A k \in Nonces : Attempt(k, w) => payment[k] \notin Pays
    BY <2>1 DEF Recorded
  <2>6. \A k \in Nonces :
          /\ payment'[k] # "none" =>
                send'[k] # Nothing /\ mined'[k] # Unmined /\ payment'[k] = mined'[k].outcome
          /\ send'[k] = Nothing => mined'[k].outcome \notin Pays
    BY <2>1 DEF Recorded
  <2>7. ASSUME NEW v \in Sends, NEW k \in Nonces, Attempt(k, v)'
        PROVE  /\ payment'[k] = "none" => state'[v] = "uncertain"
               /\ payment'[k] \in Pays => state'[v] \in Settled
               /\ \A j \in Nonces :
                     Attempt(j, v)' /\ payment'[k] = "none" /\ payment'[j] = "none" => k = j
    <3>1. payment' = payment /\ payment[n] = "none" /\ "none" \notin Pays
      BY <2>1, <2>2 DEF Pays
    <3>2. CASE v = w
      BY <2>1, <2>2, <2>3, <2>4, <2>5, <2>7, <3>1, <3>2
    <3>3. CASE v # w
      BY <2>1, <2>3, <2>7, <3>1, <3>3 DEF Recorded
    <3> QED
      BY <3>2, <3>3
  <2>8. \A v \in Sends : state'[v] \in Settled =>
          \E k \in Nonces : Attempt(k, v)' /\ payment'[k] \in Pays
    <3>1. "uncertain" \notin Settled
      BY DEF Settled
    <3> QED
      BY <2>1, <2>3, <3>1 DEF Recorded
  <2> QED
    BY <2>6, <2>7, <2>8 DEF Recorded
<1>3. ASSUME NEW n \in Nonces, Executes(n) PROVE Recorded'
  <2>1. PICK o \in Outcomes, f \in Nat :
          /\ mined' = [mined EXCEPT ![n] = [outcome |-> o, fee |-> f, height |-> Len(chain) + 1]]
          /\ o \in Pays => send[n] # Nothing
    BY <1>3 DEF Executes
  <2>2. UNCHANGED <<state, send, payment>> /\ mined[n] = Unmined
    BY <1>3, NextIsUnmined DEF Executes
  <2>3. payment[n] = "none"
    BY <2>2 DEF Recorded
  <2>4. \A k \in Nonces : mined'[k] =
          IF k = n THEN [outcome |-> o, fee |-> f, height |-> Len(chain) + 1] ELSE mined[k]
    BY <2>1 DEF TypeOK
  <2>5. \A k \in Nonces :
          /\ payment'[k] # "none" =>
                send'[k] # Nothing /\ mined'[k] # Unmined /\ payment'[k] = mined'[k].outcome
          /\ send'[k] = Nothing => mined'[k].outcome \notin Pays
    BY <2>1, <2>2, <2>3, <2>4 DEF Recorded
  <2> QED
    BY <2>2, <2>5 DEF Recorded, Attempt
<1>4. ASSUME NEW n \in Nonces, Records(n) PROVE Recorded'
  <2> DEFINE w == send[n].of
  <2>1. w \in Sends /\ Attempt(n, w) /\ payment[n] = "none" /\ mined[n] # Unmined
        /\ state[w] = "uncertain" /\ mined[n].outcome \in Outcomes
    BY <1>4, SendType, MinedType DEF Records, Evidence, Attempt
  <2>2. PICK s \in {"approved"} \union Closed \union Settled :
          state' = [state EXCEPT ![w] = s] /\ (s \in Settled <=> mined[n].outcome \in Pays)
    BY <1>4 DEF Records
  <2>3. /\ \A v \in Sends : state'[v] = IF v = w THEN s ELSE state[v]
        /\ \A k \in Nonces : payment'[k] = IF k = n THEN mined[n].outcome ELSE payment[k]
        /\ UNCHANGED <<send, mined>>
    BY <1>4, <2>2 DEF Records, TypeOK
  <2>4. mined[n].outcome # "none" /\ "none" \notin Pays /\ "uncertain" \notin Settled
    BY <2>1 DEF Outcomes, Pays, Settled
  <2>5. \A k \in Nonces : Attempt(k, w) /\ k # n => payment[k] # "none" /\ payment[k] \notin Pays
    BY <2>1, <2>4 DEF Recorded
  <2>6. \A k \in Nonces :
          /\ payment'[k] # "none" =>
                send'[k] # Nothing /\ mined'[k] # Unmined /\ payment'[k] = mined'[k].outcome
          /\ send'[k] = Nothing => mined'[k].outcome \notin Pays
    BY <2>1, <2>3 DEF Recorded, Attempt
  <2>7. \A k \in Nonces, v \in Sends : Attempt(k, v)' <=> Attempt(k, v)
    BY <2>3 DEF Attempt
  <2> HIDE DEF w
  <2>8. ASSUME NEW v \in Sends, NEW k \in Nonces, Attempt(k, v)'
        PROVE  /\ payment'[k] = "none" => state'[v] = "uncertain"
               /\ payment'[k] \in Pays => state'[v] \in Settled
               /\ \A j \in Nonces :
                     Attempt(j, v)' /\ payment'[k] = "none" /\ payment'[j] = "none" => k = j
    <3>1. CASE v = w
      BY <2>1, <2>2, <2>3, <2>4, <2>5, <2>7, <2>8, <3>1
    <3>2. CASE v # w
      <4>1. k # n
        BY <2>1, <2>7, <2>8, <3>2 DEF Attempt
      <4> QED
        BY <2>3, <2>4, <2>7, <2>8, <3>2, <4>1 DEF Recorded
    <3> QED
      BY <3>1, <3>2
  <2>9. \A v \in Sends : state'[v] \in Settled =>
          \E k \in Nonces : Attempt(k, v)' /\ payment'[k] \in Pays
    <3>1. CASE s \in Settled
      BY <2>1, <2>2, <2>3, <2>4, <2>7, <3>1 DEF Recorded
    <3>2. CASE s \notin Settled
      BY <2>1, <2>2, <2>3, <2>4, <2>7, <3>2 DEF Recorded
    <3> QED
      BY <3>1, <3>2
  <2> QED
    BY <2>6, <2>8, <2>9 DEF Recorded
<1>5. CASE UNCHANGED <<state, send, payment, mined>>
  BY <1>5 DEF Recorded, Attempt
<1> QED
  BY <1>1, <1>2, <1>3, <1>4, <1>5 DEF Moves

\* Nothing is held at first.
LEMMA InitHeld == ASSUME Init PROVE Held
  BY DEF Init, Held, Unresolved, Nothing

\* Every journal keeps the accounts of a request and of a nonce.
LEMMA NextHeld == ASSUME TypeOK, Recorded, Held, [Next]_vars PROVE Held'
<1>0. Withdrawals \subseteq Sends /\ Topups \subseteq Sends
  BY DEF Sends
<1>1. ASSUME NEW w \in Sends, NEW s \in WithdrawalStates \union TopupStates,
             state' = [state EXCEPT ![w] = s],
             pending' = [pending EXCEPT ![w] = IF s \in Unresolved THEN Amount[w] ELSE 0]
      PROVE  \A v \in Sends :
                pending'[v] = IF state'[v] \in Unresolved THEN Amount[v] ELSE 0
  BY <1>1 DEF Held, TypeOK
<1>2. ASSUME UNCHANGED <<send, payment, gasHeld>>
      PROVE  \A n \in Nonces :
                gasHeld'[n] = IF send'[n] # Nothing /\ payment'[n] = "none" THEN FeeLimit ELSE 0
  BY <1>2 DEF Held
<1>3. ASSUME UNCHANGED <<received, arrived>> PROVE \A d \in received' : arrived'[d] > 0
  BY <1>3 DEF Held
<1>4. ASSUME UNCHANGED <<state, pending, send, payment, gasHeld, received, arrived>> PROVE Held'
  BY <1>4 DEF Held
<1> USE DEF WithdrawalStates, TopupStates, Unresolved
<1>5. ASSUME NEW w \in Withdrawals, WithdrawalStep(w) PROVE Held'
  <2>1. \E s \in WithdrawalStates \union TopupStates :
          /\ state' = [state EXCEPT ![w] = s]
          /\ pending' = [pending EXCEPT ![w] = IF s \in Unresolved THEN Amount[w] ELSE 0]
    <3>1. CASE Request(w) \/ RequestOperator(w)
      BY <3>1 DEF Request, RequestOperator
    <3>2. CASE Approve(w)
      <4>1. pending[w] = Amount[w]
        BY <1>0, <3>2 DEF Approve, Held
      <4>2. pending' = [pending EXCEPT ![w] = Amount[w]]
        BY <1>0, <3>2, <4>1 DEF Approve, ledgerVars, tigVars, TypeOK
      <4> QED
        BY <3>2, <4>2 DEF Approve
    <3>3. ASSUME NEW s \in {"cancelled", "rejected"}, Release(w, s)
          PROVE  /\ state' = [state EXCEPT ![w] = s]
                 /\ pending' = [pending EXCEPT ![w] = IF s \in Unresolved THEN Amount[w] ELSE 0]
      BY <3>3 DEF Release
    <3> QED
      BY <1>5, <3>1, <3>2, <3>3 DEF WithdrawalStep
  <2>2. UNCHANGED <<send, payment, gasHeld, received, arrived>>
    BY <1>5 DEF WithdrawalStep, Request, RequestOperator, Approve, Release, ledgerVars,
       nativeVars, chainVars
  <2> QED
    BY <1>0, <1>1, <1>2, <1>3, <2>1, <2>2 DEF Held
<1>6. ASSUME NEW n \in Nonces, NEW w \in Sends, ReserveNonce(n, w), UNCHANGED payment
      PROVE  \A k \in Nonces :
                gasHeld'[k] = IF send'[k] # Nothing /\ payment'[k] = "none" THEN FeeLimit ELSE 0
  <2>1. send[n] = Nothing /\ payment[n] = "none"
    BY <1>6 DEF ReserveNonce, NonceFree, Recorded
  <2>2. [of |-> w, since |-> now] # Nothing
    BY DEF Nothing
  <2> QED
    BY <1>6, <2>1, <2>2 DEF ReserveNonce, Held, TypeOK
<1>7. ASSUME NEW c \in Callers, Sending(c) PROVE Held'
  <2>1. ASSUME NEW n \in Nonces, TakePreflight(c, n) PROVE Held'
    BY <1>4, <2>1 DEF TakePreflight, sendVars, ledgerVars, tigVars, nativeVars, chainVars
  <2>2. ASSUME preflight[c] # Nothing PROVE preflight[c].nonce \in Nonces
    BY <2>2 DEF TypeOK
  <2>3. ASSUME NEW w \in Withdrawals, Begin(c, w) PROVE Held'
    <3>1. pending[w] = Amount[w]
      BY <1>0, <2>3 DEF Begin, Sendable, Held
    <3>2. pending' = [pending EXCEPT ![w] = Amount[w]]
      BY <1>0, <2>3, <3>1 DEF Begin, tigVars, TypeOK
    <3>3. state' = [state EXCEPT ![w] = "uncertain"]
      BY <2>3 DEF Begin, ReserveNonce
    <3>4. \A v \in Sends : pending'[v] = IF state'[v] \in Unresolved THEN Amount[v] ELSE 0
      BY <1>0, <1>1, <3>2, <3>3
    <3> QED
      BY <1>0, <1>3, <1>6, <2>2, <2>3, <3>4 DEF Begin, Held, chainVars
  <2>4. ASSUME NEW p \in Topups, BeginTopup(c, p) PROVE Held'
    <3>1. /\ state' = [state EXCEPT ![p] = "uncertain"]
          /\ pending' = [pending EXCEPT ![p] = Amount[p]]
      BY <2>4 DEF BeginTopup, ReserveNonce
    <3>2. \A v \in Sends : pending'[v] = IF state'[v] \in Unresolved THEN Amount[v] ELSE 0
      BY <1>0, <1>1, <3>1
    <3> QED
      BY <1>0, <1>3, <1>6, <2>2, <2>4, <3>2 DEF BeginTopup, Held, chainVars
  <2> QED
    BY <1>7, <2>1, <2>3, <2>4 DEF Sending
<1>8. ASSUME NEW o \in Outcomes, NEW f \in Fees \union {0}, Mine(o, f) PROVE Held'
  BY <1>4, <1>8 DEF Mine, sendVars, ledgerVars, tigVars, nativeVars
<1>9. ASSUME NEW d \in Receipts, Arrive(d) PROVE Held'
  <2>1. \A e \in received' : arrived'[e] > 0
    <3>1. Len(chain) \in Nat
      BY TipType
    <3> QED
      BY <1>9, <3>1 DEF Arrive, ledgerVars, Held, TypeOK
  <2> QED
    BY <1>9, <2>1 DEF Arrive, Held, sendVars, ledgerVars, tigVars, nativeVars
<1>10. CASE Tick \/ CaptureFails \/ UNCHANGED vars
  BY <1>4, <1>10 DEF Tick, CaptureFails, vars, sendVars, ledgerVars, tigVars, nativeVars, chainVars
<1>11. ASSUME NEW last \in 1..Len(chain), NEW target \in 1..Len(chain),
              RecordCapture(last, target)
       PROVE  Held'
  BY <1>4, <1>11 DEF RecordCapture, sendVars, ledgerVars, tigVars, nativeVars, chainVars
<1>12. ASSUME NEW n \in Nonces, Evidence(n), SpendGas(n),
              payment' = [payment EXCEPT ![n] = mined[n].outcome], UNCHANGED send
       PROVE  /\ \A k \in Nonces : gasHeld'[k] =
                    IF send'[k] # Nothing /\ payment'[k] = "none" THEN FeeLimit ELSE 0
              /\ send[n].of \in Sends /\ state[send[n].of] = "uncertain"
              /\ pending[send[n].of] = Amount[send[n].of]
  <2>1. mined[n].outcome # "none"
    BY <1>12, MinedType DEF Evidence, Outcomes, Pays
  <2> QED
    BY <1>12, <2>1, SendType DEF Evidence, SpendGas, Held, TypeOK
<1>13. ASSUME NEW n \in Nonces, ReconcileWithdrawal(n) PROVE Held'
  <2> DEFINE w == send[n].of
  <2> DEFINE s == IF mined[n].outcome \in Pays THEN "paid" ELSE "approved"
  <2>1. Evidence(n) /\ SpendGas(n) /\ payment' = [payment EXCEPT ![n] = mined[n].outcome]
        /\ UNCHANGED <<send, received, arrived>> /\ state' = [state EXCEPT ![w] = s]
        /\ pending' = [pending EXCEPT ![w] = IF mined[n].outcome \in Pays THEN 0 ELSE @]
    BY <1>13 DEF ReconcileWithdrawal, chainVars
  <2>2. w \in Sends /\ pending[w] = Amount[w]
    BY <1>12, <2>1
  <2>3. s \in WithdrawalStates
    OBVIOUS
  <2>4. pending' = [pending EXCEPT ![w] = IF s \in Unresolved THEN Amount[w] ELSE 0]
    BY <2>1, <2>2
  <2> HIDE DEF w, s
  <2>5. \A v \in Sends : pending'[v] = IF state'[v] \in Unresolved THEN Amount[v] ELSE 0
    BY <1>1, <2>1, <2>2, <2>3, <2>4
  <2> QED
    BY <1>3, <1>12, <2>1, <2>5 DEF Held
<1>14. ASSUME NEW n \in Nonces, ReconcileTopup(n) PROVE Held'
  <2> DEFINE w == send[n].of
  <2> DEFINE s == IF mined[n].outcome = "paid" THEN "awaiting_protocol" ELSE mined[n].outcome
  <2>1. Evidence(n) /\ SpendGas(n) /\ payment' = [payment EXCEPT ![n] = mined[n].outcome]
        /\ UNCHANGED <<send, received, arrived>> /\ state' = [state EXCEPT ![w] = s]
        /\ pending' = [pending EXCEPT ![w] = 0]
        /\ mined[n].outcome \notin {"sponsored", "other"}
    BY <1>14 DEF ReconcileTopup, chainVars
  <2>2. w \in Sends
    BY <1>12, <2>1
  <2>3. mined[n].outcome \in Outcomes
    BY <2>1, MinedType DEF Evidence
  <2>4. s \in WithdrawalStates \union TopupStates /\ s \notin Unresolved
    BY <2>1, <2>3 DEF Outcomes, Pays
  <2> HIDE DEF w, s
  <2>5. \A v \in Sends : pending'[v] = IF state'[v] \in Unresolved THEN Amount[v] ELSE 0
    BY <1>1, <2>1, <2>2, <2>4
  <2> QED
    BY <1>3, <1>12, <2>1, <2>5 DEF Held
<1>15. ASSUME NEW p \in Topups, Credit(p) PROVE Held'
  <2>1. \A v \in Sends : pending'[v] = IF state'[v] \in Unresolved THEN Amount[v] ELSE 0
    BY <1>15 DEF Credit, ledgerVars, tigVars, Held, TypeOK
  <2> QED
    BY <1>2, <1>3, <1>15, <2>1 DEF Credit, ledgerVars, tigVars, nativeVars, chainVars, Held
<1>16. ASSUME NEW d \in Receipts, ReceiveToken(d) \/ ReceiveNative(d) PROVE Held'
  <2>1. \A e \in received' : arrived'[e] > 0
    BY <1>16 DEF ReceiveToken, ReceiveNative, Held, chainVars
  <2> QED
    BY <1>16, <2>1 DEF ReceiveToken, ReceiveNative, Held, sendVars, tigVars, nativeVars
<1> QED
  BY <1>5, <1>7, <1>8, <1>9, <1>10, <1>11, <1>13, <1>14, <1>15, <1>16
  DEF Next, World, Reconciliation

\* What the books say of requests and attempts, and what the chain did.
AttemptsOK == InOrder /\ Recorded /\ Held

\* Requests, attempts and the chain stay consistent, whatever is signed,
\* replaced, mined and reconciled in whatever order.
THEOREM AttemptsCorrect == Spec => []AttemptsOK
<1>1. Init => AttemptsOK
  BY InitInOrder, InitRecorded, InitHeld DEF AttemptsOK
<1>2. TypeOK /\ TypeOK' /\ AttemptsOK /\ [Next]_vars => AttemptsOK'
  BY StepMoves, NextInOrder, NextRecorded, NextHeld DEF AttemptsOK
<1> QED
  BY <1>1, <1>2, TypeCorrect, PTL DEF Spec

\* What a payment that the chain made says of its request.
LEMMA PaidAttempt ==
    ASSUME TypeOK, Recorded, NEW w \in Sends
    PROVE  /\ state[w] \in Settled => Paying(w) # {}
           /\ state[w] \notin Settled \union {"uncertain"} => Paying(w) = {}
           /\ \A n \in Paying(w) : n \in Nonces /\ Attempt(n, w) /\ mined[n].outcome \in Pays
                                   /\ mined[n] # Unmined
           /\ state[w] = "uncertain" => \A n \in Paying(w) : payment[n] = "none"
<1>1. \A n \in Nonces : n \in Paying(w) <=> Attempt(n, w) /\ mined[n].outcome \in Pays
  BY DEF Paying, Attempt
<1>2. "none" \notin Pays
  BY DEF Pays
<1>3. \A n \in Paying(w) : n \in Nonces /\ Attempt(n, w) /\ mined[n].outcome \in Pays
                           /\ mined[n] # Unmined
  BY <1>1, <1>2 DEF Paying, Unmined
<1>4. "uncertain" \notin Settled
  BY DEF Settled
<1> QED
  BY <1>1, <1>2, <1>3, <1>4 DEF Recorded

\* A request is settled only if the chain paid it, and unless its last attempt
\* is uncertain no transaction fixed for it has paid or can still be executed.
THEOREM OutcomeCorrect == Spec => []OutcomeIsChain
<1>1. ASSUME TypeOK, AttemptsOK PROVE OutcomeIsChain
  <2> SUFFICES ASSUME NEW w \in Sends
               PROVE  /\ state[w] \in Settled => Paying(w) # {}
                      /\ state[w] \notin Settled \union {"uncertain"} =>
                            /\ Paying(w) = {}
                            /\ \A n \in Nonces :
                                  send[n] # Nothing /\ send[n].of = w => mined[n] # Unmined
                      /\ pending[w] > 0 <=> state[w] \in Unresolved
    BY DEF OutcomeIsChain
  <2>1. \A n \in Nonces :
          Attempt(n, w) /\ state[w] # "uncertain" => mined[n] # Unmined
    BY <1>1 DEF AttemptsOK, Recorded
  <2>2. pending[w] > 0 <=> state[w] \in Unresolved
    BY <1>1, AmountsAssumption DEF AttemptsOK, Held
  <2> QED
    BY <1>1, <2>1, <2>2, PaidAttempt DEF AttemptsOK, Attempt
<1> QED
  BY <1>1, TypeCorrect, AttemptsCorrect, PTL

-----------------------------------------------------------------------------
(***************************************************************************)
(* Paid once, or closed unpaid.                                            *)
(***************************************************************************)

\* The status of a request in the promise.
StatusFollows ==
    \A w \in Sends :
        /\ state[w] = "none" => PayoutStatus[w] = "idle" /\ Paying(w) = {}
        /\ state[w] \in Closed => PayoutStatus[w] = "closed" /\ Paying(w) = {}
        /\ state[w] \in {"requested", "approved"} => PayoutStatus[w] = "open" /\ Paying(w) = {}
        /\ state[w] \in Settled => PayoutStatus[w] = "paid"
        /\ state[w] = "uncertain" /\ Paying(w) = {} => PayoutStatus[w] = "open"
        /\ state[w] = "uncertain" /\ Paying(w) # {} => PayoutStatus[w] = "paid"

\* The status follows from the state of the request and what the chain paid.
LEMMA StatusValue == TypeOK /\ Recorded => StatusFollows
<1> SUFFICES ASSUME TypeOK, Recorded PROVE StatusFollows
  OBVIOUS
<1> QED
  BY PaidAttempt DEF StatusFollows, PayoutStatus, Closed, Settled

\* A step of the wallet that touches one request is a step of the promise, if it
\* opens, pays or closes that request, or leaves its status and payments alone.
LEMMA OneRequest ==
    ASSUME NEW w \in Sends,
           \A v \in Sends : v # w =>
               PayoutStatus'[v] = PayoutStatus[v] /\ Paying(v)' = Paying(v),
           \/ /\ Paying(w)' = Paying(w)
              /\ \/ PayoutStatus'[w] = PayoutStatus[w]
                 \/ PayoutStatus[w] = "idle" /\ PayoutStatus'[w] = "open"
                 \/ PayoutStatus[w] = "open" /\ PayoutStatus'[w] = "closed"
           \/ /\ PayoutStatus[w] = "open" /\ PayoutStatus'[w] = "paid"
              /\ \E n \in Nonces : Paying(w)' = {n}
    PROVE  [Payout!Next]_Payout!vars
<1> DEFINE P == [v \in Sends |-> Paying(v)]
<1> DEFINE Q == [v \in Sends |-> Paying(v)']
<1>1. /\ PayoutStatus = [v \in Sends |-> PayoutStatus[v]]
      /\ PayoutStatus' = [v \in Sends |-> PayoutStatus'[v]]
  BY DEF PayoutStatus
<1>2. CASE Paying(w)' = Paying(w) /\ PayoutStatus'[w] = PayoutStatus[w]
  <2>1. PayoutStatus' = PayoutStatus /\ Q = P
    BY <1>1, <1>2
  <2> QED
    BY <2>1 DEF Payout!vars
<1>3. CASE Paying(w)' = Paying(w) /\ PayoutStatus[w] = "idle" /\ PayoutStatus'[w] = "open"
  <2>1. PayoutStatus' = [PayoutStatus EXCEPT ![w] = "open"] /\ Q = P
    BY <1>1, <1>3
  <2> QED
    BY <1>3, <2>1 DEF Payout!Next, Payout!Open
<1>4. CASE Paying(w)' = Paying(w) /\ PayoutStatus[w] = "open" /\ PayoutStatus'[w] = "closed"
  <2>1. PayoutStatus' = [PayoutStatus EXCEPT ![w] = "closed"] /\ Q = P
    BY <1>1, <1>4
  <2> QED
    BY <1>4, <2>1 DEF Payout!Next, Payout!Close
<1>5. ASSUME NEW n \in Nonces, PayoutStatus[w] = "open", PayoutStatus'[w] = "paid",
             Paying(w)' = {n}
      PROVE  [Payout!Next]_Payout!vars
  <2>1. PayoutStatus' = [PayoutStatus EXCEPT ![w] = "paid"] /\ Q = [P EXCEPT ![w] = {n}]
    BY <1>1, <1>5
  <2> QED
    BY <1>5, <2>1 DEF Payout!Next, Payout!Pay
<1> QED
  BY <1>2, <1>3, <1>4, <1>5

\* Every step of the wallet is a step of the promise, or stutters.
LEMMA NextPayout ==
    ASSUME TypeOK, TypeOK', InOrder, Recorded, Recorded', Moves
    PROVE  [Payout!Next]_Payout!vars
<1>1. ASSUME NEW v \in Sends, state'[v] = state[v], Paying(v)' = Paying(v)
      PROVE  PayoutStatus'[v] = PayoutStatus[v]
  BY <1>1 DEF PayoutStatus
<1>2. StatusFollows /\ StatusFollows'
  <2>1. TypeOK' /\ Recorded' => StatusFollows'
    BY StatusValue, PTL
  <2> QED
    BY <2>1, StatusValue
<1> USE DEF Closed, Settled
<1>3. ASSUME NEW w \in Sends, Relabels(w) PROVE [Payout!Next]_Payout!vars
  <2>1. \A v \in Sends : Paying(v)' = Paying(v)
    BY <1>3 DEF Relabels, Paying
  <2>2. \A v \in Sends : v # w => state'[v] = state[v]
    BY <1>3 DEF Relabels, TypeOK
  <2>3. \/ PayoutStatus'[w] = PayoutStatus[w]
        \/ PayoutStatus[w] = "idle" /\ PayoutStatus'[w] = "open"
        \/ PayoutStatus[w] = "open" /\ PayoutStatus'[w] = "closed"
    <3>1. PICK s \in {"requested", "approved", "credited"} \union Closed :
             /\ state'[w] = s
             /\ \/ state[w] = "none" /\ s = "requested"
                \/ state[w] = "requested" /\ s = "approved"
                \/ state[w] \in {"requested", "approved"} /\ s \in Closed
                \/ state[w] = "awaiting_protocol" /\ s = "credited"
      BY <1>3 DEF Relabels, TypeOK
    <3> QED
      BY <1>2, <3>1 DEF StatusFollows
  <2> QED
    BY <1>1, <2>1, <2>2, <2>3, OneRequest
<1>4. ASSUME NEW n \in Nonces, NEW w \in Sends, Fixes(n, w) PROVE [Payout!Next]_Payout!vars
  <2>1. mined[n].outcome \notin Pays /\ UNCHANGED mined
        /\ \A k \in Nonces : k # n => send'[k] = send[k]
    BY <1>4 DEF Fixes, Recorded, TypeOK
  <2>2. \A v \in Sends : Paying(v)' = Paying(v)
    BY <1>4, <2>1 DEF Paying, Fixes
  <2>3. \A v \in Sends : v # w => state'[v] = state[v]
    BY <1>4 DEF Fixes, TypeOK
  <2>4. state'[w] = "uncertain" /\ state[w] \in {"none", "approved"}
    BY <1>4 DEF Fixes, TypeOK
  <2>5. PayoutStatus'[w] = "open" /\ PayoutStatus[w] \in {"idle", "open"}
    BY <1>2, <2>2, <2>4 DEF StatusFollows
  <2> QED
    BY <1>1, <2>2, <2>3, <2>5, OneRequest
<1>5. ASSUME NEW n \in Nonces, Executes(n) PROVE [Payout!Next]_Payout!vars
  <2>1. PICK o \in Outcomes, f \in Nat :
          /\ mined' = [mined EXCEPT ![n] = [outcome |-> o, fee |-> f, height |-> Len(chain) + 1]]
          /\ o \in Pays => send[n] # Nothing
    BY <1>5 DEF Executes
  <2>2. UNCHANGED <<state, send, payment>> /\ mined[n] = Unmined
    BY <1>5, NextIsUnmined DEF Executes
  <2>3. payment[n] = "none" /\ mined[n].outcome \notin Pays
    BY <2>2 DEF Recorded, Unmined, Pays
  <2>4. /\ mined'[n].outcome = o
        /\ \A k \in Nonces : k # n => mined'[k] = mined[k]
    BY <2>1 DEF TypeOK
  <2>5. ASSUME NEW v \in Sends
        PROVE  Paying(v)' = IF o \in Pays /\ Attempt(n, v) THEN Paying(v) \union {n} ELSE Paying(v)
    BY <2>2, <2>3, <2>4 DEF Paying, Attempt
  <2>6. CASE o \in Pays
    <3>1. PICK w \in Sends : Attempt(n, w) /\ state[w] = "uncertain"
                            /\ \A v \in Sends : v # w => ~Attempt(n, v)
      BY <2>1, <2>3, <2>6, SendType DEF Recorded, Attempt
    <3>2. Paying(w) = {}
      <4>1. \A k \in Paying(w) : k \in Nonces /\ Attempt(k, w) /\ payment[k] = "none"
        BY <3>1, PaidAttempt
      <4>2. \A k \in Paying(w) : k = n
        BY <2>3, <3>1, <4>1 DEF Recorded
      <4>3. n \notin Paying(w)
        BY <2>3 DEF Paying
      <4> QED
        BY <4>2, <4>3
    <3>3. Paying(w)' = {n}
      BY <2>5, <2>6, <3>1, <3>2
    <3>4. PayoutStatus[w] = "open" /\ PayoutStatus'[w] = "paid"
      BY <1>2, <2>2, <3>1, <3>2, <3>3 DEF StatusFollows
    <3>5. \A v \in Sends : v # w => Paying(v)' = Paying(v) /\ state'[v] = state[v]
      BY <2>2, <2>5, <3>1
    <3> QED
      BY <1>1, <3>1, <3>3, <3>4, <3>5, OneRequest
  <2>7. CASE o \notin Pays
    <3>1. \A v \in Sends : Paying(v)' = Paying(v) /\ state'[v] = state[v]
      BY <2>2, <2>5, <2>7
    <3>2. PayoutStatus' = PayoutStatus /\ [v \in Sends |-> Paying(v)'] = [v \in Sends |-> Paying(v)]
      BY <3>1 DEF PayoutStatus
    <3> QED
      BY <3>2 DEF Payout!vars
  <2> QED
    BY <2>6, <2>7
<1>6. ASSUME NEW n \in Nonces, Records(n) PROVE [Payout!Next]_Payout!vars
  <2>1. PICK w \in Sends : /\ w = send[n].of /\ Attempt(n, w)
                           /\ payment[n] = "none" /\ state[w] = "uncertain"
    BY <1>6, SendType DEF Records, Evidence, Attempt
  <2>2. PICK s \in {"approved"} \union Closed \union Settled :
          state' = [state EXCEPT ![w] = s] /\ (s \in Settled <=> mined[n].outcome \in Pays)
    BY <1>6, <2>1 DEF Records
  <2>3. \A v \in Sends : Paying(v)' = Paying(v)
    BY <1>6 DEF Records, Paying
  <2>4. state'[w] = s /\ \A v \in Sends : v # w => state'[v] = state[v]
    BY <2>1, <2>2 DEF TypeOK
  <2>5. Paying(w) # {} <=> mined[n].outcome \in Pays
    <3>1. \A k \in Paying(w) : k \in Nonces /\ Attempt(k, w) /\ payment[k] = "none"
                               /\ mined[k].outcome \in Pays
      BY <2>1, PaidAttempt
    <3>2. \A k \in Paying(w) : k = n
      BY <2>1, <3>1 DEF Recorded
    <3>3. mined[n].outcome \in Pays => n \in Paying(w)
      BY <2>1 DEF Paying, Attempt
    <3> QED
      BY <3>1, <3>2, <3>3
  <2>6. \/ PayoutStatus'[w] = PayoutStatus[w]
        \/ PayoutStatus[w] = "open" /\ PayoutStatus'[w] = "closed"
    <3>1. CASE s \in Settled
      BY <1>2, <2>1, <2>2, <2>4, <2>5, <3>1 DEF StatusFollows
    <3>2. CASE s \notin Settled
      <4>1. PayoutStatus[w] = "open"
        BY <1>2, <2>1, <2>2, <2>5, <3>2 DEF StatusFollows
      <4>2. PayoutStatus'[w] \in {"open", "closed"}
        BY <1>2, <2>1, <2>2, <2>4, <3>2 DEF StatusFollows
      <4> QED
        BY <4>1, <4>2
    <3> QED
      BY <3>1, <3>2
  <2> QED
    BY <1>1, <2>1, <2>3, <2>4, <2>6, OneRequest
<1>7. CASE UNCHANGED <<state, send, payment, mined>>
  <2>1. PayoutStatus' = PayoutStatus /\ [v \in Sends |-> Paying(v)'] = [v \in Sends |-> Paying(v)]
    BY <1>7 DEF PayoutStatus, Paying
  <2> QED
    BY <2>1 DEF Payout!vars
<1> QED
  BY <1>3, <1>4, <1>5, <1>6, <1>7 DEF Moves

\* Whatever is signed, lost, replaced or reconciled late, a request is paid by
\* one transaction, for good, or closed unpaid, for good.
THEOREM PayoutsImplemented == Spec => ImplementsPayouts
<1>1. Init => Payout!Init
  <2> SUFFICES ASSUME Init PROVE Payout!Init
    OBVIOUS
  <2>1. \A w \in Sends : Paying(w) = {}
    BY DEF Init, Paying, Nothing
  <2> QED
    BY <2>1 DEF Init, Payout!Init, PayoutStatus
<1>2. TypeOK /\ TypeOK' /\ AttemptsOK /\ AttemptsOK' /\ [Next]_vars
        => [Payout!Next]_Payout!vars
  BY StepMoves, NextPayout DEF AttemptsOK
<1> QED
  BY <1>1, <1>2, TypeCorrect, AttemptsCorrect, PTL DEF Spec, ImplementsPayouts, Payout!Spec

-----------------------------------------------------------------------------
(***************************************************************************)
(* Seven days between two payments to a member.                            *)
(***************************************************************************)

\* A step leaves the heights of the chain alone.
LEMMA ChainKept ==
    ASSUME TypeOK, TypeOK', [Next]_vars
    PROVE  Len(chain') >= Len(chain) /\ \A h \in 1..Len(chain) : chain'[h] = chain[h]
<1>1. CASE UNCHANGED chain
  BY <1>1, TipType
<1>2. ASSUME NEW x, chain' = Append(chain, x)
      PROVE  Len(chain') >= Len(chain) /\ \A h \in 1..Len(chain) : chain'[h] = chain[h]
  BY <1>2 DEF TypeOK
<1>3. UNCHANGED chain \/ \E x : chain' = Append(chain, x)
  <2>1. ASSUME NEW w \in Withdrawals, WithdrawalStep(w) PROVE UNCHANGED chain
    BY <2>1 DEF WithdrawalStep, Request, RequestOperator, Approve, Release, chainVars
  <2>2. ASSUME NEW c \in Callers, Sending(c) PROVE UNCHANGED chain
    BY <2>2 DEF Sending, TakePreflight, Begin, BeginTopup, chainVars
  <2>3. CASE World
    BY <2>3 DEF World, Mine, Arrive, Tick, Extend, chainVars
  <2>4. CASE Reconciliation
    BY <2>4 DEF Reconciliation, ReconcileWithdrawal, ReconcileTopup, Credit, ReceiveToken,
       ReceiveNative, RecordCapture, CaptureFails, chainVars
  <2> QED
    BY <2>1, <2>2, <2>3, <2>4 DEF Next, vars, chainVars
<1> QED
  BY <1>1, <1>2, <1>3

\* What was mined stays mined, at the same block time.
LEMMA MinedAtKept ==
    ASSUME TypeOK, TypeOK', [Next]_vars, NEW n \in Nonces, mined[n] # Unmined,
           mined'[n] = mined[n]
    PROVE  MinedAt(n)' = MinedAt(n)
<1>1. mined[n].height \in 1..Len(chain)
  BY MinedType
<1> QED
  BY <1>1, ChainKept DEF MinedAt

\* A state of withdrawals that satisfies the cooldown.
Apart == Spaced /\ CooldownHolds

\* A withdrawal that is neither opened, paid nor settled keeps its distance, and
\* so it does when time passes.
LEMMA ApartKept ==
    ASSUME TypeOK, TypeOK', Apart, UNCHANGED lastPaid, now <= now',
           \A v \in Withdrawals :
               /\ Paying(v)' = Paying(v)
               /\ \A n \in Paying(v) : MinedAt(n)' = MinedAt(n)
               /\ state'[v] \in Unresolved => state[v] \in Unresolved
               /\ state'[v] \in Settled => state[v] \in Settled
    PROVE  Apart'
<1>0. now \in Int /\ now' \in Int /\ \A m \in Members : lastPaid[m] + Cooldown \in Int
  <2>1. now' \in Nat
    BY Zenon DEF TypeOK
  <2>2. Cooldown \in Nat
    BY AmountsAssumption
  <2> QED
    BY <2>1, <2>2, TimesType
<1>1. Spaced'
  <2> SUFFICES ASSUME NEW w \in Withdrawals, OwnerOf[w] \in Members
               PROVE  /\ state'[w] \in Unresolved =>
                            /\ \A v \in PendingOf(OwnerOf[w])' : v = w
                            /\ lastPaid'[OwnerOf[w]] + Cooldown <= now'
                            /\ \A n \in Paying(w)' : MinedAt(n)' >= lastPaid'[OwnerOf[w]] + Cooldown
                      /\ state'[w] \in Settled =>
                            \A n \in Paying(w)' : MinedAt(n)' <= lastPaid'[OwnerOf[w]]
    BY DEF Spaced
  <2> DEFINE m == OwnerOf[w]
  <2>1. ASSUME state'[w] \in Unresolved
        PROVE  /\ \A v \in PendingOf(m)' : v = w
               /\ lastPaid'[m] + Cooldown <= now'
               /\ \A n \in Paying(w)' : MinedAt(n)' >= lastPaid'[m] + Cooldown
    <3>1. state[w] \in Unresolved
      BY <2>1
    <3>2. /\ \A v \in PendingOf(m) : v = w
          /\ lastPaid[m] + Cooldown <= now
          /\ \A n \in Paying(w) : MinedAt(n) >= lastPaid[m] + Cooldown
      BY <3>1 DEF Apart, Spaced
    <3>3. PendingOf(m)' \subseteq PendingOf(m)
      BY DEF PendingOf
    <3> QED
      BY <1>0, <3>2, <3>3
  <2>2. ASSUME state'[w] \in Settled
        PROVE  \A n \in Paying(w)' : MinedAt(n)' <= lastPaid'[m]
    <3>1. state[w] \in Settled
      BY <2>2
    <3>2. \A n \in Paying(w) : MinedAt(n) <= lastPaid[m]
      BY <3>1 DEF Apart, Spaced
    <3> QED
      BY <3>2
  <2> QED
    BY <2>1, <2>2
<1>2. CooldownHolds'
  <2> SUFFICES ASSUME NEW v \in Withdrawals, NEW w \in Withdrawals, v # w,
                      OwnerOf[v] = OwnerOf[w], OwnerOf[v] \in Members,
                      NEW k \in Paying(v)', NEW n \in Paying(w)'
               PROVE  \/ MinedAt(k)' >= MinedAt(n)' + Cooldown
                      \/ MinedAt(n)' >= MinedAt(k)' + Cooldown
    BY DEF CooldownHolds
  <2>1. k \in Paying(v) /\ n \in Paying(w) /\ MinedAt(k)' = MinedAt(k) /\ MinedAt(n)' = MinedAt(n)
    OBVIOUS
  <2>2. \/ MinedAt(k) >= MinedAt(n) + Cooldown
        \/ MinedAt(n) >= MinedAt(k) + Cooldown
    BY <2>1 DEF Apart, CooldownHolds
  <2> QED
    BY <2>1, <2>2
<1> QED
  BY <1>1, <1>2 DEF Apart

\* No payment and no unresolved withdrawal at first.
LEMMA InitApart == ASSUME Init PROVE Apart
<1>1. \A w \in Sends : Paying(w) = {} /\ state[w] \notin Unresolved
  BY DEF Init, Paying, Nothing, Unresolved
<1>2. Withdrawals \subseteq Sends
  BY DEF Sends
<1> QED
  BY <1>1, <1>2 DEF Apart, Spaced, CooldownHolds

\* The withdrawals are sends, and an operator withdrawal is no member's.
LEMMA WithdrawalFacts ==
    /\ Withdrawals \subseteq Sends
    /\ \A p \in Topups : p \in Sends /\ p \notin Withdrawals
    /\ Operator \notin Members
  BY SendsAssumption DEF Sends

\* A request comes seven days after the recorded payment, and alone.
LEMMA RequestApart ==
    ASSUME TypeOK, TypeOK', Recorded, Apart, NEW w \in Withdrawals, Request(w)
    PROVE  Apart'
<1> DEFINE m == OwnerOf[w]
<1>1. /\ m \in Members /\ state[w] = "none" /\ PendingOf(m) = {}
      /\ now >= lastPaid[m] + Cooldown
      /\ state' = [state EXCEPT ![w] = "requested"]
      /\ UNCHANGED <<send, lastPaid, mined, chain, now>>
  BY DEF Request, Due, chainVars
<1>2. /\ state'[w] = "requested"
      /\ \A v \in Withdrawals : v # w => state'[v] = state[v]
  BY <1>1, WithdrawalFacts DEF TypeOK
<1>3. \A v \in Withdrawals : Paying(v)' = Paying(v)
  BY <1>1 DEF Paying
<1>4. \A n \in Nonces : MinedAt(n)' = MinedAt(n)
  BY <1>1 DEF MinedAt
<1>5. \A v \in Withdrawals : \A n \in Paying(v) : n \in Nonces
  BY DEF Paying
<1>6. CooldownHolds'
  BY <1>3, <1>4, <1>5 DEF CooldownHolds, Apart
<1>7. Paying(w) = {}
  BY <1>1, PaidAttempt, WithdrawalFacts DEF Settled
<1>8. \A v \in Withdrawals : OwnerOf[v] = m => state[v] \notin Unresolved
  BY <1>1 DEF PendingOf
<1>9. now \in Int /\ lastPaid[m] + Cooldown \in Int
  <2>1. Cooldown \in Nat /\ m \in Members
    BY <1>1, AmountsAssumption
  <2> QED
    BY <2>1, TimesType
<1>10. Spaced'
  <2> SUFFICES ASSUME NEW v \in Withdrawals, OwnerOf[v] \in Members
               PROVE  /\ state'[v] \in Unresolved =>
                            /\ \A u \in PendingOf(OwnerOf[v])' : u = v
                            /\ lastPaid'[OwnerOf[v]] + Cooldown <= now'
                            /\ \A n \in Paying(v)' : MinedAt(n)' >= lastPaid'[OwnerOf[v]] + Cooldown
                      /\ state'[v] \in Settled =>
                            \A n \in Paying(v)' : MinedAt(n)' <= lastPaid'[OwnerOf[v]]
    BY DEF Spaced
  <2>1. CASE v = w
    <3>1. \A u \in PendingOf(m)' : u = w
      BY <1>2, <1>8 DEF PendingOf
    <3>2. state'[v] \notin Settled
      BY <1>2, <2>1 DEF Settled
    <3> QED
      BY <1>1, <1>3, <1>7, <1>9, <2>1, <3>1, <3>2
  <2>2. CASE v # w
    <3>1. ASSUME state'[v] \in Unresolved PROVE PendingOf(OwnerOf[v])' = PendingOf(OwnerOf[v])
      <4>1. OwnerOf[v] # m
        BY <1>2, <1>8, <2>2, <3>1
      <4> QED
        BY <1>2, <4>1 DEF PendingOf
    <3> QED
      BY <1>1, <1>2, <1>3, <1>4, <1>5, <2>2, <3>1 DEF Spaced, Apart
  <2> QED
    BY <2>1, <2>2
<1> QED
  BY <1>6, <1>10 DEF Apart

\* A payment is mined after the cooldown of the recorded one: the withdrawal it
\* is for was requested after that cooldown, and is still unresolved.
LEMMA MineApart ==
    ASSUME TypeOK, TypeOK', InOrder, Recorded, Apart, [Next]_vars,
           NEW n \in Nonces, Executes(n), UNCHANGED <<lastPaid, now>>,
           chain'[Len(chain) + 1].time = now
    PROVE  Apart'
<1>1. PICK o \in Outcomes, f \in Nat :
        /\ mined' = [mined EXCEPT ![n] = [outcome |-> o, fee |-> f, height |-> Len(chain) + 1]]
        /\ o \in Pays => send[n] # Nothing
  BY DEF Executes
<1>2. UNCHANGED <<state, send, payment>> /\ mined[n] = Unmined
  BY NextIsUnmined DEF Executes
<1>3. payment[n] = "none" /\ mined[n].outcome \notin Pays
  BY <1>2 DEF Recorded, Unmined, Pays
<1>4. /\ mined'[n].outcome = o /\ mined'[n].height = Len(chain) + 1
      /\ \A k \in Nonces : k # n => mined'[k] = mined[k]
  BY <1>1 DEF TypeOK
<1>5. \A v \in Sends :
        Paying(v)' = IF o \in Pays /\ Attempt(n, v) THEN Paying(v) \union {n} ELSE Paying(v)
  BY <1>2, <1>3, <1>4 DEF Paying, Attempt
<1>6. \A v \in Sends : n \notin Paying(v)
  BY <1>3 DEF Paying
<1>7. ASSUME NEW v \in Sends, NEW k \in Paying(v) PROVE MinedAt(k)' = MinedAt(k)
  <2>1. k \in Nonces /\ mined[k] # Unmined /\ k # n
    BY <1>6, <1>7, PaidAttempt, TypeOK, Recorded
  <2> QED
    BY <1>4, <2>1, MinedAtKept
<1>8. MinedAt(n)' = now
  BY <1>4 DEF MinedAt
<1>9. now \in Int /\ \A m \in Members : lastPaid[m] \in Int /\ Cooldown \in Int
  BY AmountsAssumption DEF TypeOK
<1>10. CASE \A v \in Withdrawals : Paying(v)' = Paying(v)
  BY <1>2, <1>7, <1>9, <1>10, ApartKept, WithdrawalFacts
<1>11. ASSUME NEW w \in Withdrawals, o \in Pays, Attempt(n, w) PROVE Apart'
  <2>1. /\ state[w] = "uncertain" /\ Paying(w)' = Paying(w) \union {n}
        /\ \A v \in Withdrawals : v # w => Paying(v)' = Paying(v)
    BY <1>3, <1>5, <1>11, WithdrawalFacts DEF Recorded, Attempt
  <2>2. Paying(w) = {}
    <3>1. \A k \in Paying(w) : k \in Nonces /\ Attempt(k, w) /\ payment[k] = "none"
      BY <2>1, PaidAttempt, WithdrawalFacts
    <3>2. \A k \in Paying(w) : k = n
      BY <1>3, <1>11, <3>1, WithdrawalFacts DEF Recorded
    <3> QED
      BY <1>6, <3>2, WithdrawalFacts
  <2>3. \A v \in Withdrawals : \A k \in Paying(v)' : (v = w /\ k = n) \/ (v # w /\ k \in Paying(v))
    BY <2>1, <2>2
  <2>4. ASSUME OwnerOf[w] \in Members
        PROVE  /\ lastPaid[OwnerOf[w]] + Cooldown <= now
               /\ \A v \in PendingOf(OwnerOf[w]) : v = w
    BY <2>1, <2>4 DEF Apart, Spaced, Unresolved
  <2>5. \A m : PendingOf(m)' = PendingOf(m)
    BY <1>2 DEF PendingOf
  <2>6. Spaced'
    <3> SUFFICES ASSUME NEW v \in Withdrawals, OwnerOf[v] \in Members
                 PROVE  /\ state'[v] \in Unresolved =>
                              /\ \A u \in PendingOf(OwnerOf[v])' : u = v
                              /\ lastPaid'[OwnerOf[v]] + Cooldown <= now'
                              /\ \A k \in Paying(v)' : MinedAt(k)' >= lastPaid'[OwnerOf[v]] + Cooldown
                        /\ state'[v] \in Settled =>
                              \A k \in Paying(v)' : MinedAt(k)' <= lastPaid'[OwnerOf[v]]
      BY DEF Spaced
    <3>1. CASE v = w
      <4>1. \A k \in Paying(v)' : MinedAt(k)' = now
        BY <1>8, <2>3, <3>1
      <4>2. state'[v] \notin Settled
        BY <1>2, <2>1, <3>1 DEF Settled
      <4> QED
        BY <1>9, <2>4, <2>5, <3>1, <4>1, <4>2
    <3>2. CASE v # w
      <4>1. \A k \in Paying(v)' : k \in Paying(v) /\ MinedAt(k)' = MinedAt(k)
        BY <1>7, <2>3, <3>2, WithdrawalFacts
      <4> QED
        BY <1>2, <2>5, <4>1 DEF Spaced, Apart
    <3> QED
      BY <3>1, <3>2
  <2>7. ASSUME NEW v \in Withdrawals, v # w, OwnerOf[v] = OwnerOf[w], OwnerOf[w] \in Members,
               NEW k \in Paying(v)
        PROVE  now >= MinedAt(k) + Cooldown /\ MinedAt(k)' = MinedAt(k)
    <3>1. state[v] \notin Unresolved
      BY <2>4, <2>7 DEF PendingOf
    <3>2. state[v] \in Settled
      BY <2>7, <3>1, PaidAttempt, WithdrawalFacts DEF Unresolved
    <3>3. MinedAt(k) <= lastPaid[OwnerOf[w]]
      BY <2>7, <3>2 DEF Apart, Spaced
    <3>4. MinedAt(k) \in Int
      BY <2>7, PaidAttempt, MinedType, WithdrawalFacts
    <3> QED
      BY <1>7, <1>9, <2>4, <2>7, <3>3, <3>4, WithdrawalFacts
  <2>8. CooldownHolds'
    <3> SUFFICES ASSUME NEW v \in Withdrawals, NEW u \in Withdrawals, v # u,
                        OwnerOf[v] = OwnerOf[u], OwnerOf[v] \in Members,
                        NEW k \in Paying(v)', NEW j \in Paying(u)'
                 PROVE  \/ MinedAt(k)' >= MinedAt(j)' + Cooldown
                        \/ MinedAt(j)' >= MinedAt(k)' + Cooldown
      BY DEF CooldownHolds
    <3>1. CASE v = w
      <4>1. k = n /\ j \in Paying(u)
        BY <2>3, <3>1
      <4> QED
        BY <1>8, <2>7, <3>1, <4>1
    <3>2. CASE u = w
      <4>1. j = n /\ k \in Paying(v)
        BY <2>3, <3>2
      <4> QED
        BY <1>8, <2>7, <3>2, <4>1
    <3>3. CASE v # w /\ u # w
      <4>1. k \in Paying(v) /\ j \in Paying(u) /\ MinedAt(k)' = MinedAt(k)
            /\ MinedAt(j)' = MinedAt(j)
        BY <1>7, <2>3, <3>3, WithdrawalFacts
      <4>2. \/ MinedAt(k) >= MinedAt(j) + Cooldown
            \/ MinedAt(j) >= MinedAt(k) + Cooldown
        BY <4>1 DEF Apart, CooldownHolds
      <4> QED
        BY <4>1, <4>2
    <3> QED
      BY <3>1, <3>2, <3>3
  <2> QED
    BY <2>6, <2>8 DEF Apart
<1> QED
  BY <1>5, <1>10, <1>11, WithdrawalFacts

\* The recorded time moves to the block of the payment, which is later.
LEMMA ReconcileApart ==
    ASSUME TypeOK, TypeOK', Recorded, Apart, NEW n \in Nonces, ReconcileWithdrawal(n)
    PROVE  Apart'
<1>1. PICK w \in Withdrawals :
        /\ w = send[n].of /\ Attempt(n, w) /\ payment[n] = "none" /\ state[w] = "uncertain"
  BY DEF ReconcileWithdrawal, Evidence, Attempt
<1>2. /\ UNCHANGED <<send, mined, chain, now>>
      /\ state' = [state EXCEPT ![w] = IF mined[n].outcome \in Pays THEN "paid" ELSE "approved"]
      /\ lastPaid' = [m \in Members |-> IF mined[n].outcome \in Pays /\ OwnerOf[w] = m
                                        THEN MinedAt(n) ELSE lastPaid[m]]
  BY <1>1 DEF ReconcileWithdrawal, chainVars
<1>3. /\ state'[w] = IF mined[n].outcome \in Pays THEN "paid" ELSE "approved"
      /\ \A v \in Withdrawals : v # w => state'[v] = state[v]
  BY <1>2, WithdrawalFacts DEF TypeOK
<1>4. \A v \in Withdrawals : Paying(v)' = Paying(v) /\ \A k \in Paying(v) : k \in Nonces
  BY <1>2 DEF Paying
<1>5. \A k \in Nonces : MinedAt(k)' = MinedAt(k)
  BY <1>2 DEF MinedAt
<1>6. \A k \in Paying(w) : k = n
  <2>1. \A k \in Paying(w) : k \in Nonces /\ Attempt(k, w) /\ payment[k] = "none"
    BY <1>1, PaidAttempt, WithdrawalFacts
  <2> QED
    BY <1>1, <2>1, WithdrawalFacts DEF Recorded
<1>7. now \in Int /\ now <= now' /\ Cooldown \in Nat /\ \A m \in Members : lastPaid[m] \in Int
  BY <1>2, AmountsAssumption DEF TypeOK
<1>8. \A v \in Withdrawals : \A k \in Paying(v) : MinedAt(k) \in Int
  BY PaidAttempt, MinedType, WithdrawalFacts
<1>9. CASE mined[n].outcome \notin Pays
  <2>1. lastPaid' = lastPaid
    BY <1>2, <1>9 DEF TypeOK
  <2>2. \A v \in Withdrawals :
          /\ state'[v] \in Unresolved => state[v] \in Unresolved
          /\ state'[v] \in Settled => state[v] \in Settled
    BY <1>1, <1>3, <1>9 DEF Unresolved, Settled
  <2> QED
    BY <1>4, <1>5, <1>7, <2>1, <2>2, ApartKept
<1>10. CASE mined[n].outcome \in Pays /\ OwnerOf[w] \notin Members
  <2>1. \A m \in Members : lastPaid'[m] = lastPaid[m]
    BY <1>2, <1>10
  <2>2. \A v \in Withdrawals : OwnerOf[v] \in Members => state'[v] = state[v]
    BY <1>3, <1>10
  <2>3. \A m \in Members : PendingOf(m)' = PendingOf(m)
    BY <1>3, <1>10 DEF PendingOf
  <2>4. Spaced'
    BY <1>2, <1>4, <1>5, <2>1, <2>2, <2>3 DEF Spaced, Apart
  <2>5. CooldownHolds'
    BY <1>4, <1>5 DEF CooldownHolds, Apart
  <2> QED
    BY <2>4, <2>5 DEF Apart
<1>11. CASE mined[n].outcome \in Pays /\ OwnerOf[w] \in Members
  <2> DEFINE m == OwnerOf[w]
  <2>1. /\ lastPaid'[m] = MinedAt(n) /\ state'[w] = "paid"
        /\ \A l \in Members : l # m => lastPaid'[l] = lastPaid[l]
    BY <1>2, <1>3, <1>11
  <2>2. n \in Paying(w)
    BY <1>1, <1>11 DEF Paying, Attempt
  <2>3. MinedAt(n) >= lastPaid[m] + Cooldown /\ \A v \in PendingOf(m) : v = w
    BY <1>1, <1>11, <2>2 DEF Apart, Spaced, Unresolved
  <2>4. MinedAt(n) >= lastPaid[m]
    BY <1>7, <1>8, <1>11, <2>2, <2>3
  <2>5. \A v \in Withdrawals : OwnerOf[v] = m => state'[v] \notin Unresolved
    BY <1>3, <2>1, <2>3 DEF PendingOf, Unresolved
  <2>6. CooldownHolds'
    BY <1>4, <1>5 DEF CooldownHolds, Apart
  <2>7. Spaced'
    <3> SUFFICES ASSUME NEW v \in Withdrawals, OwnerOf[v] \in Members
                 PROVE  /\ state'[v] \in Unresolved =>
                              /\ \A u \in PendingOf(OwnerOf[v])' : u = v
                              /\ lastPaid'[OwnerOf[v]] + Cooldown <= now'
                              /\ \A k \in Paying(v)' : MinedAt(k)' >= lastPaid'[OwnerOf[v]] + Cooldown
                        /\ state'[v] \in Settled =>
                              \A k \in Paying(v)' : MinedAt(k)' <= lastPaid'[OwnerOf[v]]
      BY DEF Spaced
    <3>1. CASE v = w
      BY <1>4, <1>5, <1>6, <1>7, <1>8, <2>1, <2>2, <2>5, <3>1
    <3>2. CASE v # w /\ OwnerOf[v] = m
      <4>1. state'[v] = state[v] /\ state'[v] \notin Unresolved
        BY <1>3, <2>5, <3>2
      <4>2. state[v] \in Settled => \A k \in Paying(v) : MinedAt(k) <= lastPaid[m]
        BY <1>11, <3>2 DEF Apart, Spaced
      <4> QED
        BY <1>4, <1>5, <1>7, <1>8, <1>11, <2>1, <2>2, <2>4, <3>2, <4>1, <4>2
    <3>3. CASE OwnerOf[v] # m
      <4>1. PendingOf(OwnerOf[v])' = PendingOf(OwnerOf[v])
        BY <1>3, <3>3 DEF PendingOf
      <4>2. state'[v] = state[v] /\ lastPaid'[OwnerOf[v]] = lastPaid[OwnerOf[v]]
        BY <1>3, <2>1, <3>3
      <4> QED
        BY <1>2, <1>4, <1>5, <4>1, <4>2 DEF Apart, Spaced
    <3> QED
      BY <3>1, <3>2, <3>3
  <2> QED
    BY <2>6, <2>7 DEF Apart
<1> QED
  BY <1>9, <1>10, <1>11

\* The other steps neither open, pay nor settle a member's withdrawal.
LEMMA NextApart ==
    ASSUME TypeOK, TypeOK', InOrder, Recorded, Apart, [Next]_vars PROVE Apart'
<1>0. now \in Nat /\ now' \in Nat
  BY DEF TypeOK
<1>1. ASSUME UNCHANGED <<lastPaid, mined>>, now <= now',
             \A v \in Withdrawals :
                 /\ Paying(v)' = Paying(v)
                 /\ state'[v] \in Unresolved => state[v] \in Unresolved
                 /\ state'[v] \in Settled => state[v] \in Settled
      PROVE  Apart'
  <2>1. \A v \in Withdrawals : \A k \in Paying(v) : MinedAt(k)' = MinedAt(k)
    <3>1. \A v \in Withdrawals : \A k \in Paying(v) : k \in Nonces /\ mined[k] # Unmined
      BY PaidAttempt, WithdrawalFacts
    <3> QED
      BY <1>1, <3>1, MinedAtKept
  <2> QED
    BY <1>1, <2>1, ApartKept
<1>2. ASSUME UNCHANGED <<send, mined>> PROVE \A v \in Withdrawals : Paying(v)' = Paying(v)
  BY <1>2 DEF Paying
<1>3. ASSUME NEW w \in Withdrawals, WithdrawalStep(w) PROVE Apart'
  <2>1. CASE Request(w)
    BY <2>1, RequestApart
  <2>2. CASE RequestOperator(w)
    <3>1. /\ state' = [state EXCEPT ![w] = "requested"] /\ OwnerOf[w] = Operator
          /\ UNCHANGED <<lastPaid, send, mined, chain, now>>
      BY <2>2 DEF RequestOperator, chainVars
    <3>2. \A v \in Withdrawals : OwnerOf[v] \in Members => state'[v] = state[v]
      BY <3>1, WithdrawalFacts DEF TypeOK
    <3>3. \A m \in Members : PendingOf(m)' = PendingOf(m)
      BY <3>2 DEF PendingOf
    <3>4. \A k \in Nonces : MinedAt(k)' = MinedAt(k)
      BY <3>1 DEF MinedAt
    <3>5. \A v \in Withdrawals : Paying(v)' = Paying(v) /\ \A k \in Paying(v) : k \in Nonces
      BY <3>1 DEF Paying
    <3>6. Spaced'
      BY <3>1, <3>2, <3>3, <3>4, <3>5 DEF Spaced, Apart
    <3>7. CooldownHolds'
      BY <3>4, <3>5 DEF CooldownHolds, Apart
    <3> QED
      BY <3>6, <3>7 DEF Apart
  <2>3. CASE Approve(w)
    <3>1. /\ state' = [state EXCEPT ![w] = "approved"] /\ state[w] = "requested"
          /\ UNCHANGED <<lastPaid, send, mined, now>>
      BY <2>3 DEF Approve, chainVars
    <3>2. \A v \in Withdrawals :
            /\ state'[v] \in Unresolved => state[v] \in Unresolved
            /\ state'[v] \in Settled => state[v] \in Settled
      BY <3>1, WithdrawalFacts DEF TypeOK, Unresolved, Settled
    <3> QED
      BY <1>0, <1>1, <1>2, <3>1, <3>2
  <2>4. ASSUME NEW s \in {"cancelled", "rejected"}, Release(w, s) PROVE Apart'
    <3>1. state' = [state EXCEPT ![w] = s] /\ UNCHANGED <<lastPaid, send, mined, now>>
      BY <2>4 DEF Release, chainVars
    <3>2. \A v \in Withdrawals :
            /\ state'[v] \in Unresolved => state[v] \in Unresolved
            /\ state'[v] \in Settled => state[v] \in Settled
      BY <3>1, WithdrawalFacts DEF TypeOK, Unresolved, Settled
    <3> QED
      BY <1>0, <1>1, <1>2, <3>1, <3>2
  <2> QED
    BY <1>3, <2>1, <2>2, <2>3, <2>4 DEF WithdrawalStep
<1>4. ASSUME NEW c \in Callers, Sending(c) PROVE Apart'
  <2>1. ASSUME NEW n \in Nonces, TakePreflight(c, n) PROVE Apart'
    BY <1>0, <1>1, <1>2, <2>1 DEF TakePreflight, sendVars, chainVars
  <2>2. ASSUME NEW n \in Nonces, NEW w \in Sends, ReserveNonce(n, w), UNCHANGED mined
        PROVE  \A v \in Withdrawals : Paying(v)' = Paying(v)
    <3>1. mined[n].outcome \notin Pays /\ \A k \in Nonces : k # n => send'[k] = send[k]
      BY <2>2 DEF ReserveNonce, NonceFree, Recorded, TypeOK
    <3> QED
      BY <2>2, <3>1 DEF Paying, ReserveNonce, NonceFree
  <2>3. ASSUME preflight[c] # Nothing PROVE preflight[c].nonce \in Nonces
    BY <2>3 DEF TypeOK
  <2>4. ASSUME NEW w \in Withdrawals, Begin(c, w) PROVE Apart'
    <3>1. \A v \in Withdrawals : Paying(v)' = Paying(v)
      BY <2>2, <2>3, <2>4, WithdrawalFacts DEF Begin, chainVars
    <3>2. /\ state' = [state EXCEPT ![w] = "uncertain"] /\ state[w] = "approved"
          /\ UNCHANGED <<lastPaid, mined, now>>
      BY <2>4 DEF Begin, Sendable, ReserveNonce, chainVars
    <3>3. \A v \in Withdrawals :
            /\ state'[v] \in Unresolved => state[v] \in Unresolved
            /\ state'[v] \in Settled => state[v] \in Settled
      BY <3>2, WithdrawalFacts DEF TypeOK, Unresolved, Settled
    <3> QED
      BY <1>0, <1>1, <3>1, <3>2, <3>3
  <2>5. ASSUME NEW p \in Topups, BeginTopup(c, p) PROVE Apart'
    <3>1. \A v \in Withdrawals : Paying(v)' = Paying(v)
      BY <2>2, <2>3, <2>5, WithdrawalFacts DEF BeginTopup, chainVars
    <3>2. state' = [state EXCEPT ![p] = "uncertain"] /\ UNCHANGED <<lastPaid, mined, now>>
      BY <2>5 DEF BeginTopup, ReserveNonce, chainVars
    <3>3. \A v \in Withdrawals : state'[v] = state[v]
      BY <3>2, WithdrawalFacts DEF TypeOK
    <3> QED
      BY <1>0, <1>1, <3>1, <3>2, <3>3
  <2> QED
    BY <1>4, <2>1, <2>4, <2>5 DEF Sending
<1>5. ASSUME NEW o \in Outcomes, NEW f \in Fees \union {0}, Mine(o, f) PROVE Apart'
  <2>1. Tip.nonces \in Nonces /\ Executes(Tip.nonces) /\ UNCHANGED <<lastPaid, now>>
    <3>1. f \in Nat
      BY AmountsAssumption
    <3> QED
      BY <1>5, <3>1 DEF Mine, Executes, sendVars
  <2>2. chain'[Len(chain) + 1].time = now
    <3>1. \E x : chain' = Append(chain, x) /\ x.time = now
      BY <1>5 DEF Mine, Extend
    <3> QED
      BY <3>1 DEF TypeOK
  <2> QED
    BY <2>1, <2>2, MineApart
<1>6. ASSUME NEW d \in Receipts, Arrive(d) PROVE Apart'
  BY <1>0, <1>1, <1>2, <1>6 DEF Arrive, sendVars
<1>7. CASE Tick
  BY <1>0, <1>1, <1>2, <1>7 DEF Tick, sendVars, chainVars
<1>8. ASSUME NEW n \in Nonces, ReconcileWithdrawal(n) PROVE Apart'
  BY <1>8, ReconcileApart
<1>9. ASSUME NEW n \in Nonces, ReconcileTopup(n) PROVE Apart'
  <2>1. PICK p \in Topups : \E s : state' = [state EXCEPT ![p] = s]
    BY <1>9 DEF ReconcileTopup
  <2>2. \A v \in Withdrawals : state'[v] = state[v]
    BY <2>1, WithdrawalFacts DEF TypeOK
  <2> QED
    BY <1>0, <1>1, <1>2, <1>9, <2>2 DEF ReconcileTopup, chainVars
<1>10. ASSUME NEW p \in Topups, Credit(p) PROVE Apart'
  <2>1. \A v \in Withdrawals : state'[v] = state[v]
    BY <1>10, WithdrawalFacts DEF Credit, TypeOK
  <2> QED
    BY <1>0, <1>1, <1>2, <1>10, <2>1 DEF Credit, chainVars
<1>11. ASSUME UNCHANGED <<sendVars, chainVars, now>> PROVE Apart'
  BY <1>0, <1>1, <1>2, <1>11 DEF sendVars, chainVars
<1>12. CASE UNCHANGED vars
  BY <1>11, <1>12 DEF vars
<1>13. CASE Reconciliation
  <2>1. ASSUME NEW d \in Receipts, ReceiveToken(d) \/ ReceiveNative(d) PROVE Apart'
    BY <1>11, <2>1 DEF ReceiveToken, ReceiveNative
  <2>2. ASSUME NEW last \in 1..Len(chain), NEW target \in 1..Len(chain),
               RecordCapture(last, target)
        PROVE  Apart'
    BY <1>11, <2>2 DEF RecordCapture
  <2>3. CASE CaptureFails
    BY <1>11, <2>3 DEF CaptureFails
  <2> QED
    BY <1>8, <1>9, <1>10, <1>13, <2>1, <2>2, <2>3 DEF Reconciliation
<1> QED
  BY <1>3, <1>4, <1>5, <1>6, <1>7, <1>12, <1>13 DEF Next, World

\* Two payments to one member are at least seven days of block time apart, by
\* whichever attempts, reconciled however late.
THEOREM CooldownCorrect == Spec => []CooldownHolds
<1>1. Init => Apart
  BY InitApart
<1>2. TypeOK /\ TypeOK' /\ AttemptsOK /\ Apart /\ [Next]_vars => Apart'
  BY NextApart DEF AttemptsOK
<1>3. Apart => CooldownHolds
  BY DEF Apart
<1> QED
  BY <1>1, <1>2, <1>3, TypeCorrect, AttemptsCorrect, PTL DEF Spec

-----------------------------------------------------------------------------
(***************************************************************************)
(* What a healthy check means.                                             *)
(***************************************************************************)

\* The transactions up to a height are the first nonces, as many as the chain
\* counts there.
LEMMA MinedByHeight ==
    ASSUME TypeOK, InOrder, NEW h \in 1..Len(chain)
    PROVE  /\ IsFiniteSet(MinedBy(h))
           /\ Cardinality(MinedBy(h)) = chain[h].nonces
<1> DEFINE k == chain[h].nonces
<1>1. k \in 0..MaxNonce + 1 /\ MaxNonce \in Nat
  BY TipType, SendsAssumption DEF Snapshots
<1>2. \A n \in Nonces : n < k <=> mined[n].height \in 1..h
  BY DEF InOrder
<1>3. MinedBy(h) = 0..k - 1
  BY <1>1, <1>2 DEF MinedBy, Nonces
<1>4. IsFiniteSet(0..k - 1) /\ Cardinality(0..k - 1) = k
  <2>1. k - 1 \in Int /\ (k - 1) - 0 + 1 = k /\ (0 > k - 1 <=> k = 0)
    BY <1>1
  <2> HIDE DEF k
  <2> QED
    BY <2>1, FS_Interval
<1> QED
  BY <1>3, <1>4

\* If as many of them are recorded, all are.
LEMMA HealthyRecorded ==
    ASSUME TypeOK, InOrder, Recorded, NEW last \in 1..Len(chain), NEW target,
           Healthy(last, target)
    PROVE  \A n \in MinedBy(last) : payment[n] = mined[n].outcome
<1> DEFINE A == {n \in MinedBy(last) : payment[n] # "none"}
<1>1. Cardinality(A) = Cardinality(MinedBy(last)) /\ IsFiniteSet(MinedBy(last))
  BY MinedByHeight DEF Healthy, Accounted
<1>2. A = MinedBy(last)
  <2>1. A \in SUBSET MinedBy(last)
    OBVIOUS
  <2> HIDE DEF A
  <2> QED
    BY <1>1, <2>1, FS_Subset
<1>3. \A n \in MinedBy(last) : payment[n] # "none" /\ n \in Nonces
  BY <1>2 DEF MinedBy
<1> QED
  BY <1>3 DEF Recorded

\* A healthy check stays true of the chain and the payments: what is up to its
\* height is recorded for good.
LEMMA HealthyKept ==
    ASSUME TypeOK, InOrder, Recorded, Moves, HealthyIsReconciled, Checked,
           UNCHANGED <<check, cursor>>
    PROVE  HealthyIsReconciled'
<1> SUFFICES ASSUME check # Nothing, NEW n \in Nonces, mined'[n].height \in 1..check.height
             PROVE  payment'[n] = mined'[n].outcome
  BY DEF HealthyIsReconciled, MinedBy
<1>1. check.height \in 0..Len(chain) /\ Len(chain) \in Nat
  BY TipType DEF Checked, TypeOK
<1>2. ASSUME mined'[n] = mined[n] PROVE payment[n] = mined[n].outcome /\ payment[n] # "none"
  <2>1. n \in MinedBy(check.height)
    BY <1>2 DEF MinedBy
  <2>2. mined[n] # Unmined
    BY <1>1, <1>2, MinedType
  <2> QED
    BY <2>1, <2>2, MinedType DEF HealthyIsReconciled, Outcomes, Pays
<1>3. ASSUME NEW k \in Nonces, Executes(k) PROVE payment'[n] = mined'[n].outcome
  <2>1. CASE k = n
    <3>1. mined'[n].height = Len(chain) + 1
      BY <1>3, <2>1 DEF Executes, TypeOK
    <3> QED
      BY <1>1, <3>1
  <2>2. CASE k # n
    BY <1>2, <1>3, <2>2 DEF Executes, TypeOK
  <2> QED
    BY <2>1, <2>2
<1>4. ASSUME NEW k \in Nonces, Records(k) PROVE payment'[n] = mined'[n].outcome
  <2>1. k # n
    BY <1>2, <1>4 DEF Records, Evidence
  <2> QED
    BY <1>2, <1>4, <2>1 DEF Records, TypeOK
<1> QED
  BY <1>2, <1>3, <1>4 DEF Moves, Relabels, Fixes

\* What a healthy check means.
CheckMeans == Checked /\ HealthyIsReconciled

\* Every check that is recorded means it, and nothing that happens later takes
\* it back.
LEMMA NextCheck ==
    ASSUME TypeOK, InOrder, Recorded, CheckMeans, [Next]_vars PROVE CheckMeans'
<1>1. ASSUME UNCHANGED <<check, cursor>>, received \subseteq received',
             \/ UNCHANGED arrived
             \/ \E d \in Receipts : arrived' = [arrived EXCEPT ![d] = Len(chain) + 1]
      PROVE  CheckMeans'
  <2>1. HealthyIsReconciled'
    BY <1>1, StepMoves, HealthyKept DEF CheckMeans
  <2>2. cursor \in 0..Len(chain) /\ Len(chain) \in Nat
    BY TipType DEF TypeOK
  <2>3. ASSUME NEW d \in Receipts, arrived'[d] \in 1..cursor PROVE arrived[d] = arrived'[d]
    BY <1>1, <2>2, <2>3 DEF TypeOK
  <2>4. Checked'
    BY <1>1, <2>3 DEF CheckMeans, Checked
  <2> QED
    BY <2>1, <2>4 DEF CheckMeans
<1>2. ASSUME UNCHANGED <<check, cursor, received, arrived>> PROVE CheckMeans'
  BY <1>1, <1>2
<1>3. ASSUME check' = Nothing PROVE CheckMeans'
  BY <1>3 DEF CheckMeans, Checked, HealthyIsReconciled
<1>4. ASSUME NEW last \in 1..Len(chain), NEW target \in 1..Len(chain),
             RecordCapture(last, target), Healthy(last, target)
      PROVE  CheckMeans'
  <2>1. /\ cursor' = last /\ check' = [recorded |-> Backing, height |-> last]
        /\ UNCHANGED <<payment, mined, arrived, received>>
        /\ \A d \in Receipts : Asset[d] = "tig" /\ arrived[d] \in 1..last => d \in received
    BY <1>4 DEF RecordCapture, sendVars, ledgerVars, chainVars
  <2>2. \A n \in MinedBy(last) : payment[n] = mined[n].outcome
    BY <1>4, HealthyRecorded
  <2>3. check'.height = last
    BY <2>1
  <2>4. Checked'
    BY <2>1, <2>3 DEF Checked
  <2>5. HealthyIsReconciled'
    BY <2>1, <2>2, <2>3 DEF HealthyIsReconciled, MinedBy
  <2> QED
    BY <2>4, <2>5 DEF CheckMeans
<1>5. ASSUME NEW w \in Withdrawals, WithdrawalStep(w) PROVE CheckMeans'
  BY <1>2, <1>5 DEF WithdrawalStep, Request, RequestOperator, Approve, Release, ledgerVars,
     localVars, chainVars
<1>6. ASSUME NEW c \in Callers, Sending(c) PROVE CheckMeans'
  BY <1>2, <1>6 DEF Sending, TakePreflight, Begin, BeginTopup, ledgerVars, localVars, chainVars
<1>7. CASE World
  <2>1. ASSUME NEW o \in Outcomes, NEW f \in Fees \union {0}, Mine(o, f) PROVE CheckMeans'
    BY <1>2, <2>1 DEF Mine, ledgerVars, localVars
  <2>2. ASSUME NEW d \in Receipts, Arrive(d) PROVE CheckMeans'
    BY <1>1, <2>2 DEF Arrive, ledgerVars, localVars
  <2>3. CASE Tick
    BY <1>2, <2>3 DEF Tick, ledgerVars, localVars, chainVars
  <2> QED
    BY <1>7, <2>1, <2>2, <2>3 DEF World
<1>8. CASE Reconciliation
  <2>1. ASSUME NEW n \in Nonces, ReconcileWithdrawal(n) \/ ReconcileTopup(n) PROVE CheckMeans'
    BY <1>2, <2>1 DEF ReconcileWithdrawal, ReconcileTopup, localVars, chainVars
  <2>2. ASSUME NEW p \in Topups, Credit(p) PROVE CheckMeans'
    BY <1>2, <2>2 DEF Credit, ledgerVars, localVars, chainVars
  <2>3. ASSUME NEW d \in Receipts, ReceiveToken(d) \/ ReceiveNative(d) PROVE CheckMeans'
    BY <1>1, <2>3 DEF ReceiveToken, ReceiveNative, localVars, chainVars
  <2>4. ASSUME NEW last \in 1..Len(chain), NEW target \in 1..Len(chain),
               RecordCapture(last, target)
        PROVE  CheckMeans'
    BY <1>3, <1>4, <2>4 DEF RecordCapture
  <2>5. CASE CaptureFails
    BY <1>3, <2>5 DEF CaptureFails
  <2> QED
    BY <1>8, <2>1, <2>2, <2>3, <2>4, <2>5 DEF Reconciliation
<1>9. CASE UNCHANGED vars
  BY <1>2, <1>9 DEF vars, ledgerVars, localVars, chainVars
<1> QED
  BY <1>5, <1>6, <1>7, <1>8, <1>9 DEF Next

\* Healthy checks mean reconciled books.
LEMMA CheckCorrect == Spec => []CheckMeans
<1>1. Init => CheckMeans
  BY DEF Init, CheckMeans, Checked, HealthyIsReconciled
<1>2. TypeOK /\ AttemptsOK /\ CheckMeans /\ [Next]_vars => CheckMeans'
  BY NextCheck DEF AttemptsOK
<1> QED
  BY <1>1, <1>2, TypeCorrect, AttemptsCorrect, PTL DEF Spec

\* A healthy check at a height means that every transaction of the wallet up to
\* it is in the books with its outcome: counting them is enough, because the
\* chain executes the nonces in order.
THEOREM HealthyCorrect == Spec => []HealthyIsReconciled
  BY CheckCorrect, PTL DEF CheckMeans

\* The step that reserves a nonce leaves no earlier transaction and no token
\* receipt that the observer has passed out of the books.
THEOREM BeginsCorrect == Spec => BeginsReconciled
<1> DEFINE A == cursor > 0 /\ send' # send =>
          /\ \A n \in MinedBy(cursor) : payment[n] # "none"
          /\ \A d \in Receipts :
                Asset[d] = "tig" /\ arrived[d] \in 1..cursor => d \in received
<1>1. ASSUME TypeOK, CheckMeans, [Next]_vars PROVE A
  <2> SUFFICES ASSUME cursor > 0, send' # send
               PROVE  /\ \A n \in MinedBy(cursor) : payment[n] # "none"
                      /\ \A d \in Receipts :
                            Asset[d] = "tig" /\ arrived[d] \in 1..cursor => d \in received
    OBVIOUS
  <2>1. check # Nothing
    <3>1. \E c \in Callers : Reconciled(c)
      <4>1. ASSUME NEW w \in Withdrawals, WithdrawalStep(w) PROVE UNCHANGED send
        BY <4>1 DEF WithdrawalStep, Request, RequestOperator, Approve, Release
      <4>2. CASE World
        BY <4>2 DEF World, Mine, Arrive, Tick, sendVars
      <4>3. CASE Reconciliation
        BY <4>3 DEF Reconciliation, ReconcileWithdrawal, ReconcileTopup, Credit, ReceiveToken,
           ReceiveNative, RecordCapture, CaptureFails, sendVars
      <4>4. ASSUME NEW c \in Callers, Sending(c) PROVE \E e \in Callers : Reconciled(e)
        BY <4>4 DEF Sending, TakePreflight, Begin, BeginTopup, sendVars
      <4> QED
        BY <1>1, <4>1, <4>2, <4>3, <4>4 DEF Next, vars, sendVars
    <3> QED
      BY <3>1 DEF Reconciled, Ready
  <2>2. /\ \A n \in MinedBy(cursor) : payment[n] = mined[n].outcome
        /\ \A d \in Receipts :
              Asset[d] = "tig" /\ arrived[d] \in 1..cursor => d \in received
    BY <1>1, <2>1 DEF CheckMeans, Checked, HealthyIsReconciled
  <2>3. \A n \in MinedBy(cursor) : n \in Nonces /\ mined[n].height # 0
    BY <1>1 DEF MinedBy, TypeOK
  <2>4. \A n \in MinedBy(cursor) : mined[n].outcome # "none"
    BY <1>1, <2>3, MinedType DEF Outcomes, Pays
  <2> QED
    BY <2>2, <2>4
<1> QED
  BY <1>1, TypeCorrect, CheckCorrect, PTL DEF Spec, BeginsReconciled

-----------------------------------------------------------------------------
(***************************************************************************)
(* The books are the chain.                                                *)
(***************************************************************************)

\* What has arrived, or left, and is not in the books.
In(asset) == SumFunctionOnSet(Value, Incoming(asset))
Out       == SumOf(Leaving)
Cost      == SumOf(Spending)

\* One account of a table changes.
LEMMA AccountStep ==
    ASSUME NEW S, IsFiniteSet(S), NEW f \in [S -> Int], NEW g \in [S -> Int], NEW e \in S,
           \A x \in S : x # e => g[x] = f[x]
    PROVE  /\ SumOf(f) \in Int /\ SumOf(g) \in Int
           /\ SumOf(g) = SumOf(f) - f[e] + g[e]
<1>1. DOMAIN f = S /\ DOMAIN g = S /\ (\A x \in S : f[x] \in Int) /\ \A x \in S : g[x] \in Int
  OBVIOUS
<1> QED
  BY <1>1, SumStep DEF SumOf

\* The two sides are integers.
LEMMA FlowTypes ==
    ASSUME TypeOK, Recorded
    PROVE  /\ SumOf(available) \in Int /\ SumOf(pending) \in Int /\ SumOf(gasHeld) \in Int
           /\ Out \in Int /\ Cost \in Int
           /\ \A asset \in {"tig", "native"} : In(asset) \in Int
           /\ IsFiniteSet(Open) /\ Open \in SUBSET Nonces
<1>1. available \in [Members -> Int] /\ pending \in [Sends -> Int] /\ gasHeld \in [Nonces -> Int]
  BY DEF TypeOK
<1>2. SumOf(available) \in Int /\ SumOf(pending) \in Int /\ SumOf(gasHeld) \in Int
  BY <1>1, TablesAssumption, NoncesFinite, SumOfInt
<1>3. IsFiniteSet(Open) /\ Open \in SUBSET Nonces
  BY NoncesFinite, FS_Subset DEF Open
<1>4. ASSUME NEW n \in Open
      PROVE  mined[n].fee \in Int /\ Leaving[n] \in Int
  <2>1. n \in Nonces /\ mined[n] # Unmined
    BY <1>4 DEF Open
  <2>2. CASE mined[n].outcome \in Pays /\ send[n] = Nothing
    BY <2>1, <2>2 DEF Recorded
  <2>3. CASE ~(mined[n].outcome \in Pays /\ send[n] = Nothing)
    BY <1>4, <2>1, <2>3, MinedType, SendType, AmountsAssumption DEF Leaving
  <2> QED
    BY <2>2, <2>3
<1>5. Leaving \in [Open -> Int] /\ Spending \in [Open -> Int]
  BY <1>4 DEF Leaving, Spending
<1>6. Out \in Int /\ Cost \in Int
  BY <1>3, <1>5, SumOfInt DEF Out, Cost
<1>7. ASSUME NEW asset \in {"tig", "native"} PROVE In(asset) \in Int
  <2>1. Incoming(asset) \in SUBSET Receipts
    BY DEF Incoming
  <2>2. IsFiniteSet(Incoming(asset)) /\ \A d \in Incoming(asset) : Value[d] \in Int
    BY <2>1, TablesAssumption, AmountsAssumption, FS_Subset
  <2> QED
    BY <2>2, SumInt DEF In
<1> QED
  BY <1>2, <1>3, <1>6, <1>7

\* Nothing moves between the chain and the books when no outcome is mined or
\* recorded: a nonce that is fixed late paid nothing before.
LEMMA QuietFlow ==
    ASSUME TypeOK, Recorded,
           \/ UNCHANGED <<send, payment, mined>>
           \/ \E n \in Nonces, w \in Sends : Fixes(n, w)
    PROVE  SumOf(Leaving') = Out /\ SumOf(Spending') = Cost
<1>1. UNCHANGED <<payment, mined>>
  BY DEF Fixes
<1>2. Open' = Open
  BY <1>1 DEF Open
<1>3. Spending' = Spending
  BY <1>1, <1>2 DEF Spending
<1>4. \A n \in Open : mined[n].outcome \in Pays => send'[n] = send[n]
  BY DEF Fixes, Recorded, Open, TypeOK
<1>5. Leaving' = Leaving
  BY <1>1, <1>2, <1>4 DEF Leaving
<1> QED
  BY <1>3, <1>5 DEF Out, Cost

\* A transaction that is mined leaves the chain at once and the books later.
LEMMA MineFlow ==
    ASSUME TypeOK, InOrder, Recorded, NEW n \in Nonces, n = Tip.nonces,
           NEW o \in Outcomes, NEW f \in Nat, o \in Pays => send[n] # Nothing,
           mined' = [mined EXCEPT ![n] = [outcome |-> o, fee |-> f, height |-> Len(chain) + 1]],
           UNCHANGED <<send, payment>>
    PROVE  /\ SumOf(Leaving') = Out + (IF o \in Pays THEN Amount[send[n].of] ELSE 0)
           /\ SumOf(Spending') = Cost + f
<1> DEFINE a == IF o \in Pays THEN Amount[send[n].of] ELSE 0
<1>0. a \in Nat
  BY SendType, AmountsAssumption
<1>1. mined[n] = Unmined /\ payment[n] = "none"
  BY NextIsUnmined DEF Recorded
<1>2. /\ mined'[n] = [outcome |-> o, fee |-> f, height |-> Len(chain) + 1]
      /\ mined'[n] # Unmined
      /\ \A k \in Nonces : k # n => mined'[k] = mined[k]
  BY DEF TypeOK, Unmined, Outcomes, Pays
<1>3. Open' = Open \union {n} /\ n \notin Open
  BY <1>1, <1>2 DEF Open
<1>4. \A k \in Open : k \in Nonces /\ k # n
  BY <1>3 DEF Open
<1>5. /\ Leaving'[n] = a /\ Spending'[n] = f
      /\ \A k \in Open : Leaving'[k] = Leaving[k] /\ Spending'[k] = Spending[k]
      /\ DOMAIN Leaving' = Open \union {n} /\ DOMAIN Spending' = Open \union {n}
      /\ DOMAIN Leaving = Open /\ DOMAIN Spending = Open
  BY <1>2, <1>3, <1>4 DEF Leaving, Spending
<1> HIDE DEF a
<1>6. IsFiniteSet(Open) /\ \A k \in Open : Leaving[k] \in Int /\ Spending[k] \in Int
  <2>1. \A k \in Open : k \in Nonces /\ mined[k] # Unmined
    BY DEF Open
  <2>2. \A k \in Open : Spending[k] \in Int
    BY <2>1, MinedType DEF Spending
  <2>3. ASSUME NEW k \in Open PROVE Leaving[k] \in Int
    <3>1. mined[k].outcome \in Pays => Amount[send[k].of] \in Int
      BY <2>1, SendType, AmountsAssumption DEF Recorded
    <3> QED
      BY <3>1 DEF Leaving
  <2> QED
    BY <2>2, <2>3, FlowTypes
<1>7. ASSUME NEW g, NEW h, g[n] \in Int, \A k \in Open : g[k] = h[k],
             \A k \in Open : h[k] \in Int, DOMAIN g = Open \union {n}, DOMAIN h = Open
      PROVE  SumOf(g) = SumOf(h) + g[n]
  <2>1. \A k \in Open \union {n} : g[k] \in Int
    BY <1>7
  <2>2. SumFunctionOnSet(g, Open \union {n}) = SumFunctionOnSet(g, Open) + g[n]
    BY <1>3, <1>6, <2>1, SumAdd
  <2>3. SumFunctionOnSet(g, Open) = SumFunctionOnSet(h, Open)
    BY <1>6, <1>7, SumSame
  <2>4. SumOf(g) = SumFunctionOnSet(g, Open \union {n})
    BY <1>7, Zenon DEF SumOf
  <2>5. SumOf(h) = SumFunctionOnSet(h, Open)
    BY <1>7, Zenon DEF SumOf
  <2> QED
    BY <1>7, <2>2, <2>3, <2>4, <2>5
<1>8. SumOf(Leaving') = SumOf(Leaving) + Leaving'[n]
  <2>1. Leaving'[n] \in Int
    BY <1>0, <1>5
  <2> QED
    BY <1>5, <1>6, <1>7, <2>1
<1>9. SumOf(Spending') = SumOf(Spending) + Spending'[n]
  <2>1. Spending'[n] \in Int
    BY <1>5
  <2> QED
    BY <1>5, <1>6, <1>7, <2>1
<1> QED
  BY <1>5, <1>8, <1>9 DEF Out, Cost, a

\* What is recorded of a transaction is no longer open.
LEMMA RecordFlow ==
    ASSUME TypeOK, Recorded, NEW n \in Nonces, Evidence(n),
           payment' = [payment EXCEPT ![n] = mined[n].outcome], UNCHANGED <<send, mined>>
    PROVE  /\ SumOf(Leaving') =
                Out - (IF mined[n].outcome \in Pays THEN Amount[send[n].of] ELSE 0)
           /\ SumOf(Spending') = Cost - mined[n].fee
<1> DEFINE a == IF mined[n].outcome \in Pays THEN Amount[send[n].of] ELSE 0
<1>1. mined[n].outcome # "none" /\ n \in Open
  BY MinedType DEF Evidence, Open, Outcomes, Pays
<1>2. \A k \in Nonces : payment'[k] = IF k = n THEN mined[n].outcome ELSE payment[k]
  BY DEF TypeOK
<1>3. Open' = Open \ {n}
  BY <1>1, <1>2 DEF Open
<1>4. /\ Leaving[n] = a /\ Spending[n] = mined[n].fee
      /\ \A k \in Open \ {n} : Leaving'[k] = Leaving[k] /\ Spending'[k] = Spending[k]
      /\ DOMAIN Leaving' = Open \ {n} /\ DOMAIN Spending' = Open \ {n}
      /\ DOMAIN Leaving = Open /\ DOMAIN Spending = Open
  BY <1>1, <1>3 DEF Leaving, Spending
<1>6. IsFiniteSet(Open) /\ \A k \in Open : Leaving[k] \in Int /\ Spending[k] \in Int
  <2>1. \A k \in Open : k \in Nonces /\ mined[k] # Unmined
    BY DEF Open
  <2>2. \A k \in Open : Spending[k] \in Int
    BY <2>1, MinedType DEF Spending
  <2>3. ASSUME NEW k \in Open PROVE Leaving[k] \in Int
    <3>1. mined[k].outcome \in Pays => Amount[send[k].of] \in Int
      BY <2>1, SendType, AmountsAssumption DEF Recorded
    <3> QED
      BY <3>1 DEF Leaving
  <2> QED
    BY <2>2, <2>3, FlowTypes
<1>7. ASSUME NEW g, NEW h, \A k \in Open \ {n} : g[k] = h[k],
             \A k \in Open : h[k] \in Int, DOMAIN g = Open \ {n}, DOMAIN h = Open
      PROVE  SumOf(g) = SumOf(h) - h[n]
  <2>1. SumFunctionOnSet(h, Open) = h[n] + SumFunctionOnSet(h, Open \ {n})
    BY <1>1, <1>6, <1>7, SumTake
  <2>2. IsFiniteSet(Open \ {n}) /\ \A k \in Open \ {n} : h[k] \in Int
    BY <1>6, <1>7, FS_Subset
  <2>3. /\ SumFunctionOnSet(g, Open \ {n}) = SumFunctionOnSet(h, Open \ {n})
        /\ SumFunctionOnSet(h, Open \ {n}) \in Int
    BY <1>7, <2>2, SumSame, SumInt
  <2>4. SumOf(g) = SumFunctionOnSet(g, Open \ {n})
    BY <1>7, Zenon DEF SumOf
  <2>5. SumOf(h) = SumFunctionOnSet(h, Open)
    BY <1>7, Zenon DEF SumOf
  <2>6. h[n] \in Int
    BY <1>1, <1>7
  <2> QED
    BY <2>1, <2>3, <2>4, <2>5, <2>6
<1> HIDE DEF a
<1>8. SumOf(Leaving') = SumOf(Leaving) - Leaving[n]
  BY <1>4, <1>6, <1>7
<1>9. SumOf(Spending') = SumOf(Spending) - Spending[n]
  BY <1>4, <1>6, <1>7
<1> QED
  BY <1>4, <1>8, <1>9 DEF Out, Cost, a

\* A receipt that arrives is missing in the books until it is received.
LEMMA ReceiptFlow ==
    ASSUME TypeOK, Held, NEW d \in Receipts, NEW asset \in {"tig", "native"}
    PROVE  /\ UNCHANGED received /\ arrived[d] = 0
                 /\ arrived' = [arrived EXCEPT ![d] = Len(chain) + 1] =>
                SumFunctionOnSet(Value, Incoming(asset)') =
                   In(asset) + (IF Asset[d] = asset THEN Value[d] ELSE 0)
           /\ UNCHANGED arrived /\ arrived[d] > 0 /\ d \notin received
                 /\ received' = received \union {d} =>
                SumFunctionOnSet(Value, Incoming(asset)') =
                   In(asset) - (IF Asset[d] = asset THEN Value[d] ELSE 0)
<1> DEFINE I == Incoming(asset)
<1>1. I \in SUBSET Receipts
  BY DEF Incoming
<1>2. IsFiniteSet(I) /\ (\A e \in Receipts : Value[e] \in Int) /\ Len(chain) \in Nat
  BY <1>1, TablesAssumption, AmountsAssumption, FS_Subset, TipType
<1>3. \A e \in Receipts : e \in I <=> Asset[e] = asset /\ arrived[e] > 0 /\ e \notin received
  BY DEF Incoming
<1>4. /\ Incoming(asset)' \in SUBSET Receipts
      /\ \A e \in Receipts :
           e \in Incoming(asset)' <=> Asset[e] = asset /\ arrived'[e] > 0 /\ e \notin received'
  BY DEF Incoming
<1>5. In(asset) = SumFunctionOnSet(Value, I) /\ SumFunctionOnSet(Value, I) \in Int
  BY <1>1, <1>2, SumInt DEF In
<1> HIDE DEF I
<1>6. ASSUME UNCHANGED received, arrived[d] = 0,
             arrived' = [arrived EXCEPT ![d] = Len(chain) + 1]
      PROVE  SumFunctionOnSet(Value, Incoming(asset)') =
                In(asset) + (IF Asset[d] = asset THEN Value[d] ELSE 0)
  <2>1. d \notin received /\ d \notin I
    BY <1>3, <1>6 DEF Held
  <2>2. \A e \in Receipts : arrived'[e] = IF e = d THEN Len(chain) + 1 ELSE arrived[e]
    BY <1>6 DEF TypeOK
  <2>3. CASE Asset[d] = asset
    <3>1. Incoming(asset)' = I \union {d}
      BY <1>1, <1>2, <1>3, <1>4, <1>6, <2>1, <2>2, <2>3
    <3>2. SumFunctionOnSet(Value, I \union {d}) = SumFunctionOnSet(Value, I) + Value[d]
      BY <1>1, <1>2, <2>1, SumAdd
    <3>3. SumFunctionOnSet(Value, Incoming(asset)') = SumFunctionOnSet(Value, I \union {d})
      BY <3>1, Zenon
    <3> QED
      BY <1>5, <2>3, <3>2, <3>3
  <2>4. CASE Asset[d] # asset
    <3>1. Incoming(asset)' = I
      BY <1>1, <1>3, <1>4, <1>6, <2>2, <2>4
    <3>3. SumFunctionOnSet(Value, Incoming(asset)') = SumFunctionOnSet(Value, I)
      BY <3>1, Zenon
    <3> QED
      BY <1>5, <2>4, <3>3
  <2> QED
    BY <2>3, <2>4
<1>7. ASSUME UNCHANGED arrived, arrived[d] > 0, d \notin received, received' = received \union {d}
      PROVE  SumFunctionOnSet(Value, Incoming(asset)') =
                In(asset) - (IF Asset[d] = asset THEN Value[d] ELSE 0)
  <2>3. CASE Asset[d] = asset
    <3>1. Incoming(asset)' = I \ {d} /\ d \in I
      BY <1>1, <1>3, <1>4, <1>7, <2>3
    <3>2. SumFunctionOnSet(Value, I) = Value[d] + SumFunctionOnSet(Value, I \ {d})
      BY <1>1, <1>2, <3>1, SumTake
    <3>3. SumFunctionOnSet(Value, Incoming(asset)') = SumFunctionOnSet(Value, I \ {d})
      BY <3>1, Zenon
    <3>4. SumFunctionOnSet(Value, I \ {d}) \in Int
      <4>1. IsFiniteSet(I \ {d}) /\ \A e \in I \ {d} : Value[e] \in Int
        BY <1>1, <1>2, FS_Subset
      <4> QED
        BY <4>1, SumInt
    <3>5. Value[d] \in Int
      BY <1>2
    <3> QED
      BY <1>5, <2>3, <3>2, <3>3, <3>4, <3>5
  <2>4. CASE Asset[d] # asset
    <3>1. Incoming(asset)' = I
      BY <1>1, <1>3, <1>4, <1>7, <2>4
    <3>3. SumFunctionOnSet(Value, Incoming(asset)') = SumFunctionOnSet(Value, I)
      BY <3>1, Zenon
    <3> QED
      BY <1>5, <2>4, <3>3
  <2> QED
    BY <2>3, <2>4
<1> QED
  BY <1>6, <1>7

\* The two equations of the books.
TigBooks ==
    Tip.tig = SumOf(available) + SumOf(pending) + operator + inbox + In("tig") - Out
NativeBooks ==
    Tip.native = native + SumOf(gasHeld) + In("native") - Cost

\* Together with the types they are the property.
LEMMA BooksAreEquations ==
    ASSUME TypeOK, Recorded PROVE BooksAreChain <=> TigBooks /\ NativeBooks
<1>1. operator \in Nat /\ inbox \in Nat /\ native \in Nat
  BY DEF TypeOK
<1>2. /\ BooksAreChain <=>
           /\ Tip.tig = SumOf(available) + SumOf(pending) + operator + inbox + In("tig") - Out
           /\ Tip.native = native + SumOf(gasHeld) + In("native") - Cost
           /\ operator >= 0 /\ native >= 0
  BY DEF BooksAreChain, Backing, In, Out, Cost
<1> QED
  BY <1>1, <1>2 DEF TigBooks, NativeBooks

\* A commitment to a send stays the operator's.
LEMMA GasReserve ==
    ASSUME TypeOK, TypeOK', Recorded, Held, NEW n \in Nonces, NEW w \in Sends, ReserveNonce(n, w)
    PROVE  native' + SumOf(gasHeld') = native + SumOf(gasHeld)
<1>1. gasHeld[n] = 0 /\ native' = native - FeeLimit /\ FeeLimit \in Nat
  BY AmountsAssumption DEF ReserveNonce, NonceFree, Held
<1>2. gasHeld'[n] = FeeLimit /\ \A k \in Nonces : k # n => gasHeld'[k] = gasHeld[k]
  BY DEF ReserveNonce, TypeOK
<1>3. gasHeld \in [Nonces -> Int] /\ gasHeld' \in [Nonces -> Int] /\ native \in Nat
  BY DEF TypeOK
<1>4. /\ SumOf(gasHeld) \in Int
      /\ SumOf(gasHeld') = SumOf(gasHeld) - gasHeld[n] + gasHeld'[n]
  BY <1>2, <1>3, NoncesFinite, AccountStep
<1> QED
  BY <1>1, <1>2, <1>3, <1>4

\* What is recorded of a fee leaves the books, and the rest is free again.
LEMMA GasSpend ==
    ASSUME TypeOK, TypeOK', Recorded, Held, NEW n \in Nonces, Evidence(n), SpendGas(n)
    PROVE  native' + SumOf(gasHeld') = native + SumOf(gasHeld) - mined[n].fee
<1>1. gasHeld[n] = FeeLimit /\ native' = native + FeeLimit - mined[n].fee /\ FeeLimit \in Nat
      /\ mined[n].fee \in Nat
  BY AmountsAssumption, MinedType DEF SpendGas, Evidence, Held
<1>2. gasHeld'[n] = 0 /\ \A k \in Nonces : k # n => gasHeld'[k] = gasHeld[k]
  BY DEF SpendGas, TypeOK
<1>3. gasHeld \in [Nonces -> Int] /\ gasHeld' \in [Nonces -> Int] /\ native \in Nat
  BY DEF TypeOK
<1>4. /\ SumOf(gasHeld) \in Int
      /\ SumOf(gasHeld') = SumOf(gasHeld) - gasHeld[n] + gasHeld'[n]
  BY <1>2, <1>3, NoncesFinite, AccountStep
<1> QED
  BY <1>1, <1>2, <1>3, <1>4

\* The pending account of a request takes what the other accounts give.
LEMMA PendingStep ==
    ASSUME TypeOK, TypeOK', NEW w \in Sends, \A v \in Sends : v # w => pending'[v] = pending[v]
    PROVE  /\ SumOf(pending) \in Int
           /\ SumOf(pending') = SumOf(pending) - pending[w] + pending'[w]
<1>1. pending \in [Sends -> Int] /\ pending' \in [Sends -> Int]
  BY DEF TypeOK
<1> QED
  BY <1>1, TablesAssumption, AccountStep

\* The account of one member changes.
LEMMA AvailableStep ==
    ASSUME TypeOK, TypeOK', NEW m \in Members,
           \A l \in Members : l # m => available'[l] = available[l]
    PROVE  /\ SumOf(available) \in Int
           /\ SumOf(available') = SumOf(available) - available[m] + available'[m]
<1>1. available \in [Members -> Int] /\ available' \in [Members -> Int]
  BY DEF TypeOK
<1> QED
  BY <1>1, TablesAssumption, AccountStep

\* Requests and releases move tokens between accounts of the books.
LEMMA RequestBooks ==
    ASSUME TypeOK, TypeOK', Recorded, Held, TigBooks, NativeBooks, NEW w \in Withdrawals,
           WithdrawalStep(w)
    PROVE  TigBooks' /\ NativeBooks'
<1>0. w \in Sends /\ Amount[w] \in Nat
  BY WithdrawalFacts, AmountsAssumption
<1>1. /\ UNCHANGED <<send, payment, mined, chain, arrived, received, native, gasHeld, inbox>>
  BY DEF WithdrawalStep, Request, RequestOperator, Approve, Release, ledgerVars, tigVars,
     nativeVars, chainVars
<1>2. SumOf(Leaving') = Out /\ SumOf(Spending') = Cost
  BY <1>1, QuietFlow
<1>3. Tip' = Tip /\ In("tig")' = In("tig") /\ In("native")' = In("native")
  BY <1>1 DEF Tip, In, Incoming
<1>4. NativeBooks'
  BY <1>1, <1>2, <1>3 DEF NativeBooks, Cost
<1>5. /\ SumOf(available) \in Int /\ SumOf(pending) \in Int /\ operator \in Int /\ inbox \in Int
      /\ In("tig") \in Int /\ Out \in Int
  <2>1. operator \in Int /\ inbox \in Int
    BY DEF TypeOK
  <2> QED
    BY <2>1, FlowTypes
<1>6. ASSUME SumOf(available') + SumOf(pending') + operator' = SumOf(available) + SumOf(pending) + operator,
             SumOf(available') \in Int, SumOf(pending') \in Int, operator' \in Int
      PROVE  TigBooks'
  BY <1>1, <1>2, <1>3, <1>5, <1>6 DEF TigBooks, Out
<1>7. /\ operator' \in Int
      /\ SumOf(available') \in Int /\ SumOf(pending') \in Int
  <2>1. available' \in [Members -> Int] /\ pending' \in [Sends -> Int] /\ operator' \in Int
    BY DEF TypeOK
  <2> QED
    BY <2>1, TablesAssumption, SumOfInt
<1>8. CASE Request(w)
  <2>1. OwnerOf[w] \in Members /\ operator' = operator /\ pending[w] = 0
    BY <1>0, <1>8 DEF Request, Held, Unresolved
  <2>2. pending'[w] = Amount[w] /\ \A v \in Sends : v # w => pending'[v] = pending[v]
    BY <1>0, <1>8 DEF Request, TypeOK
  <2>3. /\ available'[OwnerOf[w]] = available[OwnerOf[w]] - Amount[w]
        /\ available[OwnerOf[w]] \in Nat
        /\ \A l \in Members : l # OwnerOf[w] => available'[l] = available[l]
    BY <1>8, <2>1 DEF Request, TypeOK
  <2>4. SumOf(available') = SumOf(available) - available[OwnerOf[w]] + available'[OwnerOf[w]]
    BY <2>1, <2>3, AvailableStep
  <2>5. SumOf(pending') = SumOf(pending) - pending[w] + pending'[w]
    BY <1>0, <2>2, PendingStep
  <2> QED
    BY <1>0, <1>4, <1>5, <1>6, <1>7, <2>1, <2>2, <2>3, <2>4, <2>5
<1>9. CASE RequestOperator(w)
  <2>1. available' = available /\ operator' = operator - Amount[w] /\ pending[w] = 0
    BY <1>0, <1>9 DEF RequestOperator, Held, Unresolved
  <2>2. pending'[w] = Amount[w] /\ \A v \in Sends : v # w => pending'[v] = pending[v]
    BY <1>0, <1>9 DEF RequestOperator, TypeOK
  <2>5. SumOf(pending') = SumOf(pending) - pending[w] + pending'[w]
    BY <1>0, <2>2, PendingStep
  <2>6. SumOf(available') = SumOf(available)
    BY <2>1
  <2> QED
    BY <1>0, <1>4, <1>5, <1>6, <1>7, <2>1, <2>2, <2>5, <2>6
<1>10. CASE Approve(w)
  <2>1. UNCHANGED <<available, pending, operator>>
    BY <1>10 DEF Approve, ledgerVars, tigVars
  <2>2. SumOf(available') = SumOf(available) /\ SumOf(pending') = SumOf(pending)
    BY <2>1
  <2> QED
    BY <1>4, <1>5, <1>6, <2>1, <2>2
<1>11. ASSUME NEW s \in {"cancelled", "rejected"}, Release(w, s) PROVE TigBooks'
  <2>1. state[w] \in Unresolved /\ pending[w] = Amount[w]
    BY <1>0, <1>11 DEF Release, Releasable, Unresolved, Held
  <2>2. pending'[w] = 0 /\ \A v \in Sends : v # w => pending'[v] = pending[v]
    BY <1>0, <1>11 DEF Release, TypeOK
  <2>4. SumOf(pending') = SumOf(pending) - pending[w] + pending'[w]
    BY <1>0, <2>2, PendingStep
  <2>5. CASE operator' = operator + Amount[w] /\ UNCHANGED available
    <3>1. SumOf(available') = SumOf(available)
      BY <2>5
    <3> QED
      BY <1>0, <1>5, <1>6, <1>7, <2>1, <2>2, <2>4, <2>5, <3>1
  <2>6. CASE OwnerOf[w] \in Members /\ UNCHANGED operator
             /\ available' = [available EXCEPT ![OwnerOf[w]] = @ + Amount[w]]
    <3>1. /\ available'[OwnerOf[w]] = available[OwnerOf[w]] + Amount[w]
          /\ available[OwnerOf[w]] \in Nat
          /\ \A l \in Members : l # OwnerOf[w] => available'[l] = available[l]
      BY <2>6 DEF TypeOK
    <3>2. SumOf(available') = SumOf(available) - available[OwnerOf[w]] + available'[OwnerOf[w]]
      BY <2>6, <3>1, AvailableStep
    <3> QED
      BY <1>0, <1>5, <1>6, <1>7, <2>1, <2>2, <2>4, <2>6, <3>1, <3>2
  <2> QED
    BY <1>11, <2>5, <2>6 DEF Release
<1> QED
  BY <1>4, <1>8, <1>9, <1>10, <1>11 DEF WithdrawalStep

\* Attempts commit fees and, for a top-up, tokens.
LEMMA SendBooks ==
    ASSUME TypeOK, TypeOK', Recorded, Held, TigBooks, NativeBooks, NEW c \in Callers, Sending(c)
    PROVE  TigBooks' /\ NativeBooks'
<1>1. UNCHANGED <<payment, mined, chain, arrived, received, available, inbox>>
  BY DEF Sending, TakePreflight, Begin, BeginTopup, sendVars, ledgerVars, tigVars, chainVars
<1>2. Tip' = Tip /\ In("tig")' = In("tig") /\ In("native")' = In("native")
  BY <1>1 DEF Tip, In, Incoming
<1>3. /\ SumOf(available) \in Int /\ SumOf(pending) \in Int /\ SumOf(gasHeld) \in Int
      /\ operator \in Int /\ inbox \in Int /\ native \in Int /\ operator' \in Int /\ native' \in Int
      /\ In("tig") \in Int /\ Out \in Int /\ In("native") \in Int /\ Cost \in Int
  <2>1. operator \in Int /\ inbox \in Int /\ native \in Int /\ operator' \in Int /\ native' \in Int
    BY DEF TypeOK
  <2> QED
    BY <2>1, FlowTypes
<1>4. SumOf(pending') \in Int /\ SumOf(gasHeld') \in Int
  <2>1. pending' \in [Sends -> Int] /\ gasHeld' \in [Nonces -> Int]
    BY DEF TypeOK
  <2> QED
    BY <2>1, NoncesFinite, TablesAssumption, SumOfInt
<1>5. ASSUME SumOf(Leaving') = Out, SumOf(Spending') = Cost,
             SumOf(pending') + operator' = SumOf(pending) + operator,
             native' + SumOf(gasHeld') = native + SumOf(gasHeld)
      PROVE  TigBooks' /\ NativeBooks'
  <2>0. SumOf(available') = SumOf(available) /\ inbox' = inbox
    BY <1>1
  <2>1. TigBooks'
    BY <2>0, <1>2, <1>3, <1>4, <1>5 DEF TigBooks, Out
  <2>2. NativeBooks'
    BY <1>1, <1>2, <1>3, <1>4, <1>5 DEF NativeBooks, Cost
  <2> QED
    BY <2>1, <2>2
<1>6. ASSUME NEW n \in Nonces, TakePreflight(c, n) PROVE TigBooks' /\ NativeBooks'
  <2>1. UNCHANGED <<send, pending, operator, native, gasHeld>>
    BY <1>6 DEF TakePreflight, sendVars, ledgerVars, tigVars, nativeVars
  <2>2. SumOf(Leaving') = Out /\ SumOf(Spending') = Cost
    BY <1>1, <2>1, QuietFlow
  <2> QED
    BY <1>3, <1>5, <2>1, <2>2
<1>7. ASSUME preflight[c] # Nothing PROVE preflight[c].nonce \in Nonces
  BY <1>7 DEF TypeOK
<1>8. ASSUME NEW n \in Nonces, NEW w \in Sends, ReserveNonce(n, w), state[w] \in {"none", "approved"}
      PROVE  SumOf(Leaving') = Out /\ SumOf(Spending') = Cost
  <2>1. Fixes(n, w)
    BY <1>1, <1>8 DEF Fixes, ReserveNonce, NonceFree
  <2> QED
    BY <2>1, QuietFlow
<1>9. ASSUME NEW w \in Withdrawals, Begin(c, w) PROVE TigBooks' /\ NativeBooks'
  <2> DEFINE n == preflight[c].nonce
  <2>1. n \in Nonces /\ w \in Sends /\ ReserveNonce(n, w) /\ state[w] = "approved"
        /\ UNCHANGED <<pending, operator>>
    BY <1>7, <1>9, WithdrawalFacts DEF Begin, Sendable, tigVars
  <2> HIDE DEF n
  <2>2. native' + SumOf(gasHeld') = native + SumOf(gasHeld)
    BY <2>1, GasReserve
  <2>3. SumOf(Leaving') = Out /\ SumOf(Spending') = Cost
    BY <1>8, <2>1
  <2> QED
    BY <1>5, <2>1, <2>2, <2>3
<1>10. ASSUME NEW p \in Topups, BeginTopup(c, p) PROVE TigBooks' /\ NativeBooks'
  <2> DEFINE n == preflight[c].nonce
  <2>1. n \in Nonces /\ p \in Sends /\ ReserveNonce(n, p) /\ state[p] = "none"
        /\ pending' = [pending EXCEPT ![p] = Amount[p]] /\ operator' = operator - Amount[p]
        /\ Amount[p] \in Nat
    BY <1>7, <1>10, AmountsAssumption DEF BeginTopup, Sends
  <2> HIDE DEF n
  <2>2. native' + SumOf(gasHeld') = native + SumOf(gasHeld)
    BY <2>1, GasReserve
  <2>3. SumOf(Leaving') = Out /\ SumOf(Spending') = Cost
    BY <1>8, <2>1
  <2>4. /\ pending[p] = 0 /\ pending'[p] = Amount[p]
        /\ \A v \in Sends : v # p => pending'[v] = pending[v]
    BY <2>1 DEF Held, Unresolved, TypeOK
  <2>5. SumOf(pending') = SumOf(pending) - pending[p] + pending'[p]
    BY <2>1, <2>4, PendingStep
  <2>6. SumOf(pending') + operator' = SumOf(pending) + operator
    BY <1>3, <2>1, <2>4, <2>5
  <2> QED
    BY <1>5, <2>2, <2>3, <2>6
<1> QED
  BY <1>6, <1>9, <1>10 DEF Sending

\* The types of everything in the two equations.
LEMMA BooksTypes ==
    ASSUME TypeOK, Recorded
    PROVE  /\ SumOf(available) \in Int /\ SumOf(pending) \in Int /\ SumOf(gasHeld) \in Int
           /\ operator \in Int /\ inbox \in Int /\ native \in Int
           /\ In("tig") \in Int /\ In("native") \in Int /\ Out \in Int /\ Cost \in Int
<1>1. operator \in Int /\ inbox \in Int /\ native \in Int
  BY DEF TypeOK
<1> QED
  BY <1>1, FlowTypes

\* A transaction that is executed leaves the chain, and is missing in the books.
LEMMA MineBooks ==
    ASSUME TypeOK, InOrder, Recorded, TigBooks, NativeBooks,
           NEW o \in Outcomes, NEW f \in Nat, Mine(o, f)
    PROVE  TigBooks' /\ NativeBooks'
<1> DEFINE n == Tip.nonces
           a == IF o \in Pays THEN Amount[send[n].of] ELSE 0
           x == [tig |-> Tip.tig - a, native |-> Tip.native - f, nonces |-> n + 1, time |-> now]
<1>1. /\ n \in Nonces /\ (o \in Pays => send[n] # Nothing)
      /\ mined' = [mined EXCEPT ![n] = [outcome |-> o, fee |-> f, height |-> Len(chain) + 1]]
      /\ chain' = Append(chain, x)
      /\ UNCHANGED <<send, payment, available, pending, operator, inbox, native, gasHeld,
                     received, arrived>>
  BY DEF Mine, Extend, sendVars, ledgerVars, tigVars, nativeVars
<1>2. a \in Nat
  BY <1>1, SendType, AmountsAssumption
<1>3. SumOf(Leaving') = Out + a /\ SumOf(Spending') = Cost + f
  BY <1>1, MineFlow
<1>4. Tip.tig \in Int /\ Tip.native \in Int /\ n \in 0..MaxNonce /\ now \in Nat /\ MaxNonce \in Nat
  BY <1>1, TipType, SendsAssumption DEF Snapshots, Nonces, TypeOK
<1>5. Tip' = x
  <2>1. x \in Snapshots
    BY <1>2, <1>4 DEF Snapshots
  <2> HIDE DEF x
  <2> QED
    BY <1>1, <2>1, Grows
<1>6. Tip'.tig = Tip.tig - a /\ Tip'.native = Tip.native - f
  BY <1>5
<1>7. In("tig")' = In("tig") /\ In("native")' = In("native")
  BY <1>1 DEF In, Incoming
<1>8. /\ SumOf(available') = SumOf(available) /\ SumOf(pending') = SumOf(pending)
      /\ SumOf(gasHeld') = SumOf(gasHeld)
      /\ operator' = operator /\ inbox' = inbox /\ native' = native
  BY <1>1
<1> HIDE DEF n, a, x
<1>9. TigBooks'
  BY <1>2, <1>3, <1>4, <1>6, <1>7, <1>8, BooksTypes DEF TigBooks, Out
<1>10. NativeBooks'
  BY <1>3, <1>4, <1>6, <1>7, <1>8, BooksTypes DEF NativeBooks, Cost
<1> QED
  BY <1>9, <1>10

\* A transfer to the wallet arrives, and is missing in the books.
LEMMA ArriveBooks ==
    ASSUME TypeOK, Recorded, Held, TigBooks, NativeBooks, NEW d \in Receipts, Arrive(d)
    PROVE  TigBooks' /\ NativeBooks'
<1>1. /\ arrived[d] = 0 /\ arrived' = [arrived EXCEPT ![d] = Len(chain) + 1]
      /\ UNCHANGED <<send, payment, mined, available, pending, operator, inbox, native, gasHeld,
                     received>>
  BY DEF Arrive, sendVars, ledgerVars, tigVars, nativeVars
<1>2. SumOf(Leaving') = Out /\ SumOf(Spending') = Cost
  BY <1>1, QuietFlow
<1>3. /\ In("tig")' = In("tig") + (IF Asset[d] = "tig" THEN Value[d] ELSE 0)
      /\ In("native")' = In("native") + (IF Asset[d] = "native" THEN Value[d] ELSE 0)
  BY <1>1, ReceiptFlow DEF In
<1>4. /\ SumOf(available') = SumOf(available) /\ SumOf(pending') = SumOf(pending)
      /\ SumOf(gasHeld') = SumOf(gasHeld)
      /\ operator' = operator /\ inbox' = inbox /\ native' = native
  BY <1>1
<1>5. Value[d] \in Int /\ Tip \in Snapshots /\ now \in Nat
  BY TipType, TimesType, AmountsAssumption
<1>6. /\ Tip'.tig = Tip.tig + (IF Asset[d] = "tig" THEN Value[d] ELSE 0)
      /\ Tip'.native = Tip.native + (IF Asset[d] = "native" THEN Value[d] ELSE 0)
      /\ Tip.tig \in Int /\ Tip.native \in Int
  <2>1. ASSUME NEW u \in Int, NEW v \in Int, Extend(u, v, Tip.nonces)
        PROVE  Tip'.tig = u /\ Tip'.native = v
    <3> DEFINE x == [tig |-> u, native |-> v, nonces |-> Tip.nonces, time |-> now]
    <3>1. x \in Snapshots /\ chain' = Append(chain, x) /\ x.tig = u /\ x.native = v
      BY <1>5, <2>1 DEF Extend, Snapshots
    <3> HIDE DEF x
    <3> QED
      BY <3>1, Grows
  <2>2. Tip.tig \in Int /\ Tip.native \in Int
    BY <1>5 DEF Snapshots
  <2>3. CASE Asset[d] = "tig" /\ Extend(Tip.tig + Value[d], Tip.native, Tip.nonces)
    BY <1>5, <2>1, <2>2, <2>3
  <2>4. CASE Asset[d] = "native" /\ Extend(Tip.tig, Tip.native + Value[d], Tip.nonces)
    BY <1>5, <2>1, <2>2, <2>4
  <2> QED
    BY <2>2, <2>3, <2>4 DEF Arrive
<1>9. TigBooks'
  BY <1>2, <1>3, <1>4, <1>5, <1>6, BooksTypes DEF TigBooks, Out
<1>10. NativeBooks'
  BY <1>2, <1>3, <1>4, <1>5, <1>6, BooksTypes DEF NativeBooks, Cost
<1> QED
  BY <1>9, <1>10

\* A receipt is recorded.
LEMMA ReceiveBooks ==
    ASSUME TypeOK, TypeOK', Recorded, Held, TigBooks, NativeBooks, NEW d \in Receipts,
           ReceiveToken(d) \/ ReceiveNative(d)
    PROVE  TigBooks' /\ NativeBooks'
<1>1. /\ arrived[d] > 0 /\ d \notin received /\ received' = received \union {d}
      /\ UNCHANGED <<send, payment, mined, pending, operator, gasHeld, arrived, chain>>
  BY DEF ReceiveToken, ReceiveNative, sendVars, tigVars, nativeVars, chainVars
<1>2. SumOf(Leaving') = Out /\ SumOf(Spending') = Cost
  BY <1>1, QuietFlow
<1>3. /\ In("tig")' = In("tig") - (IF Asset[d] = "tig" THEN Value[d] ELSE 0)
      /\ In("native")' = In("native") - (IF Asset[d] = "native" THEN Value[d] ELSE 0)
  BY <1>1, ReceiptFlow DEF In
<1>4. /\ SumOf(pending') = SumOf(pending) /\ SumOf(gasHeld') = SumOf(gasHeld)
      /\ operator' = operator /\ Tip' = Tip
  BY <1>1 DEF Tip
<1>5. Value[d] \in Int /\ Tip.tig \in Int /\ Tip.native \in Int
  BY TipType, AmountsAssumption DEF Snapshots
<1>6. ASSUME SumOf(available') + inbox' =
                SumOf(available) + inbox + (IF Asset[d] = "tig" THEN Value[d] ELSE 0),
             native' = native + (IF Asset[d] = "native" THEN Value[d] ELSE 0),
             SumOf(available') \in Int, inbox' \in Int
      PROVE  TigBooks' /\ NativeBooks'
  <2>1. TigBooks'
    BY <1>2, <1>3, <1>4, <1>5, <1>6, BooksTypes DEF TigBooks, Out
  <2>2. NativeBooks'
    BY <1>2, <1>3, <1>4, <1>5, <1>6, BooksTypes DEF NativeBooks, Cost
  <2> QED
    BY <2>1, <2>2
<1>7. SumOf(available') \in Int /\ inbox' \in Int
  <2>1. available' \in [Members -> Int] /\ inbox' \in Int
    BY DEF TypeOK
  <2> QED
    BY <2>1, TablesAssumption, SumOfInt
<1>8. CASE ReceiveToken(d)
  <2>1. Asset[d] = "tig" /\ native' = native
    BY <1>8 DEF ReceiveToken, nativeVars
  <2>2. CASE inbox' = inbox + Value[d] /\ UNCHANGED available
    <3>1. SumOf(available') = SumOf(available)
      BY <2>2
    <3> QED
      BY <1>5, <1>6, <1>7, <2>1, <2>2, <3>1, BooksTypes
  <2>3. ASSUME NEW m \in Members, available' = [available EXCEPT ![m] = @ + Value[d]],
               UNCHANGED inbox
        PROVE  TigBooks' /\ NativeBooks'
    <3>1. /\ available'[m] = available[m] + Value[d] /\ available[m] \in Nat
          /\ \A l \in Members : l # m => available'[l] = available[l]
      BY <2>3 DEF TypeOK
    <3>2. SumOf(available') = SumOf(available) - available[m] + available'[m]
      BY <3>1, AvailableStep
    <3> QED
      BY <1>5, <1>6, <1>7, <2>1, <2>3, <3>1, <3>2, BooksTypes
  <2> QED
    BY <1>8, <2>2, <2>3 DEF ReceiveToken
<1>9. CASE ReceiveNative(d)
  <2>1. Asset[d] = "native" /\ native' = native + Value[d] /\ UNCHANGED <<available, inbox>>
    BY <1>9 DEF ReceiveNative, tigVars
  <2>2. SumOf(available') = SumOf(available)
    BY <2>1
  <2> QED
    BY <1>5, <1>6, <1>7, <2>1, <2>2, BooksTypes
<1> QED
  BY <1>8, <1>9

\* What is recorded of an attempt leaves the books, or is the operator's again.
LEMMA ReconcileBooks ==
    ASSUME TypeOK, TypeOK', Recorded, Held, TigBooks, NativeBooks, NEW n \in Nonces,
           ReconcileWithdrawal(n) \/ ReconcileTopup(n)
    PROVE  TigBooks' /\ NativeBooks'
<1> DEFINE a == IF mined[n].outcome \in Pays THEN Amount[send[n].of] ELSE 0
<1>1. /\ Evidence(n) /\ SpendGas(n)
      /\ payment' = [payment EXCEPT ![n] = mined[n].outcome]
      /\ UNCHANGED <<send, mined, available, inbox, received, arrived, chain>>
  BY DEF ReconcileWithdrawal, ReconcileTopup, chainVars
<1>2. SumOf(Leaving') = Out - a /\ SumOf(Spending') = Cost - mined[n].fee
  BY <1>1, RecordFlow
<1>3. native' + SumOf(gasHeld') = native + SumOf(gasHeld) - mined[n].fee
  BY <1>1, GasSpend
<1>4. /\ SumOf(available') = SumOf(available) /\ inbox' = inbox /\ Tip' = Tip
      /\ In("tig")' = In("tig") /\ In("native")' = In("native")
  BY <1>1 DEF Tip, In, Incoming
<1>5. Tip.tig \in Int /\ Tip.native \in Int /\ mined[n].fee \in Int
  BY <1>1, TipType, MinedType DEF Snapshots, Evidence
<1>6. /\ operator' \in Int /\ native' \in Int
      /\ SumOf(gasHeld') \in Int /\ SumOf(pending') \in Int
  <2>1. /\ operator' \in Int /\ native' \in Int
        /\ gasHeld' \in [Nonces -> Int] /\ pending' \in [Sends -> Int]
    BY DEF TypeOK
  <2> QED
    BY <2>1, NoncesFinite, TablesAssumption, SumOfInt
<1>7. NativeBooks'
  BY <1>2, <1>3, <1>4, <1>5, <1>6, BooksTypes DEF NativeBooks, Cost
<1>8. /\ send[n].of \in Sends /\ Amount[send[n].of] \in Nat
      /\ pending[send[n].of] = Amount[send[n].of]
  BY <1>1, SendType, AmountsAssumption DEF Evidence, Held, Unresolved
<1>9. pending'[send[n].of] + operator' = pending[send[n].of] + operator - a
      /\ \A v \in Sends : v # send[n].of => pending'[v] = pending[v]
  <2>1. CASE ReconcileWithdrawal(n)
    <3>1. /\ pending'[send[n].of] = IF mined[n].outcome \in Pays THEN 0 ELSE pending[send[n].of]
          /\ \A v \in Sends : v # send[n].of => pending'[v] = pending[v]
          /\ operator' = operator
      BY <1>8, <2>1 DEF ReconcileWithdrawal, TypeOK
    <3> QED
      BY <1>8, <3>1, BooksTypes
  <2>2. CASE ReconcileTopup(n)
    <3>1. /\ pending'[send[n].of] = 0
          /\ \A v \in Sends : v # send[n].of => pending'[v] = pending[v]
          /\ operator' = operator + Returned(n)
      BY <1>8, <2>2 DEF ReconcileTopup, TypeOK
    <3> QED
      BY <1>8, <3>1, BooksTypes DEF Returned
  <2> QED
    BY <2>1, <2>2
<1>10. SumOf(pending') = SumOf(pending) - pending[send[n].of] + pending'[send[n].of]
  BY <1>8, <1>9, PendingStep
<1>11. a \in Int /\ pending'[send[n].of] \in Int
  BY <1>8 DEF TypeOK
<1> HIDE DEF a
<1>12. SumOf(pending') + operator' = SumOf(pending) + operator - a
  BY <1>6, <1>8, <1>9, <1>10, <1>11, BooksTypes
<1>13. TigBooks'
  BY <1>2, <1>4, <1>5, <1>6, <1>11, <1>12, BooksTypes DEF TigBooks, Out
<1> QED
  BY <1>7, <1>13

\* A step that moves nothing.
LEMMA QuietBooks ==
    ASSUME TypeOK, Recorded, TigBooks, NativeBooks,
           UNCHANGED <<send, payment, ledgerVars, chainVars>>
    PROVE  TigBooks' /\ NativeBooks'
<1>1. UNCHANGED <<send, payment, mined, available, pending, operator, inbox, native, gasHeld,
                  received, arrived, chain>>
  BY DEF ledgerVars, tigVars, nativeVars, chainVars
<1>2. SumOf(Leaving') = Out /\ SumOf(Spending') = Cost
  BY <1>1, QuietFlow
<1>3. /\ SumOf(available') = SumOf(available) /\ SumOf(pending') = SumOf(pending)
      /\ SumOf(gasHeld') = SumOf(gasHeld) /\ Tip' = Tip
      /\ operator' = operator /\ inbox' = inbox /\ native' = native
      /\ In("tig")' = In("tig") /\ In("native")' = In("native")
  BY <1>1 DEF Tip, In, Incoming
<1> QED
  BY <1>2, <1>3 DEF TigBooks, NativeBooks, Out, Cost

\* The wallet opens with the opening balances.
LEMMA InitBooks == ASSUME Init PROVE TigBooks /\ NativeBooks
<1>1. SumOf(pending) = 0
  <2>1. DOMAIN pending = Sends /\ \A w \in Sends : pending[w] = 0
    BY DEF Init
  <2>2. SumFunctionOnSet(pending, Sends) = 0
    BY <2>1, TablesAssumption, SumZero
  <2> QED
    BY <2>1, <2>2, Zenon DEF SumOf
<1>2. SumOf(gasHeld) = 0
  <2>1. DOMAIN gasHeld = Nonces /\ \A n \in Nonces : gasHeld[n] = 0
    BY DEF Init
  <2>2. SumFunctionOnSet(gasHeld, Nonces) = 0
    BY <2>1, NoncesFinite, SumZero
  <2> QED
    BY <2>1, <2>2, Zenon DEF SumOf
<1>3. In("tig") = 0 /\ In("native") = 0
  <2>1. Incoming("tig") = {} /\ Incoming("native") = {}
    BY DEF Init, Incoming
  <2>2. SumFunctionOnSet(Value, {}) = 0
    BY SumEmpty
  <2> QED
    BY <2>1, <2>2, Zenon DEF In
<1>4. Out = 0 /\ Cost = 0
  <2>1. Open = {}
    BY DEF Init, Open
  <2>2. DOMAIN Leaving = {} /\ DOMAIN Spending = {}
    BY <2>1 DEF Leaving, Spending
  <2>3. SumFunctionOnSet(Leaving, {}) = 0 /\ SumFunctionOnSet(Spending, {}) = 0
    BY SumEmpty
  <2> QED
    BY <2>2, <2>3, Zenon DEF Out, Cost, SumOf
<1>5. /\ Tip.tig = SumOf(available) + operator /\ Tip.native = native /\ inbox = 0
  BY DEF Init, Tip
<1>6. SumOf(available) \in Int /\ operator \in Int /\ native \in Int
  BY InitType, BooksTypes, InitRecorded
<1> QED
  BY <1>1, <1>2, <1>3, <1>4, <1>5, <1>6 DEF TigBooks, NativeBooks

\* Every step keeps the equations.
LEMMA NextBooks ==
    ASSUME TypeOK, TypeOK', InOrder, Recorded, Held, TigBooks, NativeBooks, [Next]_vars
    PROVE  TigBooks' /\ NativeBooks'
<1>1. ASSUME NEW w \in Withdrawals, WithdrawalStep(w) PROVE TigBooks' /\ NativeBooks'
  BY <1>1, RequestBooks
<1>2. ASSUME NEW c \in Callers, Sending(c) PROVE TigBooks' /\ NativeBooks'
  BY <1>2, SendBooks
<1>3. ASSUME NEW o \in Outcomes, NEW f \in Fees \union {0}, Mine(o, f)
      PROVE  TigBooks' /\ NativeBooks'
  <2>1. f \in Nat
    BY AmountsAssumption
  <2> QED
    BY <1>3, <2>1, MineBooks
<1>4. ASSUME NEW d \in Receipts, Arrive(d) PROVE TigBooks' /\ NativeBooks'
  BY <1>4, ArriveBooks
<1>5. CASE Tick
  BY <1>5, QuietBooks DEF Tick, sendVars
<1>6. ASSUME NEW n \in Nonces, ReconcileWithdrawal(n) \/ ReconcileTopup(n)
      PROVE  TigBooks' /\ NativeBooks'
  BY <1>6, ReconcileBooks
<1>7. ASSUME NEW p \in Topups, Credit(p) PROVE TigBooks' /\ NativeBooks'
  BY <1>7, QuietBooks DEF Credit
<1>8. ASSUME NEW d \in Receipts, ReceiveToken(d) \/ ReceiveNative(d)
      PROVE  TigBooks' /\ NativeBooks'
  BY <1>8, ReceiveBooks
<1>9. ASSUME NEW last, NEW target, RecordCapture(last, target) PROVE TigBooks' /\ NativeBooks'
  BY <1>9, QuietBooks DEF RecordCapture, sendVars
<1>10. CASE CaptureFails
  BY <1>10, QuietBooks DEF CaptureFails, sendVars
<1>11. CASE UNCHANGED vars
  BY <1>11, QuietBooks DEF vars, sendVars
<1> QED
  BY <1>1, <1>2, <1>3, <1>4, <1>5, <1>6, <1>7, <1>8, <1>9, <1>10, <1>11
     DEF Next, World, Reconciliation

\* At every moment the wallet holds what the books say, and what has arrived and
\* is not recorded, less what left and is not reconciled, whatever the operator
\* signed and in whatever order outcomes and receipts are recorded.
THEOREM BooksCorrect == Spec => []BooksAreChain
<1>1. ASSUME Init PROVE TigBooks /\ NativeBooks
  BY <1>1, InitBooks
<1>2. ASSUME TypeOK, TypeOK', AttemptsOK, TigBooks /\ NativeBooks, [Next]_vars
      PROVE  TigBooks' /\ NativeBooks'
  BY <1>2, NextBooks DEF AttemptsOK
<1>3. ASSUME TypeOK, AttemptsOK, TigBooks /\ NativeBooks PROVE BooksAreChain
  BY <1>3, BooksAreEquations DEF AttemptsOK
<1>4. TypeOK /\ AttemptsOK /\ TigBooks /\ NativeBooks => BooksAreChain
  BY <1>3
<1> QED
  BY <1>1, <1>2, <1>4, TypeCorrect, AttemptsCorrect, PTL DEF Spec
=============================================================================
