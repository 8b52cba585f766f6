----------------------------- MODULE Settlement -----------------------------
(***************************************************************************)
(* The settlement of one reward round: blocks of the round are archived    *)
(* and credited to members, its earnings are declared, received, and       *)
(* complemented by the operator, its collateral is finalized, and the pot  *)
(* is paid out once (settlement.py, qualifiers.py, round_gaps and          *)
(* set_gap_policy of block_observer.py, seals of reports.py, deposits.py). *)
(*                                                                         *)
(* A call of _settle or credit_block is several transactions, and those    *)
(* are separate actions here; every other operation is one transaction     *)
(* under the locks that its reads need.  A refused call is a step not      *)
(* taken.  Conflicting evidence about the blocks of LATER rounds, which    *)
(* carry the seal and the earnings, only adds refusals and is left out, as *)
(* is what a sealed report says: the outcome of a finalization is free     *)
(* here and belongs to Benchmarks.                                         *)
(***************************************************************************)
EXTENDS Integers, FiniteSets, Functions

CONSTANTS
    Heights,          \* of the blocks of the round
    Waived,           \* heights with the one prelaunch gap waiver
    Members,
    Before(_, _),     \* the stable order of member ids
    Credit,           \* [Heights -> [Members -> Nat]], over one denominator
    Limits,           \* [0..n -> Nat], max_missing_per_round of each policy revision
    Transfers, Value, \* incoming token transfers, [Transfers -> Nat]
    Reservations,     \* created in the round
    MemberOf, Held,   \* their members and held collateral
    Expected, Withheld, \* what may be declared as the round's earnings
    OperatorFunds,    \* opening balance of the operator's custody account
    MaxSeals,         \* bound on the report seals
    Calls             \* concurrent callers of _settle

ASSUME HeightsAssumption == IsFiniteSet(Heights) /\ Waived \subseteq Heights

ASSUME CreditAssumption == IsFiniteSet(Members) /\ Credit \in [Heights -> [Members -> Nat]]

ASSUME MoneyAssumption ==
    /\ IsFiniteSet(Transfers) /\ Value \in [Transfers -> Nat]
    /\ IsFiniteSet(Reservations) /\ Held \in [Reservations -> Nat]
    /\ MemberOf \in [Reservations -> Members]
    /\ Expected \subseteq Nat /\ Withheld \subseteq Nat /\ OperatorFunds \in Nat

\* Member ids are unique and sorted as text.
ASSUME OrderAssumption ==
    /\ \A m \in Members : ~Before(m, m)
    /\ \A m, n \in Members : m # n => Before(m, n) \/ Before(n, m)
    /\ \A m, n, k \in Members : Before(m, n) /\ Before(n, k) => Before(m, k)

VARIABLES
    recorded,    \* heights with an observed block
    ended,       \* a block at the end of the round, or later, was seen
    conflicting, \* heights with an unresolved conflict
    crediting,   \* heights whose block a running credit_block has read
    credited,    \* heights with a credited_blocks row
    revision,    \* of the missing-block policy
    seal,        \* number of the latest report seal, 0 when there is none
    sealCurrent, \* no later report observation than the sealed ones
    transfer,    \* where each transfer is: a destination, "unseen", "unattributed"
    earnings,    \* the round_earnings row
    reimbursed,  \* the round_reimbursements amount
    outcome,     \* collateral_outcome of each reservation
    available, operator, pot, \* ledger balances
    settlement,  \* the round_settlements row
    reviewed,    \* the inputs of the latest preview
    call

blockVars == <<recorded, ended, conflicting, crediting, credited, revision>>
sealVars  == <<seal, sealCurrent>>
moneyVars == <<transfer, earnings, reimbursed, outcome, available, operator, pot>>
callVars  == <<settlement, reviewed, call>>
vars      == <<blockVars, sealVars, moneyVars, callVars>>

Nothing == [of |-> "nothing"]     \* a row that does not exist
NotPaid == -1
Idle    == [at |-> "idle"]

Init ==
    /\ recorded = {} /\ ended = FALSE /\ conflicting = {}
    /\ crediting = {} /\ credited = {} /\ revision = 0
    /\ seal = 0 /\ sealCurrent = FALSE
    /\ transfer = [t \in Transfers |-> "unseen"]
    /\ earnings = Nothing
    /\ reimbursed = NotPaid
    /\ outcome = [r \in Reservations |-> "none"]
    /\ available = [m \in Members |-> 0]
    /\ operator = OperatorFunds
    /\ pot = 0
    /\ settlement = Nothing /\ reviewed = Nothing
    /\ call = [c \in Calls |-> Idle]

Sum(f, S) == SumFunctionOnSet(f, S)

-----------------------------------------------------------------------------
(***************************************************************************)
(* Observed blocks and their credit.                                       *)
(***************************************************************************)

\* BlockStore.record of a complete block, in any order: a missing block may be
\* recovered long after its round.
Record(h) ==
    /\ h \notin recorded
    /\ recorded' = recorded \union {h}
    /\ ended' = (ended \/ \A k \in Heights : k <= h)
    /\ UNCHANGED <<conflicting, crediting, credited, revision, sealVars, moneyVars, callVars>>

\* BlockStore.record at a later round.
End ==
    /\ ~ended
    /\ ended' = TRUE
    /\ UNCHANGED <<recorded, conflicting, crediting, credited, revision,
                   sealVars, moneyVars, callVars>>

\* BlockStore.record of conflicting evidence, and ordering_conflicts.resolve.
Conflict(h) ==
    /\ h \in recorded \ conflicting
    /\ conflicting' = conflicting \union {h}
    /\ UNCHANGED <<recorded, ended, crediting, credited, revision, sealVars, moneyVars, callVars>>

Resolve(h) ==
    /\ h \in conflicting
    /\ conflicting' = conflicting \ {h}
    /\ UNCHANGED <<recorded, ended, crediting, credited, revision, sealVars, moneyVars, callVars>>

\* credit_block: the block is read in one transaction and credited in another.
ReadBlock(h) ==
    /\ h \in recorded \ conflicting
    /\ h \notin crediting \union credited
    /\ crediting' = crediting \union {h}
    /\ UNCHANGED <<recorded, ended, conflicting, credited, revision,
                   sealVars, moneyVars, callVars>>

StoreCredit(h) ==
    /\ h \in crediting
    /\ crediting' = crediting \ {h}
    /\ credited' = credited \union {h}
    /\ UNCHANGED <<recorded, ended, conflicting, revision, sealVars, moneyVars, callVars>>

\* set_gap_policy: identical limits add nothing.
SetGapPolicy ==
    /\ revision + 1 \in DOMAIN Limits
    /\ Limits[revision + 1] # Limits[revision]
    /\ revision' = revision + 1
    /\ UNCHANGED <<recorded, ended, conflicting, crediting, credited,
                   sealVars, moneyVars, callVars>>

\* round_gaps.
Missing == Heights \ (recorded \union Waived)

CreditedComplete ==
    /\ recorded # {} /\ ended /\ conflicting = {}
    /\ Cardinality(Missing) <= Limits[revision]
    /\ recorded \subseteq credited

CreditsOf(S) == [m \in Members |-> Sum([h \in Heights |-> Credit[h][m]], S)]

-----------------------------------------------------------------------------
(***************************************************************************)
(* Seals, collateral, earnings.                                            *)
(***************************************************************************)

\* reports.record: a new observation of a scoped reporting round.
RecordReport ==
    /\ sealCurrent
    /\ sealCurrent' = FALSE
    /\ UNCHANGED <<blockVars, seal, moneyVars, callVars>>

\* reports.seal, with the latest observations, after the end of X+2.
Seal ==
    /\ ended
    /\ ~sealCurrent
    /\ seal < MaxSeals
    /\ seal' = seal + 1
    /\ sealCurrent' = TRUE
    /\ UNCHANGED <<blockVars, moneyVars, callVars>>

\* finalize_collateral.
Undecided(r) == outcome[r] = "none"

FinalizeCollateral(r) ==
    /\ Undecided(r)
    /\ sealCurrent
    /\ \/ /\ outcome' = [outcome EXCEPT ![r] = "returned"]
          /\ available' = [available EXCEPT ![MemberOf[r]] = @ + Held[r]]
          /\ UNCHANGED pot
       \/ /\ outcome' = [outcome EXCEPT ![r] = "forfeited"]
          /\ pot' = pot + Held[r]
          /\ UNCHANGED available
    /\ UNCHANGED <<blockVars, sealVars, transfer, earnings, reimbursed, operator, callVars>>

\* declare_earnings: frozen once declared.
DeclareEarnings(expected, withheld) ==
    /\ ended
    /\ earnings = Nothing
    /\ earnings' = [expected |-> expected, withheld |-> withheld]
    /\ UNCHANGED <<blockVars, sealVars, transfer, reimbursed, outcome,
                   available, operator, pot, callVars>>

\* deposits.receive of a transfer from no member's wallet.
Receive(t) ==
    /\ transfer[t] = "unseen"
    /\ transfer' = [transfer EXCEPT ![t] = "unattributed"]
    /\ UNCHANGED <<blockVars, sealVars, earnings, reimbursed, outcome,
                   available, operator, pot, callVars>>

\* deposits.attribute_reviewed, to a member or to the operator.
AttributeReviewed(t, m) ==
    /\ transfer[t] = "unattributed"
    /\ \/ /\ transfer' = [transfer EXCEPT ![t] = "member"]
          /\ available' = [available EXCEPT ![m] = @ + Value[t]]
          /\ UNCHANGED operator
       \/ /\ transfer' = [transfer EXCEPT ![t] = "operator"]
          /\ operator' = operator + Value[t]
          /\ UNCHANGED available
    /\ UNCHANGED <<blockVars, sealVars, earnings, reimbursed, outcome, pot, callVars>>

\* attribute_receipt, reimburse_operating_cost and _settle refuse a settled
\* round.
NotSettled_unchecked == TRUE
NotSettled == settlement = Nothing

Receipts == {t \in Transfers : transfer[t] = "round"}

\* The receipts never exceed the declared earnings.
WithinEarnings(t) == Sum(Value, Receipts \union {t}) <= earnings.expected

AttributeReceipt(t) ==
    /\ earnings # Nothing
    /\ NotSettled
    /\ transfer[t] = "unattributed"
    /\ WithinEarnings(t)
    /\ transfer' = [transfer EXCEPT ![t] = "round"]
    /\ pot' = pot + Value[t]
    /\ UNCHANGED <<blockVars, sealVars, earnings, reimbursed, outcome,
                   available, operator, callVars>>

\* ledger.post refuses what the operator's account does not cover.
CanPay(amount) == operator >= amount

ReimburseOperatingCost ==
    /\ reimbursed = NotPaid
    /\ earnings # Nothing
    /\ NotSettled
    /\ CanPay(earnings.withheld)
    /\ reimbursed' = earnings.withheld
    /\ operator' = operator - earnings.withheld
    /\ pot' = pot + earnings.withheld
    /\ UNCHANGED <<blockVars, sealVars, transfer, earnings, outcome, available, callVars>>

-----------------------------------------------------------------------------
(***************************************************************************)
(* money.allocate_rewards: a fee of five percent, and the rest by credit,  *)
(* rounded down, the units left over going to the largest remainders.      *)
(***************************************************************************)

Fee(amount) == (amount * 5) \div 100

Allocation_truncated(amount, credits) ==
    LET total == Sum(credits, Members) IN
    IF total = 0 THEN [operator |-> amount, members |-> [m \in Members |-> 0]]
    ELSE [operator |-> Fee(amount),
          members |-> [m \in Members |-> ((amount - Fee(amount)) * credits[m]) \div total]]

Allocation_firstInOrder(amount, credits) ==
    LET total == Sum(credits, Members)
        rest  == amount - Fee(amount)
        down  == [m \in Members |-> (rest * credits[m]) \div total]
        extra == [m \in Members |->
                    IF \E n \in Members \ {m} : Before(n, m) THEN 0
                    ELSE rest - Sum(down, Members)]
    IN IF total = 0 THEN [operator |-> amount, members |-> [m \in Members |-> 0]]
       ELSE [operator |-> Fee(amount), members |-> [m \in Members |-> down[m] + extra[m]]]

\* The members before m when the units left over are handed out.
Ahead(left) ==
    [m \in Members |-> {n \in Members \ {m} :
                           left[n] > left[m] \/ (left[n] = left[m] /\ Before(n, m))}]

Allocation(amount, credits) ==
    LET total == Sum(credits, Members)
        rest  == amount - Fee(amount)
        down  == [m \in Members |-> (rest * credits[m]) \div total]
        left  == [m \in Members |-> (rest * credits[m]) % total]
        extra == [m \in Members |->
                    IF Cardinality(Ahead(left)[m]) < rest - Sum(down, Members) THEN 1 ELSE 0]
    IN IF total = 0 THEN [operator |-> amount, members |-> [m \in Members |-> 0]]
       ELSE [operator |-> Fee(amount), members |-> [m \in Members |-> down[m] + extra[m]]]

-----------------------------------------------------------------------------
(***************************************************************************)
(* _settle: coverage, then credits, then everything else under the locks.  *)
(* A preview (post = FALSE) returns its inputs; allocate may be given the  *)
(* digest of the inputs an operator reviewed.  An input digest stands for  *)
(* the inputs themselves.                                                  *)
(***************************************************************************)

Start(c, post, expected) ==
    /\ call[c] = Idle
    /\ settlement = Nothing
    /\ expected \in {Nothing, reviewed}
    /\ ~post => expected = Nothing
    /\ call' = [call EXCEPT ![c] = [at |-> "started", post |-> post, expected |-> expected]]
    /\ UNCHANGED <<blockVars, sealVars, moneyVars, settlement, reviewed>>

\* round_credits: round_coverage is one transaction, reading credits another.
CheckCoverage(c) ==
    /\ call[c].at = "started"
    /\ CreditedComplete
    /\ call' = [call EXCEPT ![c] = [at |-> "covered", post |-> call[c].post,
                                    expected |-> call[c].expected]]
    /\ UNCHANGED <<blockVars, sealVars, moneyVars, settlement, reviewed>>

ReadCredits(c) ==
    /\ call[c].at = "covered"
    /\ call' = [call EXCEPT ![c] = [at |-> "read", post |-> call[c].post,
                                    expected |-> call[c].expected,
                                    credits |-> CreditsOf(credited)]]
    /\ UNCHANGED <<blockVars, sealVars, moneyVars, settlement, reviewed>>

Forfeited  == {r \in Reservations : outcome[r] = "forfeited"}
Reimbursed == IF reimbursed = NotPaid THEN 0 ELSE reimbursed
Funding    == Sum(Value, Receipts) + Reimbursed + Sum(Held, Forfeited)

Inputs(credits) ==
    [seal |-> seal, credits |-> credits, receipts |-> Receipts, reimbursed |-> Reimbursed,
     forfeited |-> Forfeited, missing |-> Missing, revision |-> revision]

\* No reservation of the round is without a collateral outcome.
CollateralKnown_unchecked == TRUE
CollateralKnown == \A r \in Reservations : ~Undecided(r)

\* What _settle checks under the locks.
Ready ==
    /\ NotSettled
    /\ sealCurrent
    /\ CreditedComplete
    /\ earnings # Nothing
    /\ CollateralKnown
    /\ Sum(Value, Receipts) = earnings.expected
    /\ Reimbursed = earnings.withheld
    /\ pot = Funding

Preview(c) ==
    /\ call[c].at = "read"
    /\ ~call[c].post
    /\ Ready
    /\ reviewed' = Inputs(call[c].credits)
    /\ call' = [call EXCEPT ![c] = Idle]
    /\ UNCHANGED <<blockVars, sealVars, moneyVars, settlement>>

\* Without a reviewed preview any inputs are as expected.
AsReviewed_unchecked(expected, inputs) == TRUE
AsReviewed(expected, inputs) == expected \in {Nothing, inputs}

Allocate(c) ==
    LET inputs == Inputs(call[c].credits)
        shares == Allocation(Funding, call[c].credits)
    IN
    /\ call[c].at = "read"
    /\ call[c].post
    /\ Ready
    /\ AsReviewed(call[c].expected, inputs)
    /\ pot' = pot - Funding
    /\ operator' = operator + shares.operator
    /\ available' = [m \in Members |-> available[m] + shares.members[m]]
    /\ settlement' = [inputs |-> inputs, pot |-> Funding, shares |-> shares,
                      expected |-> call[c].expected]
    /\ call' = [call EXCEPT ![c] = Idle]
    /\ UNCHANGED <<blockVars, sealVars, transfer, earnings, reimbursed, outcome, reviewed>>

\* A call raises, finds the round settled, or its process dies.
Abandon(c) ==
    /\ call[c] # Idle
    /\ call' = [call EXCEPT ![c] = Idle]
    /\ UNCHANGED <<blockVars, sealVars, moneyVars, settlement, reviewed>>

-----------------------------------------------------------------------------

Observe ==
    \/ \E h \in Heights :
          Record(h) \/ Conflict(h) \/ Resolve(h) \/ ReadBlock(h) \/ StoreCredit(h)
    \/ End \/ SetGapPolicy \/ RecordReport \/ Seal

Fund ==
    \/ \E r \in Reservations : FinalizeCollateral(r)
    \/ \E expected \in Expected, withheld \in Withheld : DeclareEarnings(expected, withheld)
    \/ \E t \in Transfers : Receive(t) \/ AttributeReceipt(t)
    \/ \E t \in Transfers, m \in Members : AttributeReviewed(t, m)
    \/ ReimburseOperatingCost

Settle ==
    \/ \E c \in Calls, post \in BOOLEAN, expected \in {Nothing, reviewed} : Start(c, post, expected)
    \/ \E c \in Calls :
          CheckCoverage(c) \/ ReadCredits(c) \/ Preview(c) \/ Allocate(c) \/ Abandon(c)

Next == Observe \/ Fund \/ Settle

Spec == Init /\ [][Next]_vars

-----------------------------------------------------------------------------
(***************************************************************************)
(* Properties.                                                             *)
(***************************************************************************)

\* Every unit that entered custody is in exactly one place: preparing, funding
\* and paying a round neither creates nor loses money, in whatever order
\* receipts, deposits, forfeits and concurrent settlements come, and overdraws
\* no account.
MoneyIsConserved ==
    LET seen == {t \in Transfers : transfer[t] # "unseen"}
        loose == {t \in Transfers : transfer[t] = "unattributed"}
        open == {r \in Reservations : outcome[r] = "none"}
    IN /\ OperatorFunds + Sum(Value, seen) + Sum(Held, Reservations)
            = operator + pot + Sum(available, Members) + Sum(Value, loose) + Sum(Held, open)
       /\ operator >= 0 /\ pot >= 0 /\ \A m \in Members : available[m] >= 0

\* The pot holds what the round has received, was reimbursed and was forfeited,
\* and nothing remains in it, or enters it, once it is paid out: the equality
\* that _settle checks before it pays never holds a round up.
PotIsFunding == pot = IF settlement = Nothing THEN Funding ELSE 0

\* Members share 95 percent of the pot in proportion to their credit, each less
\* than one unit off and none ahead of a member with more credit, and all of it
\* is paid; without credit it is the operator's.
SharesAreFair ==
    settlement # Nothing =>
        LET credits == settlement.inputs.credits
            share == settlement.shares.members
            total == Sum(credits, Members)
            rest == settlement.pot - Fee(settlement.pot)
            off(m) == share[m] * total - rest * credits[m]
        IN /\ settlement.shares.operator + Sum(share, Members) = settlement.pot
           /\ total > 0 => \A m \in Members : off(m) < total /\ -off(m) < total
           /\ \A m, n \in Members : credits[m] > credits[n] => share[m] >= share[n]
           /\ total = 0 => settlement.shares.operator = settlement.pot

\* A round is settled once: no concurrent or repeated call pays it again or
\* changes what was paid.
SettledOnce == [][settlement # Nothing => settlement' = settlement]_settlement

\* The credit that a settlement pays is that of every height of the round except
\* those it records as missing.
Complete(s) ==
    \E observed \in SUBSET (Heights \ s.inputs.missing) :
        /\ Heights \ (s.inputs.missing \union Waived) \subseteq observed
        /\ s.inputs.credits = CreditsOf(observed)

\* A settlement made with the digest of a reviewed preview is complete, even
\* when a missing block is recovered and credited while it runs: the digest
\* covers the credits and the missing heights that were shown.
ReviewedIsComplete ==
    settlement # Nothing /\ settlement.expected # Nothing => Complete(settlement)
=============================================================================
