----------------------------- MODULE MCCustody ------------------------------
(***************************************************************************)
(* Instances of Custody for TLC.                                           *)
(***************************************************************************)
EXTENDS Custody, TLC

CONSTANTS m1, op, w1, w2, p1, d1, g1, c1, c2

\* Two withdrawals of one member, who has money for both.
OneOwner   == [w \in {w1, w2} |-> m1]
SameAmount == [w \in {w1, w2} |-> 2]
Plenty     == m1 :> 4

\* An operator withdrawal and a top-up, a deposit and a gas grant.
OperatorOnly == w1 :> op
TwoSends     == (w1 :> 2) @@ (p1 :> 1)
Coins        == (d1 :> "tig") @@ (g1 :> "native")
Coming       == (d1 :> 1) @@ (g1 :> 1)
Empty        == <<>>
=============================================================================
