---------------------------- MODULE MCBenchmarks ----------------------------
(***************************************************************************)
(* The instance of Benchmarks for TLC.                                     *)
(***************************************************************************)
EXTENDS Benchmarks, TLC

CONSTANTS m1, m2, r1, r2, b1

\* One member asks twice and has one slot, in two rounds, with a multiplier that
\* rounds up and one that waives the collateral, and without money for both.
MoneyMember == (r1 :> m1) @@ (r2 :> m1)
MoneyRound  == (r1 :> 1) @@ (r2 :> 2)
MoneyBase   == (r1 :> 3) @@ (r2 :> 2)
MoneyFee    == (r1 :> 2) @@ (r2 :> 1)
MoneyFunds  == (m1 :> 3) @@ (m2 :> 1)
=============================================================================
