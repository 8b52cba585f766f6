---------------------------- MODULE MCSettlement ----------------------------
(***************************************************************************)
(* The instance of Settlement for TLC.                                     *)
(***************************************************************************)
EXTENDS Settlement, TLC

CONSTANTS m1, m2, t1, r1, c1, c2

\* m1 precedes m2.
ById(m, n) == m = m1 /\ n = m2

\* Both members earn at the first height, m2 alone at the second.
TwoHeights == (1 :> ((m1 :> 1) @@ (m2 :> 1))) @@ (2 :> ((m1 :> 0) @@ (m2 :> 1)))
\* The tolerance for missing blocks, before and after its revision.
Stricter   == (0 :> 1) @@ (1 :> 0)
Payments   == t1 :> 20
OneOwner   == r1 :> m1
OneHold    == r1 :> 2
=============================================================================
