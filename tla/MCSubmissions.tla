--------------------------- MODULE MCSubmissions ----------------------------
(***************************************************************************)
(* Instances of Submissions for TLC.  Money plays no part here: the work   *)
(* is free, so that what varies is the protocol.                           *)
(***************************************************************************)
EXTENDS Submissions, TLC

CONSTANTS m1, r1, r2, f1, w1, w2

Owner  == [r \in Reservations |-> m1]
Round  == [r \in Reservations |-> 1]
Free   == [r \in Reservations |-> 0]
Funds  == [m \in Members |-> 0]
OneKey == [b \in Reservations \union Foreign |-> 1]

\* Bound of the run about the identity of benchmarks: ends of lifetimes and offers
\* and pauses play no part in it.
Focus == ~paused /\ \A r \in Reservations : ~elapsed[r] /\ ~offerExpired[r]

BothSymmetry == Permutations(Workers) \union Permutations(Reservations)
=============================================================================
