------------------------------ MODULE MCReplay -------------------------------
(***************************************************************************)
(* Three blocks, of which the newest no longer shows the row that the      *)
(* older two show first.                                                   *)
(***************************************************************************)
EXTENDS Replay, TLC

Feeds == (1 :> {1}) @@ (2 :> {1, 2}) @@ (3 :> {2})
=============================================================================
