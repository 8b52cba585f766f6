------------------------------- MODULE MCSpool -------------------------------
(***************************************************************************)
(* Two captures: each may find on disk a chunk that the other has written.  *)
(***************************************************************************)
EXTENDS Spool, TLC

CONSTANTS c1, c2

Shared == (c1 :> {"x"}) @@ (c2 :> {"x", "y"})
=============================================================================
