------------------------------ MODULE MCReports ------------------------------
(***************************************************************************)
(* One benchmark, created in round 1, that reports into round 2.           *)
(***************************************************************************)
EXTENDS Reports, TLC

CONSTANTS b1

Next1 == b1 :> 2
=============================================================================
